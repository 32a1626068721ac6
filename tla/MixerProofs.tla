---------------------------- MODULE MixerProofs ----------------------------
(***************************************************************************)
(* The properties of the control interface and of the simple mixer, for    *)
(* any number of controls, control appearances and mixer elements.         *)
(*                                                                         *)
(* What the control interface keeps true by itself, whatever the callbacks *)
(* do, comes first: the list follows the device through the events that    *)
(* are queued.                                                             *)
(*                                                                         *)
(* The callbacks build the mixer's next state from the present one, so the *)
(* lemmas about them speak of states s and x and of a list L; the step     *)
(* lemmas then take s for State and L for list.                            *)
(***************************************************************************)
EXTENDS Mixer, WellFoundedInduction, TLAPS

-----------------------------------------------------------------------------
(* The control interface. *)

Bits == {"ADD", "REMOVE", "VALUE", "INFO"}
Masks == {{"REMOVE"}} \cup {m \in SUBSET {"ADD", "VALUE", "INFO"} : m # {}}
Entries == [elem : Elements, mask : Masks]
Steps == {"idle", "load", "event", "free", "close", "set.read", "set.write"}

HTypeOK ==
    /\ scenario \in Scenarios
    /\ numid \in [Ctls -> 0..MaxNumid]
    /\ last \in 0..MaxNumid
    /\ queue \in Seq(Entries)
    /\ subscribed \in BOOLEAN
    /\ list \subseteq Elements
    /\ pc \in Steps
    /\ todo \subseteq list
    /\ pc = "event" => event \in Entries
    /\ synced \in BOOLEAN

\* An element that the device may have had so far.
Known(e) == e.ctl \in scenario.ctls /\ e.numid <= last

\* Nothing is heard of a control that the device does not have, and INFO only
\* where drivers report it.
KnownInv ==
    /\ \A c \in Ctls : numid[c] # 0 => c \in scenario.ctls /\ numid[c] <= last
    /\ \A e \in list : Known(e)
    /\ \A i \in DOMAIN queue : /\ Known(queue[i].elem)
                               /\ "INFO" \in queue[i].mask => "INFO" \in scenario.notes
    /\ pc = "event" => /\ Known(event.elem)
                       /\ "INFO" \in event.mask => "INFO" \in scenario.notes

\* The list has one element of a control, elements are announced in
\* snd_hctl_load only, and events arrive only after the subscription.
StepInv ==
    /\ \A d, e \in list : d.ctl = e.ctl => d = e
    /\ todo # {} => pc = "load"
    /\ ~subscribed => queue = <<>>
    /\ synced => subscribed \/ pc = "load"
    /\ pc \in {"free", "close"} => ~synced

\* The elements whose control shares its identity with no other.  The others may be
\* taken for one another, so the list need not follow the device in them.
Own == {e \in list : Alone(e.ctl)}

\* Those elements as they are once the event that has been read is handled.
View ==
    {e \in Own : ~(pc = "event" /\ event.mask = {"REMOVE"} /\ e.ctl = event.elem.ctl)}
    \cup {e \in {event.elem} : pc = "event" /\ "ADD" \in event.mask /\ Alone(e.ctl)}

\* Events of one control are of growing numids, each but the last a removal
\* and each but the first of a control that had not been there before.
Ordered(q) ==
    \A i, j \in DOMAIN q : i < j /\ q[i].elem.ctl = q[j].elem.ctl =>
        /\ q[i].mask = {"REMOVE"}
        /\ q[i].elem.numid < q[j].elem.numid
        /\ q[j].mask = {"REMOVE"} \/ "ADD" \in q[j].mask

\* A removal is of a numid that is no more, any other event of one that is.
Current(q, n) ==
    \A i \in DOMAIN q :
        IF q[i].mask = {"REMOVE"}
        THEN n[q[i].elem.ctl] = 0 \/ q[i].elem.numid < n[q[i].elem.ctl]
        ELSE n[q[i].elem.ctl] = q[i].elem.numid

\* The last event of a control that exists is of its numid.
Ends(q, n) ==
    \A i \in DOMAIN q : n[q[i].elem.ctl] # 0 =>
        \E j \in DOMAIN q : /\ i <= j
                            /\ q[j].elem.ctl = q[i].elem.ctl
                            /\ q[j].elem.numid = n[q[i].elem.ctl]

\* The first event of a control fits what the list holds of it.
Starts(q, view) ==
    \A i \in DOMAIN q :
        Alone(q[i].elem.ctl) /\ (\A k \in DOMAIN q : k < i => q[k].elem.ctl # q[i].elem.ctl) =>
            /\ "ADD" \in q[i].mask => \A v \in view : v.ctl # q[i].elem.ctl
            /\ q[i].mask \subseteq {"VALUE", "INFO"} => q[i].elem \in view
            /\ q[i].mask = {"REMOVE"} =>
                   \A v \in view : v.ctl = q[i].elem.ctl => v = q[i].elem

\* A control without events is in the list as it is on the device.
Quiet(q, n, view) ==
    \A e \in Elements : Alone(e.ctl) /\ (\A i \in DOMAIN q : q[i].elem.ctl # e.ctl) =>
        (e \in view <=> n[e.ctl] = e.numid)

\* The event that has been read fits the list.
EventFits ==
    pc = "event" /\ Alone(event.elem.ctl) =>
        /\ "ADD" \in event.mask => \A e \in list : e.ctl # event.elem.ctl
        /\ event.mask \subseteq {"VALUE", "INFO"} => event.elem \in list

FollowInv ==
    synced => /\ Ordered(queue)
              /\ Current(queue, numid)
              /\ Ends(queue, numid)
              /\ Starts(queue, View)
              /\ Quiet(queue, numid, View)
              /\ EventFits

HInv == HTypeOK /\ KnownInv /\ StepInv /\ FollowInv

-----------------------------------------------------------------------------
(* The steps, as a module that adds callbacks takes them: those of HControl, *)
(* and what setting a control adds to them.                                  *)

Setting == /\ pc \in {"idle", "set.read", "set.write"}
           /\ pc' \in {"idle", "set.read", "set.write"}
           /\ UNCHANGED <<kernel, list, todo, event, synced>>

Written(e) == /\ pc = "set.write"
              /\ e \in Present
              /\ queue' = Notified(e, "VALUE")
              /\ pc' = "idle"
              /\ UNCHANGED <<scenario, numid, last, subscribed, list, todo, event, synced>>

KernelStep(c) == \/ ControlAppears(c)
                 \/ ControlVanishes(c)
                 \/ \E m \in scenario.notes : ControlReports(c, m)

HandleStep == \/ HandleAdd \/ HandleFails
              \/ \E e \in Elements : HandleRemove(e) \/ HandleChange(e)

FreeStep == \/ \E step \in {"free", "close"} : FreeAll(step)
            \/ \E e \in Elements : FreeOne(e)
            \/ FreeEnd \/ CloseEnd

HStep == \/ \E c \in Ctls : KernelStep(c)
         \/ Load \/ (\E e \in Elements : Announce(e)) \/ Subscribe
         \/ ReadEvent \/ HandleStep \/ FreeStep
         \/ Setting \/ \E e \in Elements : Written(e)

-----------------------------------------------------------------------------
(* Merging an event into the queue. *)

\* The bits of a mask.
LEMMA AllBits == {"ADD", "REMOVE", "VALUE", "INFO"} \subseteq Bits
BY DEF Bits

\* Two elements are the same when control and numid are.
LEMMA SameElement ==
    ASSUME NEW d \in Elements, NEW e \in Elements, d.ctl = e.ctl, d.numid = e.numid
    PROVE  d = e
BY DEF Elements

\* What is known of an element is what its fields say.
LEMMA ElementOf ==
    ASSUME NEW c \in Ctls, NEW n \in 1..MaxNumid, NEW e, e = [ctl |-> c, numid |-> n]
    PROVE  e \in Elements /\ e.ctl = c /\ e.numid = n
BY DEF Elements

\* A merged mask is a mask.
LEMMA MergedMask ==
    ASSUME NEW old \in Masks, NEW m \in Bits
    PROVE  /\ Merged(old, m) \in Masks
           /\ m = "REMOVE" \/ old = {"REMOVE"} => Merged(old, m) = {"REMOVE"}
           /\ m # "REMOVE" /\ old # {"REMOVE"} => Merged(old, m) = old \cup {m}
<1> USE DEF Bits
<1>1. "REMOVE" \in old <=> old = {"REMOVE"}
  BY DEF Masks
<1>2. CASE "REMOVE" \in old \cup {m}
  BY <1>1, <1>2 DEF Masks, Merged
<1>3. CASE "REMOVE" \notin old \cup {m}
  BY <1>1, <1>3 DEF Masks, Merged
<1> QED BY <1>2, <1>3

\* An event of an element that has one in the queue is merged into it.
LEMMA NotifiedMerged ==
    ASSUME HTypeOK, NEW e \in Elements, NEW m \in Bits,
           subscribed, NEW x \in DOMAIN queue, queue[x].elem = e
    PROVE  /\ Notified(e, m) \in Seq(Entries)
           /\ DOMAIN Notified(e, m) = DOMAIN queue
           /\ \A i \in DOMAIN queue :
                  /\ Notified(e, m)[i].elem = queue[i].elem
                  /\ Notified(e, m)[i].mask = IF queue[i].elem = e THEN Merged(queue[i].mask, m)
                                              ELSE queue[i].mask
<1> DEFINE q == [i \in DOMAIN queue |-> IF queue[i].elem = e
                     THEN [elem |-> e, mask |-> Merged(queue[i].mask, m)] ELSE queue[i]]
<1>1. Notified(e, m) = q
  BY DEF Notified
<1>2. queue \in Seq(Entries) /\ \A i \in DOMAIN queue : queue[i] \in Entries
  BY DEF HTypeOK
<1>3. \A i \in DOMAIN queue : /\ q[i].elem = queue[i].elem
                              /\ q[i].mask = IF queue[i].elem = e THEN Merged(queue[i].mask, m)
                                             ELSE queue[i].mask
  BY <1>2 DEF Entries
<1>4. \A i \in DOMAIN queue : q[i] \in Entries
  <2> TAKE i \in DOMAIN queue
  <2>1. queue[i].mask \in Masks /\ queue[i] \in Entries
    BY <1>2 DEF Entries
  <2>2. Merged(queue[i].mask, m) \in Masks
    BY <2>1, MergedMask, AllBits
  <2> QED BY <2>1, <2>2 DEF Entries
<1>5. q \in Seq(Entries)
  <2>1. PICK n \in Nat : DOMAIN queue = 1..n
    BY <1>2
  <2>2. q \in [1..n -> Entries]
    BY <1>4, <2>1
  <2> QED BY <2>2
<1> QED BY <1>1, <1>3, <1>5

\* An event of an element that has none is appended.
LEMMA NotifiedAppended ==
    ASSUME HTypeOK, NEW e \in Elements, NEW m \in Bits,
           subscribed, \A i \in DOMAIN queue : queue[i].elem # e
    PROVE  /\ Notified(e, m) \in Seq(Entries)
           /\ DOMAIN Notified(e, m) = DOMAIN queue \cup {Len(queue) + 1}
           /\ \A i \in DOMAIN queue : Notified(e, m)[i] = queue[i] /\ i < Len(queue) + 1
           /\ Notified(e, m)[Len(queue) + 1].elem = e
           /\ Notified(e, m)[Len(queue) + 1].mask = {m}
<1>1. Notified(e, m) = Append(queue, [elem |-> e, mask |-> {m}])
  BY DEF Notified
<1>2. queue \in Seq(Entries) /\ [elem |-> e, mask |-> {m}] \in Entries
  BY DEF HTypeOK, Entries, Masks, Bits
<1> HIDE DEF Entries
<1>3. Notified(e, m) \in Seq(Entries)
  BY <1>1, <1>2
<1>4. /\ DOMAIN Notified(e, m) = DOMAIN queue \cup {Len(queue) + 1}
      /\ \A i \in DOMAIN queue : Notified(e, m)[i] = queue[i] /\ i < Len(queue) + 1
      /\ Notified(e, m)[Len(queue) + 1] = [elem |-> e, mask |-> {m}]
  BY <1>1, <1>2
<1> QED BY <1>3, <1>4

-----------------------------------------------------------------------------
(* The queue follows the kernel's steps. *)

\* What the queue, the numids and a view of the list have to do with each other.
Follows(q, n, view) ==
    /\ Ordered(q) /\ Current(q, n) /\ Ends(q, n)
    /\ Starts(q, view) /\ Quiet(q, n, view)

\* A view of the list has one element of a control.
LEMMA ViewUnique ==
    ASSUME HTypeOK, StepInv, EventFits
    PROVE  View \subseteq Elements /\ \A v, w \in View : v.ctl = w.ctl => v = w
<1>1. pc = "event" => event.elem \in Elements
  BY DEF HTypeOK, Entries
<1>2. \A v \in View : \/ v \in list
                     \/ /\ v = event.elem /\ pc = "event" /\ "ADD" \in event.mask
                        /\ Alone(event.elem.ctl)
  BY DEF View, Own
<1> QED BY <1>1, <1>2 DEF HTypeOK, StepInv, EventFits

\* An event in the queue has an element and a mask.
LEMMA QueueTyped ==
    ASSUME HTypeOK, NEW i \in DOMAIN queue
    PROVE  /\ queue[i].elem \in Elements /\ queue[i].mask \in Masks
           /\ queue[i].elem.ctl \in Ctls /\ queue[i].elem.numid \in 1..MaxNumid
           /\ numid[queue[i].elem.ctl] \in 0..MaxNumid
           /\ i \in Nat
<1>1. queue[i] \in Entries /\ i \in Nat
  BY DEF HTypeOK
<1> QED BY <1>1 DEF HTypeOK, Entries, Elements

\* ControlReports: a control that exists reports a change.
LEMMA ReportFollows ==
    ASSUME HTypeOK, subscribed, NEW e \in Elements, numid[e.ctl] = e.numid,
           NEW m \in {"VALUE", "INFO"}, NEW view, Follows(queue, numid, view)
    PROVE  Follows(Notified(e, m), numid, view)
<1> DEFINE q == Notified(e, m)
<1> USE DEF Follows
<1>e. e.ctl \in Ctls /\ e.numid \in 1..MaxNumid
  BY DEF Elements
<1>1. CASE \E x \in DOMAIN queue : queue[x].elem = e
  <2>1. PICK x \in DOMAIN queue : queue[x].elem = e
    BY <1>1
  <2>2. DOMAIN q = DOMAIN queue /\ \A i \in DOMAIN queue :
            q[i].elem = queue[i].elem
    BY <2>1, NotifiedMerged, AllBits
  <2>3. \A i \in DOMAIN queue :
            /\ q[i].mask = {"REMOVE"} <=> queue[i].mask = {"REMOVE"}
            /\ "ADD" \in q[i].mask <=> "ADD" \in queue[i].mask
            /\ q[i].mask \subseteq {"VALUE", "INFO"} <=> queue[i].mask \subseteq {"VALUE", "INFO"}
    <3> TAKE i \in DOMAIN queue
    <3>1. queue[i].mask \in Masks
      BY QueueTyped
    <3>2. q[i].mask = IF queue[i].elem = e THEN Merged(queue[i].mask, m) ELSE queue[i].mask
      BY <2>1, NotifiedMerged, AllBits
    <3>3. /\ queue[i].mask = {"REMOVE"} => Merged(queue[i].mask, m) = {"REMOVE"}
          /\ queue[i].mask # {"REMOVE"} => Merged(queue[i].mask, m) = queue[i].mask \cup {m}
      <4>1. m \in Bits /\ m # "REMOVE"
        BY DEF Bits
      <4> QED BY <3>1, <4>1, MergedMask
    <3>4. CASE queue[i].mask = {"REMOVE"}
      BY <3>2, <3>3, <3>4
    <3>5. CASE queue[i].mask # {"REMOVE"}
      <4>1. queue[i].mask \subseteq {"ADD", "VALUE", "INFO"} /\ "REMOVE" \notin queue[i].mask
        BY <3>1, <3>5 DEF Masks
      <4>2. q[i].mask = queue[i].mask \/ q[i].mask = queue[i].mask \cup {m}
        BY <3>2, <3>3, <3>5
      <4> QED BY <4>1, <4>2, <3>5
    <3> QED BY <3>4, <3>5
  <2> HIDE DEF q
  <2>4. Ordered(q)
    BY <2>2, <2>3 DEF Ordered
  <2>5. Current(q, numid)
    BY <2>2, <2>3 DEF Current
  <2>6. Ends(q, numid)
    BY <2>2 DEF Ends
  <2>7. Starts(q, view)
    BY <2>2, <2>3 DEF Starts
  <2>8. Quiet(q, numid, view)
    BY <2>2 DEF Quiet
  <2> QED BY <2>4, <2>5, <2>6, <2>7, <2>8 DEF q
<1>2. CASE \A i \in DOMAIN queue : queue[i].elem # e
  <2> DEFINE n == Len(queue) + 1
  <2>1. /\ DOMAIN q = DOMAIN queue \cup {n}
        /\ \A i \in DOMAIN queue : q[i] = queue[i] /\ i < n
        /\ q[n].elem = e
        /\ q[n].mask = {m}
    <3>1. m \in Bits
      BY AllBits
    <3> QED BY <1>2, <3>1, NotifiedAppended, AllBits, Zenon
  <2>2. n \in Nat /\ n \notin DOMAIN queue
    BY DEF HTypeOK
  <2> HIDE DEF q, n
  <2>3. \A i \in DOMAIN queue : queue[i].elem.ctl # e.ctl
    <3> SUFFICES ASSUME NEW i \in DOMAIN queue, queue[i].elem.ctl = e.ctl PROVE FALSE
      OBVIOUS
    <3>1. PICK j \in DOMAIN queue : queue[j].elem.ctl = e.ctl /\ queue[j].elem.numid = e.numid
      BY <1>e DEF Ends
    <3> QED BY <3>1, <1>2, QueueTyped, SameElement
  <2>4. Alone(e.ctl) => e \in view
    BY <2>3 DEF Quiet
  <2>5. \A i \in DOMAIN queue : i \in Nat /\ i < n
    BY <2>1, QueueTyped
  <2>6. Ordered(q)
    BY <2>1, <2>2, <2>3, <2>5 DEF Ordered
  <2>7. Current(q, numid)
    BY <2>1, <1>e DEF Current
  <2>8. Ends(q, numid)
    BY <2>1, <2>2, <1>e DEF Ends
  <2>9. Starts(q, view)
    <3> SUFFICES ASSUME NEW i \in DOMAIN q, Alone(q[i].elem.ctl),
                        \A k \in DOMAIN q : k < i => q[k].elem.ctl # q[i].elem.ctl
                 PROVE  /\ "ADD" \in q[i].mask => \A v \in view : v.ctl # q[i].elem.ctl
                        /\ q[i].mask \subseteq {"VALUE", "INFO"} => q[i].elem \in view
                        /\ q[i].mask = {"REMOVE"} =>
                               \A v \in view : v.ctl = q[i].elem.ctl => v = q[i].elem
      BY DEF Starts
    <3>1. CASE i = n
      <4>1. "ADD" \notin {m} /\ {m} # {"REMOVE"}
        OBVIOUS
      <4> QED BY <3>1, <4>1, <2>1, <2>4
    <3>2. CASE i \in DOMAIN queue
      <4>1. q[i] = queue[i] /\ \A k \in DOMAIN queue : k < i => queue[k].elem.ctl # queue[i].elem.ctl
        BY <3>2, <2>1
      <4> QED BY <4>1, <3>2 DEF Starts
    <3> QED BY <3>1, <3>2, <2>1
  <2>10. Quiet(q, numid, view)
    BY <2>1 DEF Quiet
  <2> QED BY <2>6, <2>7, <2>8, <2>9, <2>10 DEF q
<1> QED BY <1>1, <1>2

\* ControlAppears: a control gets a numid that no event has had.
LEMMA AppearFollows ==
    ASSUME HTypeOK, KnownInv, subscribed, NEW e \in Elements, numid[e.ctl] = 0,
           e.numid = last + 1, NEW n, n = [numid EXCEPT ![e.ctl] = e.numid],
           NEW view \in SUBSET Elements, Follows(queue, numid, view)
    PROVE  Follows(Notified(e, "ADD"), n, view)
<1> DEFINE q == Notified(e, "ADD")
           z == Len(queue) + 1
<1> USE DEF Follows
<1>e. e.ctl \in Ctls /\ e.numid \in 1..MaxNumid /\ last \in Nat
  BY DEF Elements, HTypeOK
<1>n. n[e.ctl] = e.numid /\ \A c \in Ctls : c # e.ctl => n[c] = numid[c]
  BY <1>e DEF HTypeOK
<1>old. \A i \in DOMAIN queue : queue[i].elem.numid < e.numid
  BY <1>e, QueueTyped DEF KnownInv, Known
<1>gone. \A i \in DOMAIN queue : queue[i].elem.ctl = e.ctl => queue[i].mask = {"REMOVE"}
  BY QueueTyped DEF Current
<1>2. \A i \in DOMAIN queue : queue[i].elem # e
  BY <1>old, <1>e
<1>1. /\ DOMAIN q = DOMAIN queue \cup {z}
      /\ \A i \in DOMAIN queue : q[i] = queue[i] /\ i < z
      /\ q[z].elem = e
      /\ q[z].mask = {"ADD"}
  BY <1>2, NotifiedAppended, AllBits, Zenon
<1>3. z \in Nat /\ z \notin DOMAIN queue
  BY DEF HTypeOK
<1> HIDE DEF q, z
<1>5. \A i \in DOMAIN queue : i \in Nat /\ i < z
  BY <1>1, QueueTyped
<1>6. Ordered(q)
  BY <1>1, <1>3, <1>5, <1>old, <1>gone DEF Ordered
<1>7. Current(q, n)
  <2> SUFFICES ASSUME NEW i \in DOMAIN q
               PROVE  IF q[i].mask = {"REMOVE"}
                      THEN n[q[i].elem.ctl] = 0 \/ q[i].elem.numid < n[q[i].elem.ctl]
                      ELSE n[q[i].elem.ctl] = q[i].elem.numid
    BY DEF Current
  <2>1. CASE i = z
    BY <2>1, <1>1, <1>n
  <2>2. CASE i \in DOMAIN queue /\ queue[i].elem.ctl = e.ctl
    BY <2>2, <1>1, <1>n, <1>old, <1>gone
  <2>3. CASE i \in DOMAIN queue /\ queue[i].elem.ctl # e.ctl
    BY <2>3, <1>1, <1>n, QueueTyped DEF Current
  <2> QED BY <2>1, <2>2, <2>3, <1>1
<1>8. Ends(q, n)
  <2> SUFFICES ASSUME NEW i \in DOMAIN q, n[q[i].elem.ctl] # 0
               PROVE  \E j \in DOMAIN q : /\ i <= j
                            /\ q[j].elem.ctl = q[i].elem.ctl
                            /\ q[j].elem.numid = n[q[i].elem.ctl]
    BY DEF Ends
  <2>1. CASE q[i].elem.ctl = e.ctl
    BY <2>1, <1>1, <1>3, <1>5, <1>n
  <2>2. CASE q[i].elem.ctl # e.ctl
    <3>1. i \in DOMAIN queue /\ q[i] = queue[i]
      BY <2>2, <1>1
    <3>2. n[queue[i].elem.ctl] = numid[queue[i].elem.ctl]
      BY <3>1, <2>2, <1>n, QueueTyped
    <3>3. PICK j \in DOMAIN queue : /\ i <= j
                            /\ queue[j].elem.ctl = queue[i].elem.ctl
                            /\ queue[j].elem.numid = numid[queue[i].elem.ctl]
      BY <3>1, <3>2 DEF Ends
    <3>4. j \in DOMAIN q /\ q[j] = queue[j]
      BY <1>1
    <3> QED BY <3>1, <3>2, <3>3, <3>4
  <2> QED BY <2>1, <2>2
<1>9. Starts(q, view)
  <2> SUFFICES ASSUME NEW i \in DOMAIN q, Alone(q[i].elem.ctl),
                      \A k \in DOMAIN q : k < i => q[k].elem.ctl # q[i].elem.ctl
               PROVE  /\ "ADD" \in q[i].mask => \A v \in view : v.ctl # q[i].elem.ctl
                      /\ q[i].mask \subseteq {"VALUE", "INFO"} => q[i].elem \in view
                      /\ q[i].mask = {"REMOVE"} =>
                             \A v \in view : v.ctl = q[i].elem.ctl => v = q[i].elem
    BY DEF Starts
  <2>1. CASE i = z
    <3>1. \A k \in DOMAIN queue : queue[k].elem.ctl # e.ctl
      BY <2>1, <1>1
    <3>a. Alone(e.ctl)
      BY <2>1, <1>1
    <3>2. \A v \in view : v.ctl # e.ctl
      BY <3>1, <3>a DEF Quiet, Elements
    <3> QED BY <2>1, <3>2, <1>1
  <2>2. CASE i \in DOMAIN queue
    <3>1. q[i] = queue[i] /\ \A k \in DOMAIN queue : k < i => queue[k].elem.ctl # queue[i].elem.ctl
      BY <2>2, <1>1
    <3> QED BY <3>1, <2>2 DEF Starts
  <2> QED BY <2>1, <2>2, <1>1
<1>10. Quiet(q, n, view)
  <2> SUFFICES ASSUME NEW d \in Elements, Alone(d.ctl), \A i \in DOMAIN q : q[i].elem.ctl # d.ctl
               PROVE  d \in view <=> n[d.ctl] = d.numid
    BY DEF Quiet
  <2>1. d.ctl # e.ctl /\ d.ctl \in Ctls /\ \A i \in DOMAIN queue : queue[i].elem.ctl # d.ctl
    BY <1>1 DEF Elements
  <2> QED BY <2>1, <1>n DEF Quiet
<1> QED BY <1>6, <1>7, <1>8, <1>9, <1>10 DEF q

\* ControlVanishes: a control loses its numid.
LEMMA VanishFollows ==
    ASSUME HTypeOK, subscribed, NEW e \in Elements, numid[e.ctl] = e.numid,
           NEW n, n = [numid EXCEPT ![e.ctl] = 0],
           NEW view \in SUBSET Elements, \A v, w \in view : v.ctl = w.ctl => v = w,
           Follows(queue, numid, view)
    PROVE  Follows(Notified(e, "REMOVE"), n, view)
<1> DEFINE q == Notified(e, "REMOVE")
<1> USE DEF Follows
<1>e. e.ctl \in Ctls /\ e.numid \in 1..MaxNumid
  BY DEF Elements
<1>n. n[e.ctl] = 0 /\ \A c \in Ctls : c # e.ctl => n[c] = numid[c]
  BY <1>e DEF HTypeOK
<1>1. CASE \E x \in DOMAIN queue : queue[x].elem = e
  <2>1. PICK x \in DOMAIN queue : queue[x].elem = e
    BY <1>1
  <2>2. DOMAIN q = DOMAIN queue /\ \A i \in DOMAIN queue : q[i].elem = queue[i].elem
    BY <2>1, NotifiedMerged, AllBits
  <2>3. \A i \in DOMAIN queue :
            q[i].mask = IF queue[i].elem = e THEN {"REMOVE"} ELSE queue[i].mask
    <3> TAKE i \in DOMAIN queue
    <3>1. queue[i].mask \in Masks
      BY QueueTyped
    <3>2. q[i].mask = IF queue[i].elem = e THEN Merged(queue[i].mask, "REMOVE") ELSE queue[i].mask
      BY <2>1, NotifiedMerged, AllBits
    <3> QED BY <3>1, <3>2, MergedMask, AllBits
  <2> HIDE DEF q
  <2>i. \A i \in DOMAIN queue : i \in Nat
    BY QueueTyped
  <2>gone. \A i \in DOMAIN queue : queue[i].elem.ctl = e.ctl => q[i].mask = {"REMOVE"}
    <3> SUFFICES ASSUME NEW i \in DOMAIN queue, queue[i].elem.ctl = e.ctl,
                        queue[i].mask # {"REMOVE"}
                 PROVE  queue[i].elem = e
      BY <2>3
    <3>1. queue[i].elem.numid = e.numid
      BY DEF Current
    <3> QED BY <3>1, QueueTyped, SameElement
  <2>4. Ordered(q)
    BY <2>2, <2>3, <2>gone DEF Ordered
  <2>5. Current(q, n)
    <3> SUFFICES ASSUME NEW i \in DOMAIN q
                 PROVE  IF q[i].mask = {"REMOVE"}
                        THEN n[q[i].elem.ctl] = 0 \/ q[i].elem.numid < n[q[i].elem.ctl]
                        ELSE n[q[i].elem.ctl] = q[i].elem.numid
      BY DEF Current
    <3>1. CASE queue[i].elem.ctl = e.ctl
      BY <3>1, <2>2, <2>gone, <1>n
    <3>2. CASE queue[i].elem.ctl # e.ctl
      <4>1. q[i].mask = queue[i].mask /\ q[i].elem = queue[i].elem
            /\ n[queue[i].elem.ctl] = numid[queue[i].elem.ctl]
        BY <3>2, <2>2, <2>3, <1>n, QueueTyped
      <4> QED BY <4>1, <2>2 DEF Current
    <3> QED BY <3>1, <3>2
  <2>6. Ends(q, n)
    <3> SUFFICES ASSUME NEW i \in DOMAIN q, n[q[i].elem.ctl] # 0
                 PROVE  \E j \in DOMAIN q : /\ i <= j
                              /\ q[j].elem.ctl = q[i].elem.ctl
                              /\ q[j].elem.numid = n[q[i].elem.ctl]
      BY DEF Ends
    <3>1. n[queue[i].elem.ctl] = numid[queue[i].elem.ctl]
      BY <2>2, <1>n, QueueTyped
    <3> QED BY <3>1, <2>2 DEF Ends
  <2>7. Starts(q, view)
    <3> SUFFICES ASSUME NEW i \in DOMAIN q, Alone(q[i].elem.ctl),
                        \A k \in DOMAIN q : k < i => q[k].elem.ctl # q[i].elem.ctl
                 PROVE  /\ "ADD" \in q[i].mask => \A v \in view : v.ctl # q[i].elem.ctl
                        /\ q[i].mask \subseteq {"VALUE", "INFO"} => q[i].elem \in view
                        /\ q[i].mask = {"REMOVE"} =>
                               \A v \in view : v.ctl = q[i].elem.ctl => v = q[i].elem
      BY DEF Starts
    <3>1. \A k \in DOMAIN queue : k < i => queue[k].elem.ctl # queue[i].elem.ctl
      BY <2>2
    <3>2. /\ "ADD" \in queue[i].mask => \A v \in view : v.ctl # queue[i].elem.ctl
          /\ queue[i].mask \subseteq {"VALUE", "INFO"} => queue[i].elem \in view
          /\ queue[i].mask = {"REMOVE"} =>
                 \A v \in view : v.ctl = queue[i].elem.ctl => v = queue[i].elem
      BY <3>1, <2>2 DEF Starts
    <3>3. CASE queue[i].elem # e
      BY <3>2, <3>3, <2>2, <2>3
    <3>4. CASE queue[i].elem = e
      <4>1. queue[i].mask \in Masks
        BY <2>2, QueueTyped
      <4>2. "ADD" \in queue[i].mask \/ queue[i].mask \subseteq {"VALUE", "INFO"}
                \/ queue[i].mask = {"REMOVE"}
        BY <4>1 DEF Masks
      <4>3. \A v \in view : v.ctl = e.ctl => v = e
        BY <3>2, <3>4, <4>2
      <4>4. q[i].mask = {"REMOVE"} /\ q[i].elem = e
        BY <3>4, <2>2, <2>3
      <4> QED BY <4>3, <4>4
    <3> QED BY <3>3, <3>4
  <2>8. Quiet(q, n, view)
    <3> SUFFICES ASSUME NEW d \in Elements, Alone(d.ctl), \A i \in DOMAIN q : q[i].elem.ctl # d.ctl
                 PROVE  d \in view <=> n[d.ctl] = d.numid
      BY DEF Quiet
    <3>1. d.ctl # e.ctl /\ d.ctl \in Ctls /\ \A i \in DOMAIN queue : queue[i].elem.ctl # d.ctl
      BY <2>1, <2>2 DEF Elements
    <3> QED BY <3>1, <1>n DEF Quiet
  <2> QED BY <2>4, <2>5, <2>6, <2>7, <2>8 DEF q
<1>2. CASE \A i \in DOMAIN queue : queue[i].elem # e
  <2> DEFINE z == Len(queue) + 1
  <2>1. /\ DOMAIN q = DOMAIN queue \cup {z}
        /\ \A i \in DOMAIN queue : q[i] = queue[i] /\ i < z
        /\ q[z].elem = e
        /\ q[z].mask = {"REMOVE"}
    BY <1>2, NotifiedAppended, AllBits, Zenon
  <2>2. z \in Nat /\ z \notin DOMAIN queue
    BY DEF HTypeOK
  <2> HIDE DEF q, z
  <2>3. \A i \in DOMAIN queue : queue[i].elem.ctl # e.ctl
    <3> SUFFICES ASSUME NEW i \in DOMAIN queue, queue[i].elem.ctl = e.ctl PROVE FALSE
      OBVIOUS
    <3>1. PICK j \in DOMAIN queue : queue[j].elem.ctl = e.ctl /\ queue[j].elem.numid = e.numid
      BY <1>e DEF Ends
    <3> QED BY <3>1, <1>2, QueueTyped, SameElement
  <2>4. Alone(e.ctl) => \A v \in view : v.ctl = e.ctl => v = e
    BY <2>3 DEF Quiet
  <2>5. \A i \in DOMAIN queue : i \in Nat /\ i < z
    BY <2>1, QueueTyped
  <2>6. Ordered(q)
    BY <2>1, <2>2, <2>3, <2>5 DEF Ordered
  <2>0. \A i \in DOMAIN queue : n[queue[i].elem.ctl] = numid[queue[i].elem.ctl]
    BY <2>3, <1>n, QueueTyped
  <2>7. Current(q, n)
    BY <2>0, <2>1, <1>n DEF Current
  <2>8. Ends(q, n)
    BY <2>0, <2>1, <2>2, <1>n DEF Ends
  <2>9. Starts(q, view)
    <3> SUFFICES ASSUME NEW i \in DOMAIN q, Alone(q[i].elem.ctl),
                        \A k \in DOMAIN q : k < i => q[k].elem.ctl # q[i].elem.ctl
                 PROVE  /\ "ADD" \in q[i].mask => \A v \in view : v.ctl # q[i].elem.ctl
                        /\ q[i].mask \subseteq {"VALUE", "INFO"} => q[i].elem \in view
                        /\ q[i].mask = {"REMOVE"} =>
                               \A v \in view : v.ctl = q[i].elem.ctl => v = q[i].elem
      BY DEF Starts
    <3>1. CASE i = z
      <4>1. "ADD" \notin {"REMOVE"} /\ ~({"REMOVE"} \subseteq {"VALUE", "INFO"})
        OBVIOUS
      <4> QED BY <3>1, <4>1, <2>1, <2>4
    <3>2. CASE i \in DOMAIN queue
      <4>1. q[i] = queue[i] /\ \A k \in DOMAIN queue : k < i => queue[k].elem.ctl # queue[i].elem.ctl
        BY <3>2, <2>1
      <4> QED BY <4>1, <3>2 DEF Starts
    <3> QED BY <3>1, <3>2, <2>1
  <2>10. Quiet(q, n, view)
    <3> SUFFICES ASSUME NEW d \in Elements, Alone(d.ctl), \A i \in DOMAIN q : q[i].elem.ctl # d.ctl
                 PROVE  d \in view <=> n[d.ctl] = d.numid
      BY DEF Quiet
    <3>1. d.ctl # e.ctl /\ d.ctl \in Ctls /\ \A i \in DOMAIN queue : queue[i].elem.ctl # d.ctl
      BY <2>1 DEF Elements
    <3> QED BY <3>1, <1>n DEF Quiet
  <2> QED BY <2>6, <2>7, <2>8, <2>9, <2>10 DEF q
<1> QED BY <1>1, <1>2

\* A set of elements after event h has been taken in.
Taken(S, h) == {e \in S : ~(h.mask = {"REMOVE"} /\ e.ctl = h.elem.ctl)}
               \cup {e \in {h.elem} : "ADD" \in h.mask /\ Alone(e.ctl)}

\* It has one element of a control.
OneEach(S) == \A d, e \in S : d.ctl = e.ctl => d = e

\* Event h fits it.
Fits(S, h) == Alone(h.elem.ctl) =>
                  /\ "ADD" \in h.mask => \A e \in S : e.ctl # h.elem.ctl
                  /\ h.mask \subseteq {"VALUE", "INFO"} => h.elem \in S

\* snd_hctl_read: the first event leaves the queue and the view takes it in.
LEMMA ReadFollows ==
    ASSUME HTypeOK, StepInv, queue # <<>>,
           NEW h, h = Head(queue), NEW q, q = Tail(queue),
           NEW own \in SUBSET Elements, OneEach(own), Follows(queue, numid, own),
           NEW view, view = Taken(own, h)
    PROVE  Follows(q, numid, view) /\ Fits(own, h)
<1> USE DEF Follows, Taken
<1>1. /\ queue \in Seq(Entries) /\ h = queue[1] /\ 1 \in DOMAIN queue
      /\ \A i \in DOMAIN q : i \in Nat /\ i >= 1 /\ i + 1 \in DOMAIN queue /\ q[i] = queue[i + 1]
      /\ \A j \in DOMAIN queue : j \in Nat /\ (j # 1 => j - 1 \in DOMAIN q /\ j - 1 >= 1)
  BY DEF HTypeOK
<1>2. h.elem \in Elements /\ h.mask \in Masks /\ h.elem.ctl \in Ctls /\ h.elem.numid \in 1..MaxNumid
  BY <1>1, QueueTyped
<1>3. \A i \in DOMAIN queue : i \in Nat
  BY QueueTyped
<1>4. Alone(h.elem.ctl) =>
        /\ "ADD" \in h.mask => \A v \in own : v.ctl # h.elem.ctl
        /\ h.mask \subseteq {"VALUE", "INFO"} => h.elem \in own
        /\ h.mask = {"REMOVE"} => \A v \in own : v.ctl = h.elem.ctl => v = h.elem
  <2> SUFFICES ASSUME Alone(queue[1].elem.ctl)
               PROVE  /\ "ADD" \in queue[1].mask => \A v \in own : v.ctl # queue[1].elem.ctl
                      /\ queue[1].mask \subseteq {"VALUE", "INFO"} => queue[1].elem \in own
                      /\ queue[1].mask = {"REMOVE"} =>
                             \A v \in own : v.ctl = queue[1].elem.ctl => v = queue[1].elem
    BY <1>1
  <2>1. \A k \in DOMAIN queue : ~(k < 1)
    BY <1>1
  <2> QED BY <1>1, <2>1 DEF Starts
<1>5. \A e \in Elements : e.ctl # h.elem.ctl => (e \in view <=> e \in own)
  OBVIOUS
<1>m. \/ h.mask = {"REMOVE"}
      \/ "ADD" \in h.mask /\ h.mask # {"REMOVE"}
      \/ h.mask \subseteq {"VALUE", "INFO"} /\ h.mask # {"REMOVE"} /\ "ADD" \notin h.mask
  BY <1>2 DEF Masks
<1>6. h.mask = {"REMOVE"} => \A v \in view : v.ctl # h.elem.ctl
  OBVIOUS
<1>7. Ordered(q)
  <2> SUFFICES ASSUME NEW i \in DOMAIN q, NEW j \in DOMAIN q, i < j,
                      q[i].elem.ctl = q[j].elem.ctl
               PROVE  /\ q[i].mask = {"REMOVE"}
                      /\ q[i].elem.numid < q[j].elem.numid
                      /\ q[j].mask = {"REMOVE"} \/ "ADD" \in q[j].mask
    BY DEF Ordered
  <2>1. i + 1 \in DOMAIN queue /\ q[i] = queue[i + 1] /\ i \in Nat
    BY <1>1
  <2>2. j + 1 \in DOMAIN queue /\ q[j] = queue[j + 1] /\ j \in Nat
    BY <1>1
  <2>3. i + 1 < j + 1
    BY <2>1, <2>2
  <2> QED BY <2>1, <2>2, <2>3 DEF Ordered
<1>8. Current(q, numid)
  <2> SUFFICES ASSUME NEW i \in DOMAIN q
               PROVE  IF q[i].mask = {"REMOVE"}
                      THEN numid[q[i].elem.ctl] = 0 \/ q[i].elem.numid < numid[q[i].elem.ctl]
                      ELSE numid[q[i].elem.ctl] = q[i].elem.numid
    BY DEF Current
  <2>1. i + 1 \in DOMAIN queue /\ q[i] = queue[i + 1]
    BY <1>1
  <2> QED BY <2>1 DEF Current
<1>9. Ends(q, numid)
  <2> SUFFICES ASSUME NEW i \in DOMAIN q, numid[q[i].elem.ctl] # 0
               PROVE  \E j \in DOMAIN q : /\ i <= j
                            /\ q[j].elem.ctl = q[i].elem.ctl
                            /\ q[j].elem.numid = numid[q[i].elem.ctl]
    BY DEF Ends
  <2>1. i + 1 \in DOMAIN queue /\ q[i] = queue[i + 1] /\ i \in Nat /\ i >= 1
    BY <1>1
  <2>2. PICK j \in DOMAIN queue : /\ i + 1 <= j
                            /\ queue[j].elem.ctl = queue[i + 1].elem.ctl
                            /\ queue[j].elem.numid = numid[queue[i + 1].elem.ctl]
    BY <2>1 DEF Ends
  <2>3. j \in Nat /\ j # 1 /\ j - 1 \in DOMAIN q /\ i <= j - 1
    BY <2>1, <2>2, <1>1
  <2>4. q[j - 1] = queue[j]
    BY <2>3, <1>1
  <2> QED BY <2>1, <2>2, <2>3, <2>4
<1>10. Starts(q, view)
  <2> SUFFICES ASSUME NEW i \in DOMAIN q, Alone(q[i].elem.ctl),
                      \A k \in DOMAIN q : k < i => q[k].elem.ctl # q[i].elem.ctl
               PROVE  /\ "ADD" \in q[i].mask => \A v \in view : v.ctl # q[i].elem.ctl
                      /\ q[i].mask \subseteq {"VALUE", "INFO"} => q[i].elem \in view
                      /\ q[i].mask = {"REMOVE"} =>
                             \A v \in view : v.ctl = q[i].elem.ctl => v = q[i].elem
    BY DEF Starts
  <2>1. i + 1 \in DOMAIN queue /\ q[i] = queue[i + 1] /\ i \in Nat /\ i >= 1
    BY <1>1
  <2>2. queue[i + 1].elem \in Elements /\ queue[i + 1].mask \in Masks
    BY <2>1, QueueTyped
  <2>3. CASE q[i].elem.ctl = h.elem.ctl
    <3>1. h.mask = {"REMOVE"} /\ (q[i].mask = {"REMOVE"} \/ "ADD" \in q[i].mask)
      <4>1. 1 < i + 1 /\ queue[1].elem.ctl = queue[i + 1].elem.ctl
        BY <2>1, <2>3, <1>1
      <4> QED BY <4>1, <2>1, <1>1 DEF Ordered
    <3>2. ~(q[i].mask \subseteq {"VALUE", "INFO"})
      BY <3>1
    <3> QED BY <3>1, <3>2, <2>3, <1>6
  <2>4. CASE q[i].elem.ctl # h.elem.ctl
    <3>1. \A k \in DOMAIN queue : k < i + 1 => queue[k].elem.ctl # queue[i + 1].elem.ctl
      <4> SUFFICES ASSUME NEW k \in DOMAIN queue, k < i + 1,
                          queue[k].elem.ctl = queue[i + 1].elem.ctl
                   PROVE  FALSE
        OBVIOUS
      <4>1. k # 1 /\ k \in Nat
        BY <2>4, <2>1, <1>1
      <4>2. k - 1 \in DOMAIN q /\ k - 1 < i
        BY <4>1, <2>1, <1>1
      <4>3. q[k - 1] = queue[k]
        BY <4>1, <4>2, <1>1
      <4> QED BY <4>2, <4>3, <2>1
    <3>2. /\ "ADD" \in q[i].mask => \A v \in own : v.ctl # q[i].elem.ctl
          /\ q[i].mask \subseteq {"VALUE", "INFO"} => q[i].elem \in own
          /\ q[i].mask = {"REMOVE"} => \A v \in own : v.ctl = q[i].elem.ctl => v = q[i].elem
      BY <2>1, <3>1 DEF Starts
    <3>3. \A v \in view : v.ctl = q[i].elem.ctl => v \in own
      BY <2>4
    <3>4. q[i].elem \in own => q[i].elem \in view
      BY <2>4
    <3> HIDE <1>4, <1>5, <1>6
    <3> QED BY <3>2, <3>3, <3>4
  <2> QED BY <2>3, <2>4
<1>11. Quiet(q, numid, view)
  <2> SUFFICES ASSUME NEW d \in Elements, Alone(d.ctl), \A i \in DOMAIN q : q[i].elem.ctl # d.ctl
               PROVE  d \in view <=> numid[d.ctl] = d.numid
    BY DEF Quiet
  <2>0. \A j \in DOMAIN queue : j # 1 => queue[j].elem.ctl # d.ctl
    <3> SUFFICES ASSUME NEW j \in DOMAIN queue, j # 1 PROVE queue[j].elem.ctl # d.ctl
      OBVIOUS
    <3>1. j \in Nat /\ j - 1 \in DOMAIN q
      BY <1>1
    <3>2. q[j - 1] = queue[j]
      BY <3>1, <1>1
    <3> QED BY <3>1, <3>2
  <2>1. CASE d.ctl # h.elem.ctl
    <3>1. \A i \in DOMAIN queue : queue[i].elem.ctl # d.ctl
      BY <2>0, <2>1, <1>1
    <3> QED BY <3>1, <2>1, <1>5 DEF Quiet
  <2>2. CASE d.ctl = h.elem.ctl
    <3>d. d.numid \in 1..MaxNumid /\ d.ctl \in Ctls
      BY DEF Elements
    <3>1. CASE h.mask = {"REMOVE"}
      <4>1. numid[h.elem.ctl] = 0
        <5> SUFFICES ASSUME numid[h.elem.ctl] # 0 PROVE FALSE
          OBVIOUS
        <5>1. PICK j \in DOMAIN queue : /\ queue[j].elem.ctl = h.elem.ctl
                                        /\ queue[j].elem.numid = numid[h.elem.ctl]
          BY <1>1 DEF Ends
        <5>2. j = 1
          BY <5>1, <2>0, <2>2
        <5>3. h.elem.numid < numid[h.elem.ctl] \/ numid[h.elem.ctl] = 0
          BY <3>1, <1>1 DEF Current
        <5> QED BY <5>1, <5>2, <5>3, <1>1, <1>2
      <4>2. d \notin view
        BY <3>1, <2>2, <1>6
      <4> QED BY <4>1, <4>2, <2>2, <3>d
    <3>2. CASE h.mask # {"REMOVE"}
      <4>1. numid[h.elem.ctl] = h.elem.numid
        BY <3>2, <1>1 DEF Current
      <4>2. h.elem \in view
        BY <2>2, <3>2, <1>m, <1>4
      <4>3. \A v \in view : v.ctl = h.elem.ctl => v = h.elem
        <5>1. CASE "ADD" \in h.mask
          BY <2>2, <5>1, <1>4
        <5>2. CASE "ADD" \notin h.mask
          <6>1. h.elem \in own /\ view \subseteq own
            BY <2>2, <5>2, <3>2, <1>m, <1>4
          <6> QED BY <6>1 DEF OneEach
        <5> QED BY <5>1, <5>2
      <4>4. d.numid = h.elem.numid => d = h.elem
        BY <2>2, <1>2, SameElement
      <4> QED BY <4>1, <4>2, <4>3, <4>4, <2>2
    <3> QED BY <3>1, <3>2
  <2> QED BY <2>1, <2>2
<1>12. Fits(own, h)
  BY <1>4 DEF Fits
<1> QED BY <1>7, <1>8, <1>9, <1>10, <1>11, <1>12

-----------------------------------------------------------------------------
(* Every step keeps the invariant. *)

\* An event that is merged or appended says nothing of other elements.
LEMMA NotifiedKnown ==
    ASSUME HTypeOK, ~subscribed => queue = <<>>, NEW e \in Elements,
           NEW m \in Bits
    PROVE  /\ Notified(e, m) \in Seq(Entries)
           /\ ~subscribed => Notified(e, m) = <<>>
           /\ \A i \in DOMAIN Notified(e, m) :
                  LET x == Notified(e, m)[i]
                  IN  \/ x.elem = e /\ x.mask = {m}
                      \/ \E k \in DOMAIN queue :
                             x.elem = queue[k].elem /\ x.mask \subseteq queue[k].mask \cup {m}
<1>1. CASE ~subscribed
  <2>1. Notified(e, m) = queue /\ queue = <<>>
    BY <1>1 DEF Notified
  <2>2. queue \in Seq(Entries)
    BY DEF HTypeOK
  <2> QED BY <2>1, <2>2, <1>1
<1>2. CASE subscribed /\ \E x \in DOMAIN queue : queue[x].elem = e
  <2>1. PICK x \in DOMAIN queue : queue[x].elem = e
    BY <1>2
  <2>2. \A i \in DOMAIN queue : Merged(queue[i].mask, m) \subseteq queue[i].mask \cup {m}
    BY DEF Merged
  <2>3. /\ Notified(e, m) \in Seq(Entries)
        /\ DOMAIN Notified(e, m) = DOMAIN queue
        /\ \A i \in DOMAIN queue :
               /\ Notified(e, m)[i].elem = queue[i].elem
               /\ Notified(e, m)[i].mask = IF queue[i].elem = e THEN Merged(queue[i].mask, m)
                                           ELSE queue[i].mask
    BY <1>2, <2>1, NotifiedMerged, AllBits
  <2>4. \A i \in DOMAIN queue : Notified(e, m)[i].mask \subseteq queue[i].mask \cup {m}
    BY <2>2, <2>3
  <2> QED BY <1>2, <2>3, <2>4
<1>3. CASE subscribed /\ \A x \in DOMAIN queue : queue[x].elem # e
  <2>0. subscribed /\ \A x \in DOMAIN queue : queue[x].elem # e
    BY <1>3
  <2>1. /\ Notified(e, m) \in Seq(Entries)
        /\ DOMAIN Notified(e, m) = DOMAIN queue \cup {Len(queue) + 1}
        /\ \A i \in DOMAIN queue : Notified(e, m)[i] = queue[i] /\ i < Len(queue) + 1
        /\ Notified(e, m)[Len(queue) + 1].elem = e
        /\ Notified(e, m)[Len(queue) + 1].mask = {m}
    BY <2>0, NotifiedAppended, AllBits, Zenon
  <2> QED BY <2>1, <1>3
<1> QED BY <1>1, <1>2, <1>3

\* The device's part of the invariant after an event of e has been queued.
LEMMA QueuedKnown ==
    ASSUME HTypeOK, KnownInv, StepInv, NEW e \in Elements,
           NEW m \in Bits,
           queue' = Notified(e, m), scenario' = scenario, subscribed' = subscribed,
           e.ctl \in scenario.ctls, e.numid <= last', last' \in 0..MaxNumid, last <= last',
           m = "INFO" => "INFO" \in scenario.notes
    PROVE  /\ queue' \in Seq(Entries)
           /\ ~subscribed' => queue' = <<>>
           /\ \A i \in DOMAIN queue' :
                  /\ Known(queue[i].elem)'
                  /\ "INFO" \in queue'[i].mask => "INFO" \in scenario'.notes
<1>1. /\ Notified(e, m) \in Seq(Entries)
      /\ ~subscribed => Notified(e, m) = <<>>
      /\ \A i \in DOMAIN Notified(e, m) :
             LET x == Notified(e, m)[i]
             IN  \/ x.elem = e /\ x.mask = {m}
                 \/ \E k \in DOMAIN queue :
                        x.elem = queue[k].elem /\ x.mask \subseteq queue[k].mask \cup {m}
  <2>1. ~subscribed => queue = <<>>
    BY DEF StepInv
  <2> QED BY <2>1, NotifiedKnown, Zenon
<1> SUFFICES ASSUME NEW i \in DOMAIN queue'
             PROVE  /\ queue'[i].elem.ctl \in scenario.ctls /\ queue'[i].elem.numid <= last'
                    /\ "INFO" \in queue'[i].mask => "INFO" \in scenario.notes
  BY <1>1 DEF Known
<1>2. CASE queue'[i].elem = e /\ queue'[i].mask = {m}
  BY <1>2
<1>3. CASE \E k \in DOMAIN queue : queue'[i].elem = queue[k].elem
                                   /\ queue'[i].mask \subseteq queue[k].mask \cup {m}
  <2>1. PICK k \in DOMAIN queue : queue'[i].elem = queue[k].elem
                                  /\ queue'[i].mask \subseteq queue[k].mask \cup {m}
    BY <1>3
  <2>2. /\ queue[k].elem.ctl \in scenario.ctls /\ queue[k].elem.numid <= last
        /\ "INFO" \in queue[k].mask => "INFO" \in scenario.notes
    BY DEF KnownInv, Known
  <2>3. queue[k].elem.numid \in Nat /\ last \in Nat /\ last' \in Nat
    BY QueueTyped DEF HTypeOK
  <2> QED BY <2>1, <2>2, <2>3
<1> QED BY <1>1, <1>2, <1>3

\* The view of the list is the same when list and event are.
LEMMA ViewUnchanged ==
    ASSUME UNCHANGED <<list, event>>, pc = "event" <=> pc' = "event"
    PROVE  View' = View /\ (EventFits <=> EventFits')
BY DEF View, Own, EventFits

\* ControlAppears
LEMMA AppearStep ==
    ASSUME HInv, HControlConstants, NEW c \in Ctls, ControlAppears(c)
    PROVE  HInv'
<1> DEFINE e == [ctl |-> c, numid |-> last + 1]
<1>1. scenario.numids \in 0..MaxNumid /\ MaxNumid \in Nat /\ last \in 0..MaxNumid
  BY DEF HInv, HTypeOK, HControlConstants
<1>2. last + 1 \in 1..MaxNumid
  BY <1>1 DEF ControlAppears
<1>3. e \in Elements /\ e.ctl = c /\ e.numid = last + 1
  BY <1>2 DEF Elements
<1>4. last' = last + 1 /\ last' \in 0..MaxNumid
  BY <1>1, <1>2 DEF ControlAppears
<1>5. /\ queue' = Notified(e, "ADD") /\ numid' = [numid EXCEPT ![c] = e.numid]
      /\ c \in scenario.ctls /\ numid[c] = 0
      /\ UNCHANGED <<scenario, subscribed, list, pc, todo, event>>
  BY <1>3 DEF ControlAppears
<1> HIDE DEF e
<1>6. /\ queue' \in Seq(Entries)
      /\ ~subscribed' => queue' = <<>>
      /\ \A i \in DOMAIN queue' :
             /\ Known(queue[i].elem)'
             /\ "INFO" \in queue'[i].mask => "INFO" \in scenario'.notes
  BY <1>3, <1>4, <1>5, <1>1, QueuedKnown, AllBits DEF HInv
<1>7. HTypeOK'
  BY <1>2, <1>4, <1>5, <1>6, <1>3 DEF HInv, HTypeOK, ControlAppears, Reported
<1>8. KnownInv'
  <2>1. \A d \in Elements : Known(d) => Known(d)'
    BY <1>1, <1>4, <1>5 DEF Known, Elements
  <2>2. \A d \in Ctls : numid'[d] # 0 => d \in scenario.ctls /\ numid'[d] <= last'
    BY <1>1, <1>4, <1>5, <1>3 DEF HInv, HTypeOK, KnownInv
  <2>3. \A d \in list : Known(d)'
    BY <2>1 DEF HInv, HTypeOK, KnownInv
  <2>4. pc = "event" => Known(event.elem)' /\ ("INFO" \in event.mask => "INFO" \in scenario.notes)
    BY <2>1, <1>5 DEF HInv, HTypeOK, KnownInv, Entries, Known
  <2> QED BY <2>2, <2>3, <2>4, <1>5, <1>6 DEF KnownInv
<1>9. StepInv'
  <2>1. synced' => synced /\ ~(pc = "load" /\ ~subscribed)
    BY DEF ControlAppears, Reported
  <2> QED BY <2>1, <1>5, <1>6 DEF HInv, StepInv
<1>10. FollowInv'
  <2> SUFFICES ASSUME synced' PROVE Follows(queue', numid', View') /\ EventFits'
    BY DEF FollowInv, Follows
  <2>1. synced /\ subscribed
    BY DEF ControlAppears, Reported, HInv, StepInv
  <2>2. Follows(queue, numid, View) /\ EventFits /\ View' = View /\ EventFits'
    BY <2>1, <1>5, ViewUnchanged DEF HInv, FollowInv, Follows
  <2>3. View \in SUBSET Elements
    BY <2>2, ViewUnique DEF HInv
  <2>4. Follows(Notified(e, "ADD"), numid', View)
    BY <2>1, <2>2, <2>3, <1>3, <1>5, AppearFollows DEF HInv
  <2> QED BY <2>2, <2>4, <1>5
<1> QED BY <1>7, <1>8, <1>9, <1>10 DEF HInv

\* The numid of a control that exists makes an element of it.
LEMMA PresentElement ==
    ASSUME HInv, NEW c \in Ctls, numid[c] # 0, NEW e, e = [ctl |-> c, numid |-> numid[c]]
    PROVE  /\ e \in Elements /\ e.ctl = c /\ e.numid = numid[c]
           /\ c \in scenario.ctls /\ e.numid <= last
<1>1. numid[c] \in 1..MaxNumid
  BY DEF HInv, HTypeOK
<1> QED BY <1>1 DEF HInv, KnownInv, Elements

\* ControlVanishes
LEMMA VanishStep ==
    ASSUME HInv, HControlConstants, NEW c \in Ctls, ControlVanishes(c)
    PROVE  HInv'
<1> DEFINE e == [ctl |-> c, numid |-> numid[c]]
<1>0. numid[c] # 0
  BY DEF ControlVanishes
<1>3. /\ e \in Elements /\ e.ctl = c /\ e.numid = numid[c]
      /\ c \in scenario.ctls /\ e.numid <= last
  BY <1>0, PresentElement
<1>5. /\ queue' = Notified(e, "REMOVE") /\ numid' = [numid EXCEPT ![c] = 0]
      /\ UNCHANGED <<scenario, last, subscribed, list, pc, todo, event>>
  BY DEF ControlVanishes
<1> HIDE DEF e
<1>1. last' \in 0..MaxNumid /\ MaxNumid \in Nat /\ last <= last'
  BY <1>5 DEF HInv, HTypeOK, HControlConstants
<1>6. /\ queue' \in Seq(Entries)
      /\ ~subscribed' => queue' = <<>>
      /\ \A i \in DOMAIN queue' :
             /\ Known(queue[i].elem)'
             /\ "INFO" \in queue'[i].mask => "INFO" \in scenario'.notes
  BY <1>1, <1>3, <1>5, QueuedKnown, AllBits DEF HInv
<1>7. HTypeOK'
  BY <1>5, <1>6, <1>1 DEF HInv, HTypeOK, ControlVanishes, Reported
<1>8. KnownInv'
  BY <1>5, <1>6 DEF HInv, HTypeOK, KnownInv, Known
<1>9. StepInv'
  <2>1. synced' => synced /\ ~(pc = "load" /\ ~subscribed)
    BY DEF ControlVanishes, Reported
  <2> QED BY <2>1, <1>5, <1>6 DEF HInv, StepInv
<1>10. FollowInv'
  <2> SUFFICES ASSUME synced' PROVE Follows(queue', numid', View') /\ EventFits'
    BY DEF FollowInv, Follows
  <2>1. synced /\ subscribed
    BY DEF ControlVanishes, Reported, HInv, StepInv
  <2>2. Follows(queue, numid, View) /\ EventFits /\ View' = View /\ EventFits'
    BY <2>1, <1>5, ViewUnchanged DEF HInv, FollowInv, Follows
  <2>3. View \in SUBSET Elements /\ \A v, w \in View : v.ctl = w.ctl => v = w
    BY <2>2, ViewUnique DEF HInv
  <2>4. Follows(Notified(e, "REMOVE"), numid', View)
    BY <2>1, <2>2, <2>3, <1>3, <1>5, VanishFollows DEF HInv
  <2> QED BY <2>2, <2>4, <1>5
<1> QED BY <1>7, <1>8, <1>9, <1>10 DEF HInv

\* ControlReports and a write by this process: an event of a control that exists.
LEMMA ReportStep ==
    ASSUME HInv, HControlConstants, NEW e \in Elements, numid[e.ctl] = e.numid,
           NEW m \in {"VALUE", "INFO"}, m = "INFO" => "INFO" \in scenario.notes,
           queue' = Notified(e, m),
           UNCHANGED <<scenario, numid, last, subscribed, list, todo, event>>,
           pc' = pc \/ (pc = "set.write" /\ pc' = "idle"),
           synced' \in {synced, Reported}, synced' => subscribed
    PROVE  HInv'
<1>0. e.ctl \in Ctls /\ numid[e.ctl] # 0
  BY DEF Elements
<1>1. e.ctl \in scenario.ctls /\ e.numid <= last
  BY <1>0 DEF HInv, KnownInv
<1>2. last' \in 0..MaxNumid /\ MaxNumid \in Nat /\ last <= last'
  BY DEF HInv, HTypeOK, HControlConstants
<1>6. /\ queue' \in Seq(Entries)
      /\ ~subscribed' => queue' = <<>>
      /\ \A i \in DOMAIN queue' :
             /\ Known(queue[i].elem)'
             /\ "INFO" \in queue'[i].mask => "INFO" \in scenario'.notes
  BY <1>1, <1>2, QueuedKnown, AllBits DEF HInv
<1>7. HTypeOK'
  BY <1>6 DEF HInv, HTypeOK, Reported, Steps
<1>8. KnownInv'
  BY <1>6 DEF HInv, HTypeOK, KnownInv, Known
<1>9. StepInv'
  BY <1>6 DEF HInv, StepInv, Reported
<1>10. FollowInv'
  <2> SUFFICES ASSUME synced' PROVE Follows(queue', numid', View') /\ EventFits'
    BY DEF FollowInv, Follows
  <2>1. synced /\ subscribed
    BY DEF Reported
  <2>2. Follows(queue, numid, View) /\ EventFits /\ View' = View /\ EventFits'
    BY <2>1, ViewUnchanged DEF HInv, FollowInv, Follows
  <2>4. Follows(Notified(e, m), numid, View)
    BY <2>1, <2>2, ReportFollows DEF HInv
  <2> QED BY <2>2, <2>4
<1> QED BY <1>7, <1>8, <1>9, <1>10 DEF HInv

\* A control appears, vanishes or reports a change.
LEMMA KernelPreserves ==
    ASSUME HInv, HControlConstants, NEW c \in Ctls, KernelStep(c)
    PROVE  HInv'
<1>1. CASE ControlAppears(c)
  BY <1>1, AppearStep
<1>2. CASE ControlVanishes(c)
  BY <1>2, VanishStep
<1>3. ASSUME NEW m \in scenario.notes, ControlReports(c, m) PROVE HInv'
  <2> DEFINE e == [ctl |-> c, numid |-> numid[c]]
  <2>0. numid[c] # 0
    BY <1>3 DEF ControlReports
  <2>1. e \in Elements /\ e.ctl = c /\ e.numid = numid[c]
    BY <2>0, PresentElement
  <2>2. m \in {"VALUE", "INFO"} /\ (m = "INFO" => "INFO" \in scenario.notes)
    BY DEF HInv, HTypeOK, HControlConstants
  <2>3. /\ queue' = Notified(e, m) /\ synced' = Reported
        /\ UNCHANGED <<scenario, numid, last, subscribed, list, pc, todo, event>>
    BY <1>3 DEF ControlReports
  <2> HIDE DEF e
  <2>4. synced' => subscribed
    BY <2>3 DEF Reported, HInv, StepInv
  <2> QED BY <2>1, <2>2, <2>3, <2>4, ReportStep
<1> QED BY <1>1, <1>2, <1>3 DEF KernelStep

\* snd_hctl_load: with an empty queue the list is the device's.
LEMMA LoadStep ==
    ASSUME HInv, Load PROVE HInv'
<1>1. Present \subseteq Elements /\ \A e \in Present : numid[e.ctl] = e.numid /\ e.ctl \in Ctls /\ e.numid # 0
  BY DEF Present, Elements
<1>2. HTypeOK'
  BY <1>1 DEF HInv, HTypeOK, Load, Steps, kernel
<1>3. KnownInv'
  <2>1. \A e \in Present : e.ctl \in scenario.ctls /\ e.numid <= last
    BY <1>1 DEF HInv, KnownInv
  <2> QED BY <2>1 DEF HInv, KnownInv, Known, Load, kernel
<1>4. StepInv'
  <2>1. \A d, e \in Present : d.ctl = e.ctl => d = e
    BY <1>1, SameElement
  <2> QED BY <2>1 DEF HInv, StepInv, Load, kernel
<1>5. FollowInv'
  <2> SUFFICES ASSUME synced' PROVE Follows(queue', numid', View') /\ EventFits'
    BY DEF FollowInv, Follows
  <2>1. queue' = <<>> /\ numid' = numid /\ pc' = "load" /\ list' = Present
    BY DEF Load, kernel
  <2>2. EventFits' /\ View' = {e \in Present : Alone(e.ctl)}
    BY <2>1 DEF EventFits, View, Own
  <2>3. DOMAIN queue' = {}
    BY <2>1
  <2>4. Quiet(queue', numid', View')
    BY <2>1, <2>2 DEF Quiet, Present
  <2> QED BY <2>2, <2>3, <2>4 DEF Follows, Ordered, Current, Ends, Starts
<1> QED BY <1>2, <1>3, <1>4, <1>5 DEF HInv

\* A step that keeps the queue, the numids and the view keeps them fitting.
LEMMA FollowKept ==
    ASSUME FollowInv, queue' = queue, numid' = numid, synced' = synced,
           synced => View' = View, synced => EventFits'
    PROVE  FollowInv'
BY DEF FollowInv, Follows

\* The elements are announced, then events subscribed to.
LEMMA LoadingStep ==
    ASSUME HInv, (\E e \in Elements : Announce(e)) \/ Subscribe PROVE HInv'
<1>1. /\ UNCHANGED <<scenario, numid, last, queue, list, event, synced>>
      /\ pc = "load" /\ pc' \in {"load", "idle"} /\ todo' \subseteq todo
      /\ subscribed' = subscribed \/ subscribed' = TRUE
      /\ todo' # {} => pc' = "load"
      /\ pc' = "idle" => subscribed'
  BY DEF HInv, Announce, Subscribe, kernel, HTypeOK
<1>2. HTypeOK' /\ KnownInv'
  BY <1>1 DEF HInv, HTypeOK, KnownInv, Known, Steps
<1>3. StepInv'
  BY <1>1 DEF HInv, StepInv
<1>4. FollowInv'
  BY <1>1, ViewUnchanged, FollowKept DEF HInv, FollowInv
<1> QED BY <1>2, <1>3, <1>4 DEF HInv

\* snd_hctl_read
LEMMA ReadStep ==
    ASSUME HInv, ReadEvent PROVE HInv'
<1>1. /\ pc = "idle" /\ pc' = "event" /\ queue # <<>>
      /\ event' = Head(queue) /\ queue' = Tail(queue)
      /\ UNCHANGED <<scenario, numid, last, subscribed, list, todo, synced>>
  BY DEF ReadEvent
<1>2. /\ queue' \in Seq(Entries) /\ event' = queue[1] /\ 1 \in DOMAIN queue
      /\ \A i \in DOMAIN queue' : i + 1 \in DOMAIN queue /\ queue'[i] = queue[i + 1]
  BY <1>1 DEF HInv, HTypeOK
<1>3. HTypeOK'
  <2>1. event' \in Entries
    BY <1>2 DEF HInv, HTypeOK
  <2> QED BY <1>1, <1>2, <2>1 DEF HInv, HTypeOK, Steps
<1>4. KnownInv'
  BY <1>1, <1>2 DEF HInv, KnownInv, Known
<1>5. StepInv'
  BY <1>1 DEF HInv, StepInv
<1>6. FollowInv'
  <2> SUFFICES ASSUME synced' PROVE Follows(queue', numid', View') /\ EventFits'
    BY DEF FollowInv, Follows
  <2>1. View = Own
    BY <1>1 DEF View
  <2>2. Follows(queue, numid, Own)
    BY <1>1, <2>1 DEF HInv, FollowInv, Follows
  <2>3. View' = Taken(Own, event')
    BY <1>1 DEF View, Own, Taken
  <2>o. Own \in SUBSET Elements /\ OneEach(Own)
    BY DEF Own, OneEach, HInv, HTypeOK, StepInv
  <2>4. Follows(queue', numid, View') /\ Fits(Own, event')
    BY <1>1, <2>2, <2>3, <2>o, ReadFollows DEF HInv
  <2>5. EventFits'
    BY <1>1, <2>4 DEF EventFits, Fits, Own
  <2> QED BY <1>1, <2>4, <2>5
<1> QED BY <1>3, <1>4, <1>5, <1>6 DEF HInv

\* snd_hctl_handle_event: the elements of the list that no other is taken for become
\* the view.
LEMMA HandleStepKeeps ==
    ASSUME HInv, HandleStep PROVE HInv'
<1>1. /\ pc = "event" /\ pc' = "idle"
      /\ UNCHANGED <<scenario, numid, last, queue, subscribed, todo, synced>>
  BY DEF HandleStep, HandleAdd, HandleFails, HandleRemove, HandleChange, Handled, kernel
<1>2. event \in Entries /\ event.elem \in Elements /\ event.mask \in Masks /\ todo = {}
  BY <1>1 DEF HInv, HTypeOK, Entries, StepInv
<1>3. \/ list' = list
      \/ \E e \in Elements : list' = list \ {e}
      \/ list' = list \cup {event.elem} /\ Found(event.elem.ctl) = {}
  BY DEF HandleStep, HandleAdd, HandleFails, HandleRemove, HandleChange
<1>4. HTypeOK'
  BY <1>1, <1>2, <1>3 DEF HInv, HTypeOK, Steps
<1>5. KnownInv'
  BY <1>1, <1>3 DEF HInv, KnownInv, Known
<1>6. StepInv'
  <2>1. \A d, e \in list' : d.ctl = e.ctl => d = e
    BY <1>3 DEF HInv, StepInv, Found
  <2> QED BY <2>1, <1>1, <1>2 DEF HInv, StepInv
<1>a. \A e \in list : Ident[e.ctl] = Ident[event.elem.ctl] /\ (Alone(e.ctl) \/ Alone(event.elem.ctl))
                      => e.ctl = event.elem.ctl /\ Alone(event.elem.ctl)
  BY <1>2 DEF Alone, HInv, HTypeOK, Elements
<1>7. synced => Own' = View
  <2> SUFFICES ASSUME synced PROVE Own' = View
    OBVIOUS
  <2>0. EventFits /\ \A d, e \in list : d.ctl = e.ctl => d = e
    BY DEF HInv, FollowInv, StepInv
  <2>f. Found(event.elem.ctl) = {e \in list : Ident[e.ctl] = Ident[event.elem.ctl]}
    BY DEF Found
  <2>g. First(event.elem.ctl) \subseteq Found(event.elem.ctl)
    BY DEF First
  <2>1. CASE event.mask = {"REMOVE"}
    <3>1. View = {e \in Own : e.ctl # event.elem.ctl}
      BY <1>1, <2>1 DEF View
    <3>2. "ADD" \notin event.mask /\ ~(event.mask \subseteq {"VALUE", "INFO"})
      BY <2>1
    <3>3. \/ \E e \in First(event.elem.ctl) : list' = list \ {e}
          \/ Found(event.elem.ctl) = {} /\ list' = list
      BY <3>2 DEF HandleStep, HandleAdd, HandleFails, HandleRemove, HandleChange
    <3>4. CASE Found(event.elem.ctl) = {} /\ list' = list
      <4>1. \A e \in Own : e.ctl # event.elem.ctl
        BY <3>4, <2>f DEF Own
      <4> QED BY <3>1, <3>4, <4>1 DEF Own
    <3>5. ASSUME NEW e \in First(event.elem.ctl), list' = list \ {e} PROVE Own' = View
      <4>1. e \in list /\ Ident[e.ctl] = Ident[event.elem.ctl]
        BY <3>5, <2>f, <2>g
      <4>2. \A d \in Own : d = e <=> d.ctl = event.elem.ctl
        BY <4>1, <1>a, <2>0 DEF Own
      <4> QED BY <3>1, <3>5, <4>2 DEF Own
    <3> QED BY <3>3, <3>4, <3>5
  <2>2. CASE "ADD" \in event.mask
    <3>1. event.mask # {"REMOVE"} /\ ~(event.mask \subseteq {"VALUE", "INFO"})
      BY <2>2
    <3>2. View = Own \cup {e \in {event.elem} : Alone(e.ctl)}
      BY <1>1, <2>2, <3>1 DEF View
    <3>3. Alone(event.elem.ctl) => Found(event.elem.ctl) = {}
      BY <1>1, <2>0, <2>2, <2>f, <1>a DEF EventFits
    <3>4. \/ list' = list \cup {event.elem}
          \/ Found(event.elem.ctl) # {} /\ list' = list
      BY <2>2, <3>1 DEF HandleStep, HandleAdd, HandleFails, HandleRemove, HandleChange
    <3> QED BY <3>2, <3>3, <3>4 DEF Own
  <2>3. CASE event.mask # {"REMOVE"} /\ "ADD" \notin event.mask
    <3>1. View = Own
      BY <2>3 DEF View
    <3>2. list' = list
      BY <2>3 DEF HandleStep, HandleAdd, HandleFails, HandleRemove, HandleChange
    <3> QED BY <3>1, <3>2 DEF Own
  <2> QED BY <2>1, <2>2, <2>3
<1>8. FollowInv'
  <2>1. View' = Own' /\ EventFits'
    BY <1>1 DEF View, EventFits
  <2> QED BY <1>1, <1>7, <2>1, FollowKept DEF HInv
<1> QED BY <1>4, <1>5, <1>6, <1>8 DEF HInv

\* snd_hctl_free and snd_hctl_close
LEMMA FreeStepKeeps ==
    ASSUME HInv, FreeStep PROVE HInv'
<1>1. /\ UNCHANGED <<scenario, numid, last, todo, event>>
      /\ synced' = FALSE /\ list' \subseteq list
      /\ pc \in {"idle", "free", "close"} /\ pc' \in {"idle", "free", "close"}
      /\ \/ subscribed' = subscribed /\ queue' = queue
         \/ subscribed' = FALSE /\ queue' = <<>>
  BY DEF HInv, HTypeOK, StepInv, FreeStep, FreeAll, FreeOne, FreeEnd, CloseEnd, kernel
<1>2. todo = {}
  BY <1>1 DEF HInv, StepInv
<1>0. <<>> \in Seq(Entries)
  OBVIOUS
<1>3. HTypeOK'
  <2>1. queue' \in Seq(Entries) /\ subscribed' \in BOOLEAN /\ synced' \in BOOLEAN
    BY <1>0, <1>1 DEF HInv, HTypeOK
  <2> QED BY <1>1, <1>2, <2>1 DEF HInv, HTypeOK, Steps
<1>4. KnownInv'
  BY <1>1 DEF HInv, KnownInv, Known
<1>5. StepInv' /\ FollowInv'
  BY <1>1, <1>2 DEF HInv, StepInv, FollowInv
<1> QED BY <1>3, <1>4, <1>5 DEF HInv

\* The steps of setting a control other than the write.
LEMMA SettingKeeps ==
    ASSUME HInv, Setting \/ UNCHANGED hvars PROVE HInv'
<1>1. /\ UNCHANGED <<scenario, numid, last, queue, subscribed, list, todo, event, synced>>
      /\ \/ pc' = pc
         \/ /\ pc \in {"idle", "set.read", "set.write"}
            /\ pc' \in {"idle", "set.read", "set.write"}
  BY DEF Setting, hvars, kernel
<1>2. HTypeOK' /\ KnownInv' /\ StepInv'
  BY <1>1 DEF HInv, HTypeOK, Steps, KnownInv, Known, StepInv
<1>3. FollowInv'
  BY <1>1, ViewUnchanged, FollowKept DEF HInv, FollowInv
<1> QED BY <1>2, <1>3 DEF HInv

\* HInv is inductive for every step of the control interface.
THEOREM HStepKeeps ==
    ASSUME HInv, HControlConstants, HStep \/ UNCHANGED hvars PROVE HInv'
<1>1. ASSUME NEW e \in Elements, Written(e) PROVE HInv'
  <2>1. numid[e.ctl] = e.numid /\ pc = "set.write" /\ pc' = "idle" /\ queue' = Notified(e, "VALUE")
        /\ UNCHANGED <<scenario, numid, last, subscribed, list, todo, event, synced>>
    BY <1>1 DEF Written, Present
  <2>2. synced' => subscribed
    BY <2>1 DEF HInv, StepInv
  <2> QED BY <2>1, <2>2, ReportStep
<1> QED BY <1>1, KernelPreserves, LoadStep, LoadingStep, ReadStep, HandleStepKeeps, FreeStepKeeps,
           SettingKeeps DEF HStep

\* The invariant holds of a handle that has just been opened.
LEMMA HInitial ==
    ASSUME HInit, HControlConstants PROVE HInv
<1>0. <<>> \in Seq(Entries)
  OBVIOUS
<1>1. HTypeOK
  <2>1. 0 \in 0..MaxNumid
    BY DEF HControlConstants
  <2>2. numid \in [Ctls -> 0..MaxNumid]
    BY <2>1 DEF HInit
  <2>3. pc \in Steps /\ pc # "event" /\ subscribed \in BOOLEAN /\ synced \in BOOLEAN
    BY DEF HInit, Steps
  <2> QED BY <1>0, <2>1, <2>2, <2>3 DEF HInit, HTypeOK
<1> QED BY <1>1 DEF HInit, HInv, KnownInv, StepInv, FollowInv

\* The list is the device's, in the controls that no other is taken for, when all
\* events are handled.
LEMMA HInvListTrue ==
    ASSUME HInv PROVE ListTrue
<1> SUFFICES ASSUME pc = "idle", queue = <<>>, synced, NEW e \in Elements, Alone(e.ctl)
             PROVE  e \in list <=> e \in Present
  BY DEF HInv, StepInv, ListTrue
<1>1. View = Own /\ DOMAIN queue = {}
  BY DEF View
<1>2. Quiet(queue, numid, Own)
  BY <1>1 DEF HInv, FollowInv
<1>3. e \in Own <=> numid[e.ctl] = e.numid
  BY <1>1, <1>2 DEF Quiet
<1> QED BY <1>3 DEF Present, Own

-----------------------------------------------------------------------------
(* The mixer. *)

\* What a mixer element may be called.
Names == {Desc[c].name : c \in Ctls} \cup {NULL}

\* The types of the state that the callbacks pass on.
States ==
    [pelems : SUBSET Elems, sid : [Elems -> [name : Names, index : Nat]],
     items : [Elems -> [Slots -> Elements \cup {NoItem}]],
     caps : [Elems -> SUBSET {PVOLUME, PSWITCH}],
     private : [Elements -> Elems \cup {NULL}],
     cache : [Elements -> scenario.values], stale : SUBSET Elements]

\* The types of all variables.
TypeOK ==
    /\ HTypeOK
    /\ State \in States
    /\ value \in [Ctls -> scenario.values]
    /\ pc \in {"set.read", "set.write"} =>
           goal \in [elem : Elements, val : scenario.values]

\* Two controls that share an element do not take each other's slots.  A global item
\* of one would overwrite the other's item, and with INFO events an item that is taken
\* out, and whose control has gone, leaves private_data behind: either way the element
\* can be freed while private_data still points to it.
Separate ==
    \A c, d \in scenario.ctls : c # d /\ Desc[c].name = Desc[d].name =>
        "INFO" \notin scenario.notes /\ (Global(c) => Type(d) # Type(c) + 1)

\* Control element e, in slot i of element m, is where its name and type put it, and
\* is found there through private_data.
Placed(s, L, m, i, e) ==
    /\ e \in L
    /\ s.private[e] = m
    /\ i = Type(e.ctl) \/ (Global(e.ctl) /\ i = Type(e.ctl) + 1)
    /\ s.items[m][Type(e.ctl)] = e
    /\ Desc[e.ctl].name = s.sid[m].name
    /\ Global(e.ctl) => Type(e.ctl) \in s.caps[m]

\* Every item is in its place.
ItemsInv(s, L) ==
    \A m \in s.pelems, i \in Slots :
        s.items[m][i] # NoItem => Placed(s, L, m, i, s.items[m][i])

\* A global capability comes from a global control of the element's name.
CapsInv(s) ==
    \A m \in s.pelems : \A i \in s.caps[m] :
        \E c \in scenario.ctls : Global(c) /\ Type(c) = i /\ Desc[c].name = s.sid[m].name

\* Name and index name one element, and there is a highest index.
SidInv(s) ==
    /\ \A m, n \in s.pelems : s.sid[m] = s.sid[n] => m = n
    /\ \E b \in Nat : \A m \in s.pelems : s.sid[m].index < b

\* A control element is connected only while it is in the list and announced.
PrivateInv(s, L, T) ==
    \A e \in Elements : e \notin L \/ e \in T => s.private[e] = NULL

\* Without INFO events no element is empty, not even for a moment.
FilledInv(s) ==
    "INFO" \notin scenario.notes => \A m \in s.pelems : s.items[m] # NoItems

\* A connected control element's element exists, and holds its item unless an INFO
\* event has taken it out after the control had gone.
LinkInv(s, L) ==
    \A e \in L : s.private[e] # NULL =>
        /\ s.private[e] \in s.pelems
        /\ s.sid[s.private[e]].name = Desc[e.ctl].name
        /\ ("INFO" \notin scenario.notes \/ e \in Present) =>
               s.items[s.private[e]][Type(e.ctl)] = e

\* The value of element e is to be read again, or is being set.
Pending(e) ==
    \/ \E i \in DOMAIN queue : queue[i].elem = e /\ "VALUE" \in queue[i].mask
    \/ pc = "event" /\ event.elem = e /\ "VALUE" \in event.mask
    \/ pc \in {"set.read", "set.write"} /\ goal.elem = e

\* Element e has its item, and while no change went unreported, and no other
\* control is taken for e's, the item has the control's value, a failed one, or
\* one that is to be looked at again.
Reflects(e) ==
    /\ private[e] # NULL
    /\ synced /\ Alone(e.ctl) => e \in stale \/ cache[e] = value[e.ctl] \/ Pending(e)

\* Every announced control that exists is reflected by its item.
ReflectInv == \A e \in list \ todo : e \in Present => Reflects(e)

\* A set operation is of an element in the list whose item has the new value already.
GoalInv ==
    pc \in {"set.read", "set.write"} =>
        goal \in [elem : list, val : scenario.values] /\ cache[goal.elem] = goal.val

\* The slot that a control's name and type select is one of the five of an element,
\* and that of a global item has the other direction's slot after it.
LEMMA TypeSlot ==
    ASSUME NEW c \in Ctls
    PROVE  /\ Type(c) \in Slots
           /\ Global(c) => Type(c) \in {PVOLUME, PSWITCH} /\ Type(c) + 1 \in Slots
           /\ Global(c) \in BOOLEAN
<1>1. /\ Desc[c].dir \in {0, 1} /\ Desc[c].global \in BOOLEAN
      /\ Desc[c].global => Desc[c].dir = 0
      /\ Desc[c].kind \in {"INTEGER", "BOOLEAN", "ENUMERATED"}
  BY MixerConstants
<1> USE DEF Global, Type, Slots, PVOLUME, PSWITCH, ENUM
<1>2. CASE Desc[c].kind = "INTEGER"
  BY <1>1, <1>2
<1>3. CASE Desc[c].kind = "BOOLEAN"
  BY <1>1, <1>3
<1>4. CASE Desc[c].kind = "ENUMERATED"
  BY <1>1, <1>4
<1> QED BY <1>1, <1>2, <1>3, <1>4

\* The slots that add_cap fills with the item of control c.
ItemSlots(c) == IF Global(c) THEN {Type(c), Type(c) + 1} ELSE {Type(c)}

\* add_cap, field by field.
LEMMA AddCapIs ==
    ASSUME NEW s \in States, NEW m \in Elems, NEW e \in Elements
    PROVE  /\ AddCap(s, m, e).pelems = s.pelems
           /\ AddCap(s, m, e).sid = s.sid
           /\ AddCap(s, m, e).items =
                [s.items EXCEPT ![m] = [i \in Slots |-> IF i \in ItemSlots(e.ctl) THEN e ELSE s.items[m][i]]]
           /\ AddCap(s, m, e).caps = [s.caps EXCEPT ![m] = s.caps[m] \cup GlobalCaps(e.ctl)]
           /\ AddCap(s, m, e).private = [s.private EXCEPT ![e] = m]
           /\ AddCap(s, m, e).cache = [s.cache EXCEPT ![e] = value[e.ctl]]
           /\ AddCap(s, m, e).stale = s.stale \ {e}
BY DEF AddCap, States, ItemSlots

\* A control element is not the empty slot.
LEMMA NotNoItem == \A e \in Elements : e # NoItem
<1>1. \A e \in Elements : e.numid # 0
  BY DEF Elements
<1> QED BY <1>1 DEF NoItem

\* A slot that add_cap fills is the control's own or the one after it.
LEMMA InItemSlots ==
    ASSUME NEW c \in Ctls, NEW i \in Slots
    PROVE  i \in ItemSlots(c) <=> i = Type(c) \/ (Global(c) /\ i = Type(c) + 1)
BY TypeSlot DEF ItemSlots

\* add_cap, element by element and slot by slot.
LEMMA AddCapAt ==
    ASSUME NEW s \in States, NEW m \in Elems, NEW e \in Elements,
           value \in [Ctls -> scenario.values], NEW x, x = AddCap(s, m, e)
    PROVE  /\ x \in States
           /\ x.pelems = s.pelems /\ x.sid = s.sid
           /\ \A i \in Slots : x.items[m][i] = IF i \in ItemSlots(e.ctl) THEN e ELSE s.items[m][i]
           /\ \A n \in Elems : n # m => x.items[n] = s.items[n] /\ x.caps[n] = s.caps[n]
           /\ x.caps[m] = s.caps[m] \cup GlobalCaps(e.ctl)
           /\ x.private[e] = m /\ x.cache[e] = value[e.ctl] /\ x.stale = s.stale \ {e}
           /\ \A d \in Elements : d # e => x.private[d] = s.private[d] /\ x.cache[d] = s.cache[d]
<1>1. e.ctl \in Ctls
  BY DEF Elements
<1>2. GlobalCaps(e.ctl) \subseteq {PVOLUME, PSWITCH}
  BY <1>1, TypeSlot DEF GlobalCaps
<1> DEFINE row == [i \in Slots |-> IF i \in ItemSlots(e.ctl) THEN e ELSE s.items[m][i]]
<1>3. row \in [Slots -> Elements \cup {NoItem}] /\ value[e.ctl] \in scenario.values
  BY <1>1 DEF States
<1>4. /\ x.pelems = s.pelems
      /\ x.sid = s.sid
      /\ x.items = [s.items EXCEPT ![m] = row]
      /\ x.caps = [s.caps EXCEPT ![m] = s.caps[m] \cup GlobalCaps(e.ctl)]
      /\ x.private = [s.private EXCEPT ![e] = m]
      /\ x.cache = [s.cache EXCEPT ![e] = value[e.ctl]]
      /\ x.stale = s.stale \ {e}
  BY AddCapIs
<1>5. x = [pelems |-> x.pelems, sid |-> x.sid, items |-> x.items, caps |-> x.caps,
           private |-> x.private, cache |-> x.cache, stale |-> x.stale]
  BY DEF AddCap, States
<1> HIDE DEF row
<1>6. x \in States
  <2>1. x.items \in [Elems -> [Slots -> Elements \cup {NoItem}]]
    BY <1>3, <1>4 DEF States
  <2>2. x.caps \in [Elems -> SUBSET {PVOLUME, PSWITCH}]
    BY <1>2, <1>4 DEF States
  <2>3. x.private \in [Elements -> Elems \cup {NULL}] /\ x.cache \in [Elements -> scenario.values]
    BY <1>3, <1>4 DEF States
  <2> QED BY <1>4, <1>5, <2>1, <2>2, <2>3 DEF States
<1> QED BY <1>4, <1>6 DEF States, row

\* Numbers with a bound have one that is above all of them and is 0 or one more than
\* one of them: the loop that looks for a new index ends with it.
LEMMA Highest ==
    ASSUME NEW S, NEW f \in [S -> Nat], NEW b \in Nat, \A m \in S : f[m] < b
    PROVE  \E i \in {f[m] + 1 : m \in S} \cup {0} : \A m \in S : f[m] < i
<1> DEFINE B == {k \in Nat : \A m \in S : f[m] < k}
<1>1. B \subseteq Nat /\ B # {}
  OBVIOUS
<1>2. PICK i \in B : \A k \in B : ~(<<k, i>> \in OpToRel(<, Nat))
  BY <1>1, WFMin, NatLessThanWellFounded, Zenon
<1>3. \A k \in B : ~(k < i)
  BY <1>2 DEF OpToRel
<1>4. CASE i = 0
  BY <1>4
<1>5. CASE i # 0
  <2>1. i - 1 \in Nat /\ i - 1 < i
    BY <1>5
  <2>2. PICK m \in S : ~(f[m] < i - 1)
    BY <2>1, <1>3
  <2>3. f[m] + 1 = i
    BY <2>2, <2>1
  <2> QED BY <2>3
<1> QED BY <1>4, <1>5

\* The index add_simple_element chooses is above every index in use for the name.
LEMMA NewIndexFree ==
    ASSUME NEW s \in States, SidInv(s), NEW c \in Ctls
    PROVE  /\ NewIndex(s, c) \in Nat
           /\ \A m \in SameName(s, c) : s.sid[m].index < NewIndex(s, c)
<1> DEFINE S == SameName(s, c)
           f == [m \in S |-> s.sid[m].index]
<1>0. \A m \in S : m \in Elems /\ m \in s.pelems /\ s.sid[m].index \in Nat
  BY DEF SameName, States
<1>1. PICK b \in Nat : \A m \in s.pelems : s.sid[m].index < b
  BY DEF SidInv
<1>2. f \in [S -> Nat] /\ \A m \in S : f[m] < b
  BY <1>0, <1>1
<1>3. \E i \in {f[m] + 1 : m \in S} \cup {0} : \A m \in S : f[m] < i
  <2> HIDE DEF S, f
  <2> QED BY <1>2, Highest
<1>4. {f[m] + 1 : m \in S} = {s.sid[m].index + 1 : m \in S}
  OBVIOUS
<1>5. \E i \in {s.sid[m].index + 1 : m \in S} \cup {0} : \A m \in S : s.sid[m].index < i
  BY <1>3, <1>4
<1>6. /\ NewIndex(s, c) \in {s.sid[m].index + 1 : m \in S} \cup {0}
      /\ \A m \in S : s.sid[m].index < NewIndex(s, c)
  <2>1. NewIndex(s, c) = CHOOSE i \in {s.sid[m].index + 1 : m \in S} \cup {0} :
                             \A m \in S : s.sid[m].index < i
    BY DEF NewIndex
  <2> HIDE DEF S
  <2> QED BY <1>5, <2>1
<1> QED BY <1>0, <1>6

\* What remains true of the mixer in every state, for the list L of control elements.
Core(s, L) == s \in States /\ ItemsInv(s, L) /\ CapsInv(s) /\ SidInv(s)

\* No slot of the mixer holds control element e.
Unheld(s, e) == \A m \in s.pelems, i \in Slots : s.items[m][i] # e

\* A slot that is not empty holds a control element that is in its place.
LEMMA PlacedTyped ==
    ASSUME NEW s \in States, NEW L \in SUBSET Elements, ItemsInv(s, L),
           NEW m \in s.pelems, NEW i \in Slots, s.items[m][i] # NoItem
    PROVE  /\ m \in Elems /\ s.items[m][i] \in Elements /\ s.items[m][i].ctl \in Ctls
           /\ Placed(s, L, m, i, s.items[m][i])
BY DEF States, ItemsInv, Elements

\* add_cap puts an item that no element holds into a vacant slot of its element.  A
\* global item may overwrite the one in the other direction's slot, which is then in
\* no slot at all: nothing is left out of its place.
LEMMA AddCapKeeps ==
    ASSUME NEW L \in SUBSET Elements, NEW s, Core(s, L), NEW e \in L, e.ctl \in scenario.ctls,
           value \in [Ctls -> scenario.values], Unheld(s, e),
           NEW m \in s.pelems, s.items[m][Type(e.ctl)] = NoItem,
           s.sid[m].name = Desc[e.ctl].name, NEW x, x = AddCap(s, m, e)
    PROVE  Core(x, L) /\ x.items[m][Type(e.ctl)] = e /\ x.items[m] # NoItems
<1> USE DEF Core
<1>0. m \in Elems /\ s \in States /\ e.ctl \in Ctls /\ s.pelems \subseteq Elems
  BY DEF States, Elements
<1>1. /\ x \in States
      /\ x.pelems = s.pelems /\ x.sid = s.sid
      /\ \A i \in Slots : x.items[m][i] = IF i \in ItemSlots(e.ctl) THEN e ELSE s.items[m][i]
      /\ \A n \in Elems : n # m => x.items[n] = s.items[n] /\ x.caps[n] = s.caps[n]
      /\ x.caps[m] = s.caps[m] \cup GlobalCaps(e.ctl)
      /\ x.private[e] = m
      /\ \A d \in Elements : d # e => x.private[d] = s.private[d]
  BY <1>0, AddCapAt
<1>t. Type(e.ctl) \in Slots /\ Type(e.ctl) \in ItemSlots(e.ctl)
  BY <1>0, TypeSlot DEF ItemSlots
<1>2. x.items[m][Type(e.ctl)] = e
  BY <1>1, <1>t
<1>3. ItemsInv(x, L)
  <2> SUFFICES ASSUME NEW n \in s.pelems, NEW i \in Slots, x.items[n][i] # NoItem
               PROVE  Placed(x, L, n, i, x.items[n][i])
    BY <1>1 DEF ItemsInv
  <2>1. CASE n = m /\ i \in ItemSlots(e.ctl)
    <3>1. x.items[n][i] = e
      BY <1>1, <2>1
    <3>2. i = Type(e.ctl) \/ (Global(e.ctl) /\ i = Type(e.ctl) + 1)
      BY <2>1, <1>0, InItemSlots
    <3>3. Global(e.ctl) => Type(e.ctl) \in x.caps[m]
      BY <1>1 DEF GlobalCaps
    <3> QED BY <3>1, <3>2, <3>3, <2>1, <1>1, <1>2 DEF Placed
  <2>2. CASE ~(n = m /\ i \in ItemSlots(e.ctl))
    <3> DEFINE d == s.items[n][i]
    <3>1. x.items[n][i] = d /\ d # NoItem
      BY <1>0, <1>1, <2>2
    <3>2. d \in Elements /\ d.ctl \in Ctls /\ Placed(s, L, n, i, d)
      BY <3>1, <1>0, PlacedTyped
    <3>3. d # e
      BY DEF Unheld
    <3> HIDE DEF d
    <3>4. Type(d.ctl) \in Slots /\ (Global(d.ctl) => Type(d.ctl) \in {PVOLUME, PSWITCH})
      BY <3>2, TypeSlot
    <3>5. x.items[n][Type(d.ctl)] = d
      <4>1. s.items[n][Type(d.ctl)] = d
        BY <3>2 DEF Placed
      <4>2. CASE n # m
        BY <4>1, <4>2, <1>0, <1>1
      <4>3. CASE n = m
        <5>1. Type(d.ctl) # Type(e.ctl)
          BY <4>1, <4>3, <3>1
        <5>2. ~(Global(e.ctl) /\ Type(d.ctl) = Type(e.ctl) + 1)
          <6> SUFFICES ASSUME Global(e.ctl), Type(d.ctl) = Type(e.ctl) + 1 PROVE FALSE
            OBVIOUS
          <6>1. Type(e.ctl) \in {0, 2}
            BY <1>0, TypeSlot DEF PVOLUME, PSWITCH
          <6>2. ~Global(d.ctl)
            BY <6>1, <3>4 DEF PVOLUME, PSWITCH
          <6>3. i = Type(e.ctl) + 1
            BY <6>2, <3>2 DEF Placed
          <6> QED BY <6>3, <4>3, <2>2, <1>0, InItemSlots
        <5>3. Type(d.ctl) \notin ItemSlots(e.ctl)
          BY <5>1, <5>2, <3>4, <1>0, InItemSlots
        <5> QED BY <5>3, <4>1, <4>3, <3>4, <1>1
      <4> QED BY <4>2, <4>3
    <3>6. x.private[d] = s.private[d] /\ s.caps[n] \subseteq x.caps[n]
      BY <1>0, <1>1, <3>2, <3>3
    <3> QED BY <3>1, <3>2, <3>5, <3>6, <1>1 DEF Placed
  <2> QED BY <2>1, <2>2
<1>4. CapsInv(x)
  <2> SUFFICES ASSUME NEW n \in s.pelems, NEW i \in x.caps[n]
               PROVE  \E c \in scenario.ctls : /\ Global(c) /\ Type(c) = i
                                               /\ Desc[c].name = s.sid[n].name
    BY <1>1 DEF CapsInv
  <2>1. CASE i \in s.caps[n]
    BY <2>1 DEF CapsInv
  <2>2. CASE i \notin s.caps[n]
    BY <2>2, <1>0, <1>1 DEF GlobalCaps
  <2> QED BY <2>1, <2>2
<1>5. SidInv(x)
  BY <1>1 DEF SidInv
<1>6. x.items[m] # NoItems
  BY <1>2, <1>t, NotNoItem DEF NoItems
<1> QED BY <1>1, <1>2, <1>3, <1>4, <1>5, <1>6

\* new_mixer_elem and add_mixer_elem: the element that add_simple_element creates.
Created(s, m, c) ==
    [s EXCEPT !.pelems = @ \cup {m},
              !.sid[m] = [name |-> Desc[c].name, index |-> NewIndex(s, c)],
              !.items[m] = NoItems, !.caps[m] = {}]

\* The new element of add_simple_element, field by field.
LEMMA CreatedAt ==
    ASSUME NEW s \in States, SidInv(s), NEW c \in Ctls, NEW m \in Elems,
           NEW x, x = Created(s, m, c)
    PROVE  /\ x \in States
           /\ x.pelems = s.pelems \cup {m}
           /\ x.sid[m] = [name |-> Desc[c].name, index |-> NewIndex(s, c)]
           /\ x.items[m] = NoItems /\ x.caps[m] = {}
           /\ \A n \in Elems : n # m => /\ x.sid[n] = s.sid[n] /\ x.items[n] = s.items[n]
                                        /\ x.caps[n] = s.caps[n]
           /\ x.private = s.private /\ x.cache = s.cache /\ x.stale = s.stale
<1> DEFINE id == [name |-> Desc[c].name, index |-> NewIndex(s, c)]
<1>1. id \in [name : Names, index : Nat]
  BY NewIndexFree DEF Names
<1>2. NoItems \in [Slots -> Elements \cup {NoItem}]
  BY DEF NoItems
<1>3. /\ x.pelems = s.pelems \cup {m}
      /\ x.sid = [s.sid EXCEPT ![m] = id]
      /\ x.items = [s.items EXCEPT ![m] = NoItems]
      /\ x.caps = [s.caps EXCEPT ![m] = {}]
      /\ x.private = s.private /\ x.cache = s.cache /\ x.stale = s.stale
      /\ x = [pelems |-> x.pelems, sid |-> x.sid, items |-> x.items, caps |-> x.caps,
              private |-> x.private, cache |-> x.cache, stale |-> x.stale]
  BY DEF Created, States
<1> HIDE DEF id
<1>4. /\ x.sid \in [Elems -> [name : Names, index : Nat]]
      /\ x.items \in [Elems -> [Slots -> Elements \cup {NoItem}]]
      /\ x.caps \in [Elems -> SUBSET {PVOLUME, PSWITCH}]
  BY <1>1, <1>2, <1>3 DEF States
<1>5. x \in States
  BY <1>3, <1>4 DEF States
<1> QED BY <1>3, <1>5 DEF States, id

\* A new element without items has a name and an index of its own.
LEMMA CreatedKeeps ==
    ASSUME NEW L \in SUBSET Elements, NEW s, Core(s, L), NEW c \in Ctls,
           NEW m \in Elems \ s.pelems, NEW x, x = Created(s, m, c)
    PROVE  Core(x, L)
<1> USE DEF Core
<1>1. /\ x \in States
      /\ x.pelems = s.pelems \cup {m}
      /\ x.sid[m] = [name |-> Desc[c].name, index |-> NewIndex(s, c)]
      /\ x.items[m] = NoItems /\ x.caps[m] = {}
      /\ \A n \in Elems : n # m => /\ x.sid[n] = s.sid[n] /\ x.items[n] = s.items[n]
                                   /\ x.caps[n] = s.caps[n]
      /\ x.private = s.private
  BY CreatedAt
<1>0. \A n \in s.pelems : n \in Elems /\ n # m
  BY DEF States
<1>2. ItemsInv(x, L)
  <2> SUFFICES ASSUME NEW n \in x.pelems, NEW i \in Slots, x.items[n][i] # NoItem
               PROVE  Placed(x, L, n, i, x.items[n][i])
    BY DEF ItemsInv
  <2>1. n # m
    BY <1>1 DEF NoItems
  <2>2. n \in s.pelems /\ n \in Elems
    BY <2>1, <1>0, <1>1
  <2> QED BY <2>1, <2>2, <1>1 DEF ItemsInv, Placed
<1>3. CapsInv(x)
  BY <1>0, <1>1 DEF CapsInv
<1>4. SidInv(x)
  <2>1. NewIndex(s, c) \in Nat /\ \A n \in SameName(s, c) : s.sid[n].index < NewIndex(s, c)
    BY NewIndexFree
  <2>2. \A n \in s.pelems : s.sid[n].index \in Nat
    BY <1>0 DEF States
  <2>3. \A n \in s.pelems : s.sid[n] # x.sid[m]
    BY <1>1, <2>1, <2>2 DEF SameName
  <2>4. PICK b \in Nat : \A n \in s.pelems : s.sid[n].index < b
    BY DEF SidInv
  <2>5. b + NewIndex(s, c) + 1 \in Nat /\ \A n \in x.pelems : x.sid[n].index < b + NewIndex(s, c) + 1
    BY <1>0, <1>1, <2>1, <2>2, <2>4
  <2>6. \A k, n \in x.pelems : x.sid[k] = x.sid[n] => k = n
    BY <1>0, <1>1, <2>3 DEF SidInv
  <2> QED BY <2>5, <2>6 DEF SidInv
<1> QED BY <1>1, <1>2, <1>3, <1>4

\* add_simple_element fails, or puts the item into a vacant or into a new element.
LEMMA AddSimpleIs ==
    ASSUME NEW s \in States, NEW e \in Elements, NEW x \in AddSimple(s, e)
    PROVE  \/ x = s /\ (e \notin Present \/ (Vacant(s, e.ctl) = {} /\ s.pelems = Elems))
           \/ e \in Present /\ \E m \in Vacant(s, e.ctl) : x = AddCap(s, m, e)
           \/ e \in Present /\ \E m \in Elems \ s.pelems : x = AddCap(Created(s, m, e.ctl), m, e)
<1>1. CASE e \notin Present
  BY <1>1 DEF AddSimple
<1>2. CASE e \in Present /\ Vacant(s, e.ctl) # {}
  <2>1. x \in {AddCap(s, m, e) : m \in {y \in Vacant(s, e.ctl) :
              \A z \in Vacant(s, e.ctl) : s.sid[y].index <= s.sid[z].index}}
    BY <1>2 DEF AddSimple
  <2> QED BY <1>2, <2>1
<1>3. CASE e \in Present /\ Vacant(s, e.ctl) = {} /\ s.pelems = Elems
  BY <1>3 DEF AddSimple
<1>4. CASE e \in Present /\ Vacant(s, e.ctl) = {} /\ s.pelems # Elems
  <2>1. x \in {AddCap(Created(s, m, e.ctl), m, e) : m \in Elems \ s.pelems}
    BY <1>4 DEF AddSimple, Created
  <2> QED BY <1>4, <2>1
<1> QED BY <1>1, <1>2, <1>3, <1>4

\* x is s with the item of e put into element m.
Added(s, x, m, e) ==
    /\ m \in Elems /\ s.pelems \subseteq x.pelems /\ x.pelems = s.pelems \cup {m}
    /\ x.private[e] = m /\ x.cache[e] = value[e.ctl] /\ x.stale = s.stale \ {e}
    /\ x.items[m][Type(e.ctl)] = e /\ x.items[m] # NoItems
    /\ x.sid[m].name = Desc[e.ctl].name
    /\ \A d \in Elements : d # e => x.private[d] = s.private[d] /\ x.cache[d] = s.cache[d]
    /\ \A n \in s.pelems : x.sid[n] = s.sid[n] /\ (n # m => x.items[n] = s.items[n])
    /\ m \in s.pelems =>
           /\ s.items[m][Type(e.ctl)] = NoItem
           /\ \A i \in Slots \ ItemSlots(e.ctl) : x.items[m][i] = s.items[m][i]

\* add_simple_element keeps the mixer in order, whether it fails or not.
LEMMA AddKeeps ==
    ASSUME NEW L \in SUBSET Elements, NEW s, Core(s, L), NEW e \in L, e.ctl \in scenario.ctls,
           value \in [Ctls -> scenario.values], Unheld(s, e), NEW x \in AddSimple(s, e)
    PROVE  /\ Core(x, L)
           /\ \/ x = s /\ (e \notin Present \/ (Vacant(s, e.ctl) = {} /\ s.pelems = Elems))
              \/ e \in Present /\ \E m \in x.pelems : Added(s, x, m, e)
<1>0. s \in States /\ e \in Elements /\ e.ctl \in Ctls /\ s.pelems \subseteq Elems /\ SidInv(s)
  BY DEF Core, States, Elements
<1>1. CASE x = s /\ (e \notin Present \/ (Vacant(s, e.ctl) = {} /\ s.pelems = Elems))
  BY <1>1
<1>2. ASSUME e \in Present, NEW m \in Vacant(s, e.ctl), x = AddCap(s, m, e)
      PROVE  Core(x, L) /\ Added(s, x, m, e) /\ m \in x.pelems
  <2>1. m \in s.pelems /\ s.sid[m].name = Desc[e.ctl].name /\ s.items[m][Type(e.ctl)] = NoItem
    BY DEF Vacant, SameName
  <2>2. Core(x, L) /\ x.items[m][Type(e.ctl)] = e /\ x.items[m] # NoItems
    BY <1>2, <2>1, AddCapKeeps
  <2>3. /\ x.pelems = s.pelems /\ x.sid = s.sid
        /\ \A i \in Slots : x.items[m][i] = IF i \in ItemSlots(e.ctl) THEN e ELSE s.items[m][i]
        /\ \A n \in Elems : n # m => x.items[n] = s.items[n]
        /\ x.private[e] = m /\ x.cache[e] = value[e.ctl] /\ x.stale = s.stale \ {e}
        /\ \A d \in Elements : d # e => x.private[d] = s.private[d] /\ x.cache[d] = s.cache[d]
    BY <1>0, <1>2, <2>1, AddCapAt
  <2> QED BY <1>0, <2>1, <2>2, <2>3 DEF Added
<1>3. ASSUME e \in Present, NEW m \in Elems \ s.pelems, x = AddCap(Created(s, m, e.ctl), m, e)
      PROVE  Core(x, L) /\ Added(s, x, m, e) /\ m \in x.pelems
  <2>0. PICK y : y = Created(s, m, e.ctl)
    OBVIOUS
  <2>1. /\ y \in States
        /\ y.pelems = s.pelems \cup {m}
        /\ y.sid[m] = [name |-> Desc[e.ctl].name, index |-> NewIndex(s, e.ctl)]
        /\ y.items[m] = NoItems
        /\ \A n \in Elems : n # m => y.sid[n] = s.sid[n] /\ y.items[n] = s.items[n]
        /\ y.private = s.private /\ y.cache = s.cache /\ y.stale = s.stale
    BY <1>0, <2>0, CreatedAt
  <2>2. Core(y, L)
    BY <1>0, <2>0, CreatedKeeps
  <2>3. Type(e.ctl) \in Slots
    BY <1>0, TypeSlot
  <2>4. y.items[m][Type(e.ctl)] = NoItem /\ y.sid[m].name = Desc[e.ctl].name /\ m \in y.pelems
    BY <2>1, <2>3 DEF NoItems
  <2>5. Unheld(y, e)
    <3> SUFFICES ASSUME NEW n \in y.pelems, NEW i \in Slots PROVE y.items[n][i] # e
      BY DEF Unheld
    <3>1. CASE n = m
      BY <3>1, <2>1, <1>0, NotNoItem DEF NoItems
    <3>2. CASE n # m
      BY <3>2, <2>1, <1>0 DEF Unheld
    <3> QED BY <3>1, <3>2
  <2>6. x = AddCap(y, m, e)
    BY <1>3, <2>0
  <2>7. Core(x, L) /\ x.items[m][Type(e.ctl)] = e /\ x.items[m] # NoItems
    BY <2>2, <2>4, <2>5, <2>6, AddCapKeeps
  <2>8. /\ x.pelems = y.pelems /\ x.sid = y.sid
        /\ \A n \in Elems : n # m => x.items[n] = y.items[n]
        /\ x.private[e] = m /\ x.cache[e] = value[e.ctl] /\ x.stale = y.stale \ {e}
        /\ \A d \in Elements : d # e => x.private[d] = y.private[d] /\ x.cache[d] = y.cache[d]
    BY <1>0, <2>1, <2>6, AddCapAt
  <2> QED BY <1>0, <1>3, <2>1, <2>4, <2>7, <2>8 DEF Added
<1> QED BY <1>0, <1>1, <1>2, <1>3, AddSimpleIs

\* An element that has taken an item is not empty.
LEMMA AddFills ==
    ASSUME NEW s, NEW x, NEW m, NEW e, Added(s, x, m, e), FilledInv(s)
    PROVE  FilledInv(x)
BY DEF Added, FilledInv

\* Where controls do not take each other's slots, add_simple_element leaves every
\* other control element connected to the element that holds its item.
LEMMA AddLinks ==
    ASSUME NEW L \in SUBSET Elements, NEW s, Core(s, L), NEW x, NEW e \in L,
           \A d \in L : d.ctl \in scenario.ctls, \A d \in L : d.ctl = e.ctl => d = e,
           NEW m, Added(s, x, m, e), Separate, LinkInv(s, L \ {e})
    PROVE  LinkInv(x, L)
<1> SUFFICES ASSUME NEW d \in L, x.private[d] # NULL
             PROVE  /\ x.private[d] \in x.pelems
                    /\ x.sid[x.private[d]].name = Desc[d.ctl].name
                    /\ ("INFO" \notin scenario.notes \/ d \in Present) =>
                           x.items[x.private[d]][Type(d.ctl)] = d
  BY DEF LinkInv
<1>1. CASE d = e
  BY <1>1 DEF Added
<1>2. CASE d # e
  <2> DEFINE k == s.private[d]
  <2>0. d \in Elements /\ d.ctl \in Ctls /\ e.ctl \in Ctls
    BY DEF Elements
  <2>1. x.private[d] = k
    BY <1>2, <2>0 DEF Added
  <2>2. /\ k \in s.pelems
        /\ s.sid[k].name = Desc[d.ctl].name
        /\ ("INFO" \notin scenario.notes \/ d \in Present) => s.items[k][Type(d.ctl)] = d
    BY <1>2, <2>1 DEF LinkInv
  <2> HIDE DEF k
  <2>3. k \in x.pelems /\ x.sid[k] = s.sid[k]
    BY <2>2 DEF Added
  <2>4. CASE k # m
    BY <2>1, <2>2, <2>3, <2>4 DEF Added
  <2>5. CASE k = m
    <3>1. Desc[d.ctl].name = Desc[e.ctl].name /\ d.ctl # e.ctl
      BY <1>2, <2>2, <2>3, <2>5 DEF Added
    <3>2. "INFO" \notin scenario.notes /\ (Global(e.ctl) => Type(d.ctl) # Type(e.ctl) + 1)
      BY <3>1 DEF Separate
    <3>3. s.items[m][Type(d.ctl)] = d /\ Type(d.ctl) # Type(e.ctl)
      BY <2>0, <2>2, <2>5, <3>2, NotNoItem DEF Added
    <3>4. Type(d.ctl) \in Slots \ ItemSlots(e.ctl)
      BY <2>0, <3>2, <3>3, TypeSlot, InItemSlots
    <3>5. x.items[m][Type(d.ctl)] = d
      BY <2>2, <2>5, <3>3, <3>4 DEF Added
    <3> QED BY <2>1, <2>2, <2>3, <2>5, <3>5
  <2> QED BY <2>4, <2>5
<1> QED BY <1>1, <1>2

-----------------------------------------------------------------------------
(* remove_simple_element *)

\* The slots of element m that remove_simple_element leaves, found in slot i.
Left(s, m, i) == [j \in Slots |-> IF j \in Emptied(s, m, i) THEN NoItem ELSE s.items[m][j]]

\* x is s with the element m freed.
Freed(s, x, m) ==
    /\ x.pelems = s.pelems \ {m}
    /\ \A n \in Elems \ {m} : x.sid[n] = s.sid[n] /\ x.items[n] = s.items[n] /\ x.caps[n] = s.caps[n]
    /\ x.private = s.private /\ x.cache = s.cache /\ x.stale = s.stale

\* x is s with the items of element m that are emptied with slot i gone.
Cut(s, x, m, i) ==
    /\ x.pelems = s.pelems /\ x.sid = s.sid /\ x.caps = s.caps
    /\ x.items[m] = Left(s, m, i)
    /\ \A n \in Elems \ {m} : x.items[n] = s.items[n]
    /\ x.private = s.private /\ x.cache = s.cache /\ x.stale = s.stale

\* The loop of remove_simple_element over the slots stops at the first that matches.
LEMMA Lowest ==
    ASSUME NEW S \in SUBSET Slots, S # {}
    PROVE  \E i \in S : \A j \in S : i <= j
<1>1. \A k \in S : k \in 0..4
  BY DEF Slots
<1>2. CASE 0 \in S
  BY <1>1, <1>2
<1>3. CASE 0 \notin S /\ 1 \in S
  BY <1>1, <1>3
<1>4. CASE 0 \notin S /\ 1 \notin S /\ 2 \in S
  BY <1>1, <1>4
<1>5. CASE 0 \notin S /\ 1 \notin S /\ 2 \notin S /\ 3 \in S
  BY <1>1, <1>5
<1>6. CASE 0 \notin S /\ 1 \notin S /\ 2 \notin S /\ 3 \notin S
  <2>1. \A k \in S : k = 4
    BY <1>1, <1>6
  <2> QED BY <2>1
<1> QED BY <1>2, <1>3, <1>4, <1>5, <1>6

\* remove_simple_element does nothing, frees the element, or empties its slots.
LEMMA RemoveIs ==
    ASSUME NEW s \in States, NEW e \in Elements, NEW m \in Elems, s.private[e] = m,
           NEW r \in BOOLEAN, NEW x, x = RemoveSimple(s, e, r)
    PROVE  \/ x = s /\ \A i \in Slots : s.items[m][i] # e
           \/ \E i \in Slots :
                  /\ s.items[m][i] = e /\ \A j \in Slots : s.items[m][j] = e => i <= j
                  /\ x \in States
                  /\ \/ r /\ Left(s, m, i) = NoItems /\ Freed(s, x, m)
                     \/ (r => Left(s, m, i) # NoItems) /\ Cut(s, x, m, i)
<1> DEFINE held == {i \in Slots : s.items[m][i] = e}
           h == CHOOSE k \in held : \A y \in held : k <= y
<1>1. CASE held = {}
  <2>1. x = s
    BY <1>1 DEF RemoveSimple
  <2> QED BY <1>1, <2>1
<1>2. CASE held # {}
  <2>1. \E i \in held : \A j \in held : i <= j
    BY <1>2, Lowest
  <2>2. h \in held /\ \A j \in held : h <= j
    BY <2>1
  <2> HIDE DEF h
  <2>3. h \in Slots /\ s.items[m][h] = e /\ \A j \in Slots : s.items[m][j] = e => h <= j
    BY <2>2
  <2>4. Left(s, m, h) \in [Slots -> Elements \cup {NoItem}] /\ NoItems \in [Slots -> Elements \cup {NoItem}]
    BY DEF Left, NoItems, States
  <2>5. CASE r /\ Left(s, m, h) = NoItems
    <3>1. x = [s EXCEPT !.pelems = @ \ {m},
                       !.sid[m] = [name |-> NULL, index |-> 0],
                       !.items[m] = NoItems, !.caps[m] = {}]
      BY <1>2, <2>5 DEF RemoveSimple, Unused, Left, h
    <3>2. /\ x.pelems = s.pelems \ {m}
          /\ x.sid = [s.sid EXCEPT ![m] = [name |-> NULL, index |-> 0]]
          /\ x.items = [s.items EXCEPT ![m] = NoItems]
          /\ x.caps = [s.caps EXCEPT ![m] = {}]
          /\ x.private = s.private /\ x.cache = s.cache /\ x.stale = s.stale
          /\ x = [pelems |-> x.pelems, sid |-> x.sid, items |-> x.items, caps |-> x.caps,
                  private |-> x.private, cache |-> x.cache, stale |-> x.stale]
      BY <3>1 DEF States
    <3>3. /\ x.sid \in [Elems -> [name : Names, index : Nat]]
          /\ x.items \in [Elems -> [Slots -> Elements \cup {NoItem}]]
          /\ x.caps \in [Elems -> SUBSET {PVOLUME, PSWITCH}]
      BY <2>4, <3>2 DEF States, Names
    <3>4. x \in States
      BY <3>2, <3>3 DEF States
    <3>5. Freed(s, x, m)
      BY <3>2 DEF Freed, States
    <3> QED BY <2>3, <2>5, <3>4, <3>5
  <2>6. CASE ~(r /\ Left(s, m, h) = NoItems)
    <3>1. x = [s EXCEPT !.items[m] = Left(s, m, h)]
      BY <1>2, <2>6 DEF RemoveSimple, Unused, Left, h
    <3>2. /\ x.items = [s.items EXCEPT ![m] = Left(s, m, h)]
          /\ x.pelems = s.pelems /\ x.sid = s.sid /\ x.caps = s.caps
          /\ x.private = s.private /\ x.cache = s.cache /\ x.stale = s.stale
          /\ x = [pelems |-> x.pelems, sid |-> x.sid, items |-> x.items, caps |-> x.caps,
                  private |-> x.private, cache |-> x.cache, stale |-> x.stale]
      BY <3>1 DEF States
    <3>3. x.items \in [Elems -> [Slots -> Elements \cup {NoItem}]]
      BY <2>4, <3>2 DEF States
    <3>4. x \in States
      BY <3>2, <3>3 DEF States
    <3>5. Cut(s, x, m, h)
      BY <3>2 DEF Cut, States
    <3> QED BY <2>3, <2>6, <3>4, <3>5
  <2> QED BY <2>5, <2>6
<1> QED BY <1>1, <1>2

\* The slots emptied with the first slot of an item are those it is in.
LEMMA LeftOthers ==
    ASSUME NEW L \in SUBSET Elements, NEW s, Core(s, L), NEW m \in s.pelems, NEW i \in Slots,
           NEW e \in Elements, s.items[m][i] = e, \A j \in Slots : s.items[m][j] = e => i <= j,
           NEW j \in Slots, Left(s, m, i)[j] # NoItem
    PROVE  /\ Left(s, m, i)[j] = s.items[m][j] /\ s.items[m][j] # e
           /\ Left(s, m, i)[Type(s.items[m][j].ctl)] = s.items[m][j]
<1>0. s \in States /\ m \in Elems /\ ItemsInv(s, L) /\ s.caps[m] \subseteq {0, 2}
  BY DEF Core, States, PVOLUME, PSWITCH
<1>1. j \notin Emptied(s, m, i) /\ Left(s, m, i)[j] = s.items[m][j]
  BY DEF Left
<1>2. e.ctl \in Ctls /\ Placed(s, L, m, i, e)
  BY <1>0, NotNoItem, PlacedTyped
<1>3. Type(e.ctl) \in Slots /\ (Global(e.ctl) => Type(e.ctl) \in {0, 2})
  BY <1>2, TypeSlot DEF PVOLUME, PSWITCH
<1>4. i = Type(e.ctl)
  BY <1>2, <1>3 DEF Placed, Slots
<1> DEFINE d == s.items[m][j]
<1>5. d \in Elements /\ d.ctl \in Ctls /\ Placed(s, L, m, j, d)
  BY <1>0, <1>1, PlacedTyped
<1> HIDE DEF d
<1>6. d # e
  <2> SUFFICES ASSUME d = e PROVE FALSE
    OBVIOUS
  <2>1. CASE j = Type(e.ctl)
    BY <2>1, <1>1, <1>4 DEF Emptied
  <2>2. CASE Global(e.ctl) /\ j = Type(e.ctl) + 1
    <3>1. i \in s.caps[m]
      BY <2>2, <1>2, <1>4 DEF Placed
    <3> QED BY <3>1, <2>2, <1>1, <1>4 DEF Emptied
  <2> QED BY <2>1, <2>2, <1>5 DEF Placed
<1>7. Type(d.ctl) \in Slots /\ s.items[m][Type(d.ctl)] = d
      /\ (Global(d.ctl) => Type(d.ctl) \in {0, 2})
  BY <1>5, TypeSlot DEF Placed, PVOLUME, PSWITCH
<1>8. Type(d.ctl) \notin Emptied(s, m, i)
  <2>1. Type(d.ctl) # i
    BY <1>6, <1>7
  <2>2. CASE i \in s.caps[m] /\ Type(d.ctl) = i + 1
    <3>1. i \in {0, 2}
      BY <2>2, <1>0
    <3>2. ~Global(d.ctl)
      BY <3>1, <2>2, <1>7
    <3>3. j = i + 1
      BY <3>2, <2>2, <1>5 DEF Placed
    <3> QED BY <3>3, <2>2, <1>1 DEF Emptied
  <2> QED BY <2>1, <2>2 DEF Emptied
<1> QED BY <1>1, <1>6, <1>7, <1>8 DEF Left, d

\* remove_simple_element leaves no slot that holds the item, and the others in order.
LEMMA RemoveKeeps ==
    ASSUME NEW L \in SUBSET Elements, NEW s, Core(s, L), NEW e \in L, s.private[e] \in s.pelems,
           NEW r \in BOOLEAN, NEW x, x = RemoveSimple(s, e, r)
    PROVE  /\ Core(x, L) /\ Unheld(x, e)
           /\ x.private = s.private /\ x.cache = s.cache /\ x.stale = s.stale
           /\ r /\ FilledInv(s) => FilledInv(x)
<1> DEFINE m == s.private[e]
<1>0. /\ s \in States /\ m \in Elems /\ m \in s.pelems /\ e \in Elements /\ s.pelems \subseteq Elems
      /\ ItemsInv(s, L) /\ CapsInv(s) /\ SidInv(s)
  BY DEF Core, States
<1>1. \/ x = s /\ \A i \in Slots : s.items[m][i] # e
      \/ \E i \in Slots :
             /\ s.items[m][i] = e /\ \A j \in Slots : s.items[m][j] = e => i <= j
             /\ x \in States
             /\ \/ r /\ Left(s, m, i) = NoItems /\ Freed(s, x, m)
                \/ (r => Left(s, m, i) # NoItems) /\ Cut(s, x, m, i)
  BY <1>0, RemoveIs
<1>2. \A n \in s.pelems, i \in Slots : n # m => s.items[n][i] # e
  <2> SUFFICES ASSUME NEW n \in s.pelems, NEW i \in Slots, s.items[n][i] = e PROVE n = m
    OBVIOUS
  <2>1. Placed(s, L, n, i, e)
    BY <1>0, NotNoItem DEF ItemsInv
  <2> QED BY <2>1 DEF Placed
<1> HIDE DEF m
<1>3. CASE x = s /\ \A i \in Slots : s.items[m][i] # e
  BY <1>2, <1>3 DEF Unheld
<1>4. ASSUME NEW i \in Slots, x \in States, Freed(s, x, m), r, Left(s, m, i) = NoItems
      PROVE  /\ Core(x, L) /\ Unheld(x, e) /\ (r /\ FilledInv(s) => FilledInv(x))
  <2>1. \A n \in x.pelems : /\ n \in s.pelems /\ n \in Elems /\ n # m /\ x.sid[n] = s.sid[n]
                            /\ x.items[n] = s.items[n] /\ x.caps[n] = s.caps[n]
    BY <1>0, <1>4 DEF Freed
  <2>2. ItemsInv(x, L)
    <3> SUFFICES ASSUME NEW n \in x.pelems, NEW k \in Slots, x.items[n][k] # NoItem
                 PROVE  Placed(x, L, n, k, x.items[n][k])
      BY DEF ItemsInv
    <3>1. Placed(s, L, n, k, x.items[n][k])
      BY <2>1, <1>0 DEF ItemsInv
    <3> QED BY <3>1, <2>1, <1>4 DEF Placed, Freed
  <2>3. CapsInv(x)
    BY <2>1, <1>0 DEF CapsInv
  <2>4. SidInv(x)
    BY <2>1, <1>0 DEF SidInv
  <2>5. Unheld(x, e) /\ (FilledInv(s) => FilledInv(x))
    BY <2>1, <1>2 DEF Unheld, FilledInv
  <2> QED BY <2>2, <2>3, <2>4, <2>5, <1>4 DEF Core
<1>5. ASSUME NEW i \in Slots, s.items[m][i] = e, \A j \in Slots : s.items[m][j] = e => i <= j,
             x \in States, r => Left(s, m, i) # NoItems, Cut(s, x, m, i)
      PROVE  /\ Core(x, L) /\ Unheld(x, e) /\ (r /\ FilledInv(s) => FilledInv(x))
  <2>1. \A n \in x.pelems : /\ n \in s.pelems /\ n \in Elems /\ x.sid[n] = s.sid[n]
                            /\ x.caps[n] = s.caps[n]
                            /\ x.items[n] = IF n = m THEN Left(s, m, i) ELSE s.items[n]
    BY <1>0, <1>5 DEF Cut
  <2>2. \A j \in Slots : Left(s, m, i)[j] # NoItem =>
           /\ Left(s, m, i)[j] = s.items[m][j] /\ s.items[m][j] # e
           /\ Left(s, m, i)[Type(s.items[m][j].ctl)] = s.items[m][j]
    BY <1>0, <1>5, LeftOthers
  <2>3. ItemsInv(x, L)
    <3> SUFFICES ASSUME NEW n \in x.pelems, NEW k \in Slots, x.items[n][k] # NoItem
                 PROVE  Placed(x, L, n, k, x.items[n][k])
      BY DEF ItemsInv
    <3>0. x.private = s.private /\ x.sid[n] = s.sid[n] /\ x.caps[n] = s.caps[n] /\ n \in s.pelems
      BY <2>1, <1>5 DEF Cut
    <3>1. CASE n = m
      <4>1. /\ x.items[n][k] = s.items[m][k]
            /\ x.items[n][Type(s.items[m][k].ctl)] = s.items[m][k]
        BY <3>1, <2>1, <2>2
      <4>2. Placed(s, L, m, k, s.items[m][k])
        BY <4>1, <1>0 DEF ItemsInv
      <4> QED BY <3>0, <3>1, <4>1, <4>2 DEF Placed
    <3>2. CASE n # m
      <4>1. x.items[n] = s.items[n]
        BY <3>2, <2>1
      <4>2. Placed(s, L, n, k, s.items[n][k])
        BY <3>0, <4>1, <1>0 DEF ItemsInv
      <4> QED BY <3>0, <4>1, <4>2 DEF Placed
    <3> QED BY <3>1, <3>2
  <2>4. CapsInv(x)
    BY <2>1, <1>0 DEF CapsInv
  <2>5. SidInv(x)
    BY <2>1, <1>0 DEF SidInv
  <2>6. Unheld(x, e)
    <3> SUFFICES ASSUME NEW n \in x.pelems, NEW k \in Slots, x.items[n][k] = e PROVE FALSE
      BY DEF Unheld
    <3>1. n = m
      BY <2>1, <1>2
    <3>2. Left(s, m, i)[k] = e /\ e # NoItem
      BY <3>1, <2>1, <1>0, NotNoItem
    <3> QED BY <3>2, <2>2
  <2>7. r /\ FilledInv(s) => FilledInv(x)
    BY <2>1, <1>5 DEF FilledInv
  <2> QED BY <2>3, <2>4, <2>5, <2>6, <2>7, <1>5 DEF Core
<1>6. x.private = s.private /\ x.cache = s.cache /\ x.stale = s.stale
  BY <1>1 DEF Freed, Cut
<1> QED BY <1>1, <1>3, <1>4, <1>5, <1>6

\* Where controls do not take each other's slots, remove_simple_element frees or
\* empties nothing that another control element is connected to.
LEMMA RemoveLinks ==
    ASSUME NEW L \in SUBSET Elements, NEW s, Core(s, L), NEW e \in L, s.private[e] \in s.pelems,
           \A d \in L : d.ctl \in scenario.ctls, \A d \in L : d.ctl = e.ctl => d = e,
           NEW r \in BOOLEAN, NEW x, x = RemoveSimple(s, e, r), Separate, LinkInv(s, L)
    PROVE  LinkInv(x, L \ {e}) /\ s.private[e] # NULL
<1> DEFINE m == s.private[e]
<1>0. /\ s \in States /\ m \in Elems /\ m \in s.pelems /\ e \in Elements /\ s.pelems \subseteq Elems
      /\ CapsInv(s) /\ m # NULL
  BY MixerConstants DEF Core, States
<1>1. \/ x = s
      \/ \E i \in Slots :
             /\ s.items[m][i] = e
             /\ \/ Left(s, m, i) = NoItems /\ Freed(s, x, m)
                \/ Cut(s, x, m, i)
  BY <1>0, RemoveIs
<1>n. s.sid[m].name = Desc[e.ctl].name
  BY <1>0 DEF LinkInv
<1> HIDE DEF m
<1>2. ASSUME NEW d \in L \ {e}, s.private[d] # NULL, NEW i \in Slots, s.items[m][i] = e,
             \/ Left(s, m, i) = NoItems /\ Freed(s, x, m)
             \/ Cut(s, x, m, i)
      PROVE  /\ x.private[d] \in x.pelems
             /\ x.sid[x.private[d]].name = Desc[d.ctl].name
             /\ ("INFO" \notin scenario.notes \/ d \in Present) =>
                    x.items[x.private[d]][Type(d.ctl)] = d
  <2> DEFINE k == s.private[d]
  <2>0. x.private[d] = k /\ d \in Elements /\ d.ctl \in Ctls
    BY <1>2 DEF Freed, Cut, Elements
  <2>1. /\ k \in s.pelems
        /\ s.sid[k].name = Desc[d.ctl].name
        /\ ("INFO" \notin scenario.notes \/ d \in Present) => s.items[k][Type(d.ctl)] = d
    BY <1>2 DEF LinkInv
  <2> HIDE DEF k
  <2>2. CASE k # m
    BY <2>0, <2>1, <2>2, <1>0, <1>2 DEF Freed, Cut
  <2>3. CASE k = m
    <3>1. Desc[d.ctl].name = Desc[e.ctl].name /\ d.ctl # e.ctl
      BY <2>1, <2>3, <1>n
    <3>2. "INFO" \notin scenario.notes
      BY <3>1 DEF Separate
    <3>3. s.items[m][Type(d.ctl)] = d /\ Type(d.ctl) \in Slots /\ Type(d.ctl) # i
      BY <2>0, <2>1, <2>3, <3>2, <1>2, TypeSlot
    <3>4. ~(i \in s.caps[m] /\ Type(d.ctl) = i + 1)
      <4> SUFFICES ASSUME i \in s.caps[m], Type(d.ctl) = i + 1 PROVE FALSE
        OBVIOUS
      <4>1. PICK c \in scenario.ctls : Global(c) /\ Type(c) = i /\ Desc[c].name = s.sid[m].name
        BY <1>0 DEF CapsInv
      <4>2. c # d.ctl /\ Desc[c].name = Desc[d.ctl].name
        BY <4>1, <3>3, <2>1, <2>3
      <4> QED BY <4>1, <4>2 DEF Separate
    <3>5. Left(s, m, i)[Type(d.ctl)] = d
      BY <3>3, <3>4 DEF Left, Emptied
    <3>6. Left(s, m, i) # NoItems
      BY <3>3, <3>5, <2>0, NotNoItem DEF NoItems
    <3> QED BY <2>0, <2>1, <2>3, <3>5, <3>6, <1>2 DEF Cut
  <2> QED BY <2>2, <2>3
<1>3. CASE x = s
  BY <1>0, <1>3 DEF LinkInv, m
<1>4. CASE x # s
  <2>1. PICK i \in Slots : /\ s.items[m][i] = e
             /\ \/ Left(s, m, i) = NoItems /\ Freed(s, x, m)
                \/ Cut(s, x, m, i)
    BY <1>1, <1>4
  <2>2. x.private = s.private
    BY <2>1 DEF Freed, Cut
  <2> QED BY <2>1, <2>2, <1>2, <1>0 DEF LinkInv, m
<1> QED BY <1>3, <1>4

-----------------------------------------------------------------------------
(* hctl_elem_event_handler *)

\* x is s without anything of the control element e.
Forgotten(s, x, e) ==
    /\ x.private[e] = NULL /\ x.stale = s.stale \ {e}
    /\ \A d \in Elements \ {e} : x.private[d] = s.private[d] /\ x.cache[d] = s.cache[d]

\* A control element that no item points to can be freed.
LEMMA ForgetKeeps ==
    ASSUME NEW L \in SUBSET Elements, NEW s, Core(s, L), NEW e \in L, Unheld(s, e),
           0 \in scenario.values,
           NEW x, x = [s EXCEPT !.private[e] = NULL, !.cache[e] = 0, !.stale = @ \ {e}]
    PROVE  /\ Core(x, L \ {e}) /\ Forgotten(s, x, e)
           /\ FilledInv(s) => FilledInv(x)
           /\ LinkInv(s, L \ {e}) => LinkInv(x, L \ {e})
<1>0. s \in States /\ e \in Elements /\ ItemsInv(s, L) /\ CapsInv(s) /\ SidInv(s)
  BY DEF Core
<1>1. /\ x.private = [s.private EXCEPT ![e] = NULL]
      /\ x.cache = [s.cache EXCEPT ![e] = 0]
      /\ x.stale = s.stale \ {e}
      /\ x.pelems = s.pelems /\ x.sid = s.sid /\ x.items = s.items /\ x.caps = s.caps
      /\ x = [pelems |-> x.pelems, sid |-> x.sid, items |-> x.items, caps |-> x.caps,
              private |-> x.private, cache |-> x.cache, stale |-> x.stale]
  BY <1>0 DEF States
<1>2. x \in States
  BY <1>0, <1>1 DEF States
<1>3. Forgotten(s, x, e)
  BY <1>0, <1>1 DEF Forgotten, States
<1>4. ItemsInv(x, L \ {e})
  <2> SUFFICES ASSUME NEW n \in s.pelems, NEW k \in Slots, s.items[n][k] # NoItem
               PROVE  Placed(x, L \ {e}, n, k, s.items[n][k])
    BY <1>1 DEF ItemsInv
  <2>1. Placed(s, L, n, k, s.items[n][k]) /\ s.items[n][k] # e
    BY <1>0 DEF ItemsInv, Unheld
  <2>2. x.private[s.items[n][k]] = s.private[s.items[n][k]]
    BY <2>1, <1>3 DEF Placed, Forgotten
  <2> QED BY <2>1, <2>2, <1>1 DEF Placed
<1>5. CapsInv(x) /\ SidInv(x)
  BY <1>0, <1>1 DEF CapsInv, SidInv
<1>6. FilledInv(s) => FilledInv(x)
  BY <1>1 DEF FilledInv
<1>7. LinkInv(s, L \ {e}) => LinkInv(x, L \ {e})
  BY <1>1, <1>3 DEF LinkInv, Forgotten
<1> QED BY <1>2, <1>3, <1>4, <1>5, <1>6, <1>7 DEF Core

\* The REMOVE event of a control element takes its item out before it is freed.
LEMMA RemovedKeeps ==
    ASSUME NEW L \in SUBSET Elements, NEW s, Core(s, L), NEW e \in L,
           0 \in scenario.values, NEW x, x = Removed(s, e)
    PROVE  /\ Core(x, L \ {e}) /\ Forgotten(s, x, e)
           /\ FilledInv(s) => FilledInv(x)
           /\ Separate /\ LinkInv(s, L) /\ (\A d \in L : d.ctl \in scenario.ctls)
              /\ (\A d \in L : d.ctl = e.ctl => d = e) => LinkInv(x, L \ {e})
<1> DEFINE y == IF s.private[e] \notin s.pelems THEN s ELSE RemoveSimple(s, e, TRUE)
<1>0. x = [y EXCEPT !.private[e] = NULL, !.cache[e] = 0, !.stale = @ \ {e}]
  BY DEF Removed
<1>1. /\ Core(y, L) /\ Unheld(y, e)
      /\ y.private = s.private /\ y.cache = s.cache /\ y.stale = s.stale
      /\ FilledInv(s) => FilledInv(y)
  <2>1. CASE s.private[e] \notin s.pelems
    <3>1. Unheld(s, e)
      <4> SUFFICES ASSUME NEW n \in s.pelems, NEW i \in Slots, s.items[n][i] = e PROVE FALSE
        BY DEF Unheld
      <4>1. Placed(s, L, n, i, e)
        BY NotNoItem DEF Core, ItemsInv
      <4> QED BY <4>1, <2>1 DEF Placed
    <3> QED BY <2>1, <3>1
  <2>2. CASE s.private[e] \in s.pelems
    <3>0. PICK r \in BOOLEAN : r = TRUE
      OBVIOUS
    <3>1. y = RemoveSimple(s, e, r)
      BY <2>2, <3>0
    <3> HIDE DEF y
    <3>2. /\ Core(y, L) /\ Unheld(y, e)
          /\ y.private = s.private /\ y.cache = s.cache /\ y.stale = s.stale
          /\ r /\ FilledInv(s) => FilledInv(y)
      BY <2>2, <3>1, RemoveKeeps
    <3> QED BY <3>0, <3>2
  <2> QED BY <2>1, <2>2
<1>2. Separate /\ LinkInv(s, L) /\ (\A d \in L : d.ctl \in scenario.ctls)
      /\ (\A d \in L : d.ctl = e.ctl => d = e) => LinkInv(y, L \ {e})
  <2>1. CASE s.private[e] \notin s.pelems
    BY <2>1 DEF LinkInv
  <2>2. CASE s.private[e] \in s.pelems
    BY <2>2, RemoveLinks
  <2> QED BY <2>1, <2>2
<1> HIDE DEF y
<1>3. /\ Core(x, L \ {e}) /\ Forgotten(y, x, e)
      /\ FilledInv(y) => FilledInv(x)
      /\ LinkInv(y, L \ {e}) => LinkInv(x, L \ {e})
  BY <1>0, <1>1, ForgetKeeps
<1>4. Forgotten(s, x, e)
  BY <1>1, <1>3 DEF Forgotten
<1> QED BY <1>1, <1>2, <1>3, <1>4

\* x is s with the value of e's item read again, or not.
Refreshed(s, x, e) ==
    /\ x.pelems = s.pelems /\ x.sid = s.sid /\ x.items = s.items /\ x.caps = s.caps
    /\ x.private = s.private
    /\ \A d \in Elements \ {e} : x.cache[d] = s.cache[d] /\ (d \in s.stale => d \in x.stale)
    /\ \/ x.cache[e] = s.cache[e] /\ (e \in s.stale => e \in x.stale)
       \/ x.cache[e] = value[e.ctl]

\* update_simple_element touches the value of one item only, and reads it if the
\* item is found and the control still exists.
LEMMA UpdateKeeps ==
    ASSUME NEW L \in SUBSET Elements, NEW s, Core(s, L), NEW e \in Elements, NEW m \in Elems,
           value \in [Ctls -> scenario.values], NEW x, x = UpdateSimple(s, m, e)
    PROVE  /\ Core(x, L) /\ Refreshed(s, x, e)
           /\ FilledInv(s) => FilledInv(x)
           /\ LinkInv(s, L) => LinkInv(x, L)
           /\ e \in Present /\ (\E i \in Slots : s.items[m][i] = e) => x.cache[e] = value[e.ctl]
<1>0. s \in States /\ e.ctl \in Ctls /\ value[e.ctl] \in scenario.values
  BY DEF Core, Elements
<1>1. CASE x = s /\ ~(e \in Present /\ \E i \in Slots : s.items[m][i] = e)
  BY <1>1 DEF Refreshed
<1>2. CASE x = [s EXCEPT !.cache[e] = value[e.ctl], !.stale = @ \ {e}]
  <2>1. /\ x.cache = [s.cache EXCEPT ![e] = value[e.ctl]]
        /\ x.stale = s.stale \ {e} /\ x.private = s.private
        /\ x.pelems = s.pelems /\ x.sid = s.sid /\ x.items = s.items /\ x.caps = s.caps
        /\ x = [pelems |-> x.pelems, sid |-> x.sid, items |-> x.items, caps |-> x.caps,
                private |-> x.private, cache |-> x.cache, stale |-> x.stale]
    BY <1>0, <1>2 DEF States
  <2>2. x \in States
    BY <1>0, <2>1 DEF States
  <2>3. Refreshed(s, x, e) /\ x.cache[e] = value[e.ctl]
    BY <1>0, <2>1 DEF Refreshed, States
  <2>4. ItemsInv(x, L) /\ CapsInv(x) /\ SidInv(x)
    BY <2>1 DEF Core, ItemsInv, Placed, CapsInv, SidInv
  <2>5. (FilledInv(s) => FilledInv(x)) /\ (LinkInv(s, L) => LinkInv(x, L))
    BY <2>1 DEF FilledInv, LinkInv
  <2> QED BY <2>2, <2>3, <2>4, <2>5 DEF Core
<1> QED BY <1>1, <1>2 DEF UpdateSimple

\* A failed read makes the item stale and leaves the rest as it was.
LEMMA MissedKeeps ==
    ASSUME NEW L \in SUBSET Elements, NEW s, Core(s, L), NEW e \in Elements, NEW m \in Elems,
           NEW x, x = UpdateMissed(s, m, e)
    PROVE  /\ Core(x, L) /\ Refreshed(s, x, e)
           /\ FilledInv(s) => FilledInv(x)
           /\ LinkInv(s, L) => LinkInv(x, L)
           /\ (\E i \in Slots : s.items[m][i] = e) => e \in x.stale
<1>0. s \in States
  BY DEF Core
<1>1. CASE x = s /\ ~\E i \in Slots : s.items[m][i] = e
  BY <1>1 DEF Refreshed
<1>2. CASE x = [s EXCEPT !.stale = @ \cup {e}]
  <2>1. /\ x.stale = s.stale \cup {e} /\ x.private = s.private /\ x.cache = s.cache
        /\ x.pelems = s.pelems /\ x.sid = s.sid /\ x.items = s.items /\ x.caps = s.caps
        /\ x = [pelems |-> x.pelems, sid |-> x.sid, items |-> x.items, caps |-> x.caps,
                private |-> x.private, cache |-> x.cache, stale |-> x.stale]
    BY <1>0, <1>2 DEF States
  <2>2. x \in States
    BY <1>0, <2>1 DEF States
  <2>3. Refreshed(s, x, e) /\ e \in x.stale
    BY <2>1 DEF Refreshed
  <2>4. ItemsInv(x, L) /\ CapsInv(x) /\ SidInv(x)
    BY <2>1 DEF Core, ItemsInv, Placed, CapsInv, SidInv
  <2>5. (FilledInv(s) => FilledInv(x)) /\ (LinkInv(s, L) => LinkInv(x, L))
    BY <2>1 DEF FilledInv, LinkInv
  <2> QED BY <2>2, <2>3, <2>4, <2>5 DEF Core
<1> QED BY <1>1, <1>2 DEF UpdateMissed

\* remove_simple_element for INFO keeps the element, with a vacant slot for the item.
LEMMA TakenOut ==
    ASSUME NEW L \in SUBSET Elements, NEW s, Core(s, L), NEW e \in L, s.private[e] \in s.pelems,
           NEW y, y = RemoveSimple(s, e, FALSE)
    PROVE  /\ y.pelems = s.pelems /\ y.sid = s.sid
           /\ s.items[s.private[e]][Type(e.ctl)] = e =>
                  y.items[s.private[e]][Type(e.ctl)] = NoItem
<1> DEFINE m == s.private[e]
<1>0. s \in States /\ m \in Elems /\ e \in Elements /\ e.ctl \in Ctls /\ Type(e.ctl) \in Slots
  BY TypeSlot DEF Core, States, Elements
<1>1. \/ y = s /\ \A i \in Slots : s.items[m][i] # e
      \/ \E i \in Slots : /\ s.items[m][i] = e /\ \A j \in Slots : s.items[m][j] = e => i <= j
                          /\ Cut(s, y, m, i)
  BY <1>0, RemoveIs
<1>2. CASE y = s /\ \A i \in Slots : s.items[m][i] # e
  BY <1>0, <1>2
<1>3. ASSUME NEW i \in Slots, s.items[m][i] = e, \A j \in Slots : s.items[m][j] = e => i <= j,
             Cut(s, y, m, i), s.items[m][Type(e.ctl)] = e
      PROVE  y.items[m][Type(e.ctl)] = NoItem
  <2>1. y.items[m] = Left(s, m, i) /\ m \in s.pelems
    BY <1>3 DEF Cut
  <2> HIDE DEF m
  <2> SUFFICES ASSUME Left(s, m, i)[Type(e.ctl)] # NoItem PROVE FALSE
    BY <2>1
  <2>2. s.items[m][Type(e.ctl)] # e
    BY <1>0, <1>3, <2>1, LeftOthers
  <2> QED BY <1>3, <2>2
<1> QED BY <1>1, <1>2, <1>3 DEF Cut

\* What INFO leaves of a mixer state.
LEMMA RebuiltKeeps ==
    ASSUME NEW L \in SUBSET Elements, NEW s, Core(s, L), NEW e \in L, e.ctl \in scenario.ctls,
           s.private[e] \in s.pelems, value \in [Ctls -> scenario.values],
           "INFO" \in scenario.notes, NEW x \in Rebuilt(s, e)
    PROVE  /\ Core(x, L)
           /\ \A d \in Elements \ {e} : /\ x.private[d] = s.private[d] /\ x.cache[d] = s.cache[d]
                                        /\ d \in s.stale => d \in x.stale
           /\ x.private[e] # NULL
           /\ Separate /\ LinkInv(s, L) /\ (\A d \in L : d.ctl \in scenario.ctls)
              /\ (\A d \in L : d.ctl = e.ctl => d = e) =>
                  LinkInv(x, L) /\ (e \in Present => x.cache[e] = value[e.ctl])
<1>0. PICK y : y = RemoveSimple(s, e, FALSE)
  OBVIOUS
<1>1. /\ Core(y, L) /\ Unheld(y, e)
      /\ y.private = s.private /\ y.cache = s.cache /\ y.stale = s.stale
  <2>1. PICK r \in BOOLEAN : r = FALSE
    OBVIOUS
  <2>2. y = RemoveSimple(s, e, r)
    BY <1>0, <2>1
  <2> QED BY <2>2, RemoveKeeps
<1>2. /\ y.pelems = s.pelems /\ y.sid = s.sid
      /\ s.items[s.private[e]][Type(e.ctl)] = e => y.items[s.private[e]][Type(e.ctl)] = NoItem
  BY <1>0, TakenOut
<1>3. x \in AddSimple(y, e)
  BY <1>0 DEF Rebuilt
<1>4. /\ Core(x, L)
      /\ \/ x = y /\ (e \notin Present \/ (Vacant(y, e.ctl) = {} /\ y.pelems = Elems))
         \/ e \in Present /\ \E m \in x.pelems : Added(y, x, m, e)
  BY <1>1, <1>3, AddKeeps
<1>5. s.private[e] # NULL
  BY MixerConstants DEF Core, States
<1>6. CASE x = y /\ (e \notin Present \/ (Vacant(y, e.ctl) = {} /\ y.pelems = Elems))
  <2>1. ASSUME Separate, LinkInv(s, L), \A d \in L : d.ctl \in scenario.ctls,
               \A d \in L : d.ctl = e.ctl => d = e
        PROVE  LinkInv(x, L) /\ e \notin Present
    <3>1. LinkInv(y, L \ {e})
      BY <1>0, <2>1, RemoveLinks
    <3>2. s.sid[s.private[e]].name = Desc[e.ctl].name
      BY <1>5, <2>1 DEF LinkInv
    <3>3. e \notin Present
      <4> SUFFICES ASSUME e \in Present PROVE FALSE
        OBVIOUS
      <4>1. s.items[s.private[e]][Type(e.ctl)] = e
        BY <1>5, <2>1 DEF LinkInv
      <4>2. s.private[e] \in Vacant(y, e.ctl)
        BY <1>2, <3>2, <4>1 DEF Vacant, SameName
      <4> QED BY <4>2, <1>6
    <3>4. LinkInv(y, L)
      BY <3>1, <3>2, <3>3, <1>1, <1>2 DEF LinkInv
    <3> QED BY <3>3, <3>4, <1>6
  <2> QED BY <2>1, <1>1, <1>4, <1>5, <1>6
<1>7. ASSUME e \in Present, NEW m \in x.pelems, Added(y, x, m, e)
      PROVE  /\ \A d \in Elements \ {e} :
                    /\ x.private[d] = s.private[d] /\ x.cache[d] = s.cache[d]
                    /\ d \in s.stale => d \in x.stale
             /\ x.private[e] # NULL
             /\ Separate /\ LinkInv(s, L) /\ (\A d \in L : d.ctl \in scenario.ctls)
                /\ (\A d \in L : d.ctl = e.ctl => d = e) =>
                  LinkInv(x, L) /\ (e \in Present => x.cache[e] = value[e.ctl])
  <2>1. m # NULL
    BY <1>7, MixerConstants DEF Added
  <2>2. ASSUME Separate, LinkInv(s, L), \A d \in L : d.ctl \in scenario.ctls,
               \A d \in L : d.ctl = e.ctl => d = e
        PROVE  LinkInv(x, L)
    <3>1. LinkInv(y, L \ {e})
      BY <1>0, <2>2, RemoveLinks
    <3> QED BY <3>1, <2>2, <1>1, <1>7, AddLinks
  <2>3. /\ x.private[e] = m /\ x.cache[e] = value[e.ctl] /\ x.stale = y.stale \ {e}
        /\ \A d \in Elements : d # e => x.private[d] = y.private[d] /\ x.cache[d] = y.cache[d]
    BY <1>7 DEF Added
  <2> QED BY <2>1, <2>2, <2>3, <1>1
<1> QED BY <1>4, <1>6, <1>7

\* Nothing but element e is touched, ...
Aside(s, x, e) ==
    \A d \in Elements \ {e} : /\ x.private[d] = s.private[d] /\ x.cache[d] = s.cache[d]
                              /\ d \in s.stale => d \in x.stale

\* ... and it does not enter or leave the mixer either.
Besides(s, x, e) ==
    /\ Aside(s, x, e)
    /\ x.private[e] = NULL <=> s.private[e] = NULL

\* What makes the callback of e find its item.
Linked(s, L, e) ==
    /\ Separate
    /\ LinkInv(s, L)
    /\ \A d \in L : d.ctl \in scenario.ctls
    /\ \A d \in L : d.ctl = e.ctl => d = e

\* The item of e has the control's value, or its last read failed, or no event of
\* it was reported.
Refetched(s, x, e, mask) ==
    e \in Present /\ s.private[e] # NULL =>
        \/ x.cache[e] = value[e.ctl] \/ e \in x.stale
        \/ "VALUE" \notin mask /\ x.cache[e] = s.cache[e] /\ (e \in s.stale => e \in x.stale)

\* hctl_elem_event_handler for INFO and VALUE keeps the mixer in order, touches one
\* item only, and leaves it with the control's value or stale.
LEMMA ChangedKeeps ==
    ASSUME NEW L \in SUBSET Elements, NEW s, Core(s, L), NEW e \in L, e.ctl \in scenario.ctls,
           value \in [Ctls -> scenario.values],
           NEW mask, "INFO" \in mask => "INFO" \in scenario.notes, FilledInv(s),
           NEW x \in Changed(s, e, mask)
    PROVE  /\ Core(x, L) /\ FilledInv(x)
           /\ Besides(s, x, e)
           /\ Linked(s, L, e) => LinkInv(x, L) /\ Refetched(s, x, e, mask)
<1> USE DEF Besides, Aside, Linked, Refetched
<1> DEFINE m == s.private[e]
           H == Separate /\ LinkInv(s, L) /\ (\A d \in L : d.ctl \in scenario.ctls)
                /\ (\A d \in L : d.ctl = e.ctl => d = e)
<1>0. s \in States /\ e \in Elements /\ e.ctl \in Ctls /\ m \in Elems \cup {NULL} /\ s.pelems \subseteq Elems
      /\ Type(e.ctl) \in Slots
  BY TypeSlot DEF Core, States, Elements
<1>1. CASE m \notin s.pelems
  <2>1. x = s
    BY <1>1 DEF Changed
  <2>2. LinkInv(s, L) => m = NULL
    BY <1>1 DEF LinkInv
  <2> QED BY <2>1, <2>2
<1>2. CASE m \in s.pelems
  <2>0. m \in Elems /\ m # NULL
    BY <1>0, <1>2, MixerConstants
  <2>1. PICK y \in IF "INFO" \in mask THEN Rebuilt(s, e) ELSE {s} :
            IF "VALUE" \in mask
            THEN x \in {UpdateSimple(y, m, e), UpdateMissed(y, m, e)} ELSE x = y
    BY <1>2 DEF Changed
  <2>2. /\ Core(y, L) /\ FilledInv(y)
        /\ \A d \in Elements \ {e} : /\ y.private[d] = s.private[d] /\ y.cache[d] = s.cache[d]
                                     /\ d \in s.stale => d \in y.stale
        /\ y.private[e] # NULL
        /\ H => /\ LinkInv(y, L)
                /\ e \in Present => /\ "INFO" \in mask => y.cache[e] = value[e.ctl]
                                    /\ "INFO" \notin mask => y = s
    <3>1. CASE "INFO" \in mask
      <4>1. y \in Rebuilt(s, e)
        BY <2>1, <3>1
      <4>2. FilledInv(y)
        BY <3>1 DEF FilledInv
      <4> QED BY <1>2, <3>1, <4>1, <4>2, RebuiltKeeps
    <3>2. CASE "INFO" \notin mask
      BY <2>0, <2>1, <3>2
    <3> QED BY <3>1, <3>2
  <2>3. CASE "VALUE" \notin mask
    <3>1. x = y
      BY <2>1, <2>3
    <3> QED BY <2>0, <2>2, <2>3, <3>1
  <2>4. CASE "VALUE" \in mask
    <3>1. /\ Core(x, L) /\ Refreshed(y, x, e)
          /\ FilledInv(y) => FilledInv(x)
          /\ LinkInv(y, L) => LinkInv(x, L)
          /\ e \in Present /\ (\E i \in Slots : y.items[m][i] = e) =>
                 x.cache[e] = value[e.ctl] \/ e \in x.stale
      <4>1. x = UpdateSimple(y, m, e) \/ x = UpdateMissed(y, m, e)
        BY <2>1, <2>4
      <4>2. Core(y, L)
        BY <2>2
      <4>3. CASE x = UpdateSimple(y, m, e)
        <5> HIDE DEF m, H
        <5> QED BY <1>0, <2>0, <4>3, <4>2, UpdateKeeps
      <4>4. CASE x = UpdateMissed(y, m, e)
        <5> HIDE DEF m, H
        <5> QED BY <1>0, <2>0, <4>4, <4>2, MissedKeeps
      <4> QED BY <4>1, <4>3, <4>4
    <3>2. ASSUME H, e \in Present PROVE x.cache[e] = value[e.ctl] \/ e \in x.stale
      <4>1. CASE "INFO" \in mask
        BY <3>1, <3>2, <4>1, <2>2 DEF Refreshed
      <4>2. CASE "INFO" \notin mask
        <5>1. y = s /\ s.items[m][Type(e.ctl)] = e
          BY <3>2, <4>2, <2>0, <2>2 DEF LinkInv
        <5> QED BY <5>1, <3>1, <3>2, <1>0
      <4> QED BY <4>1, <4>2
    <3>3. /\ x.private = y.private
          /\ \A d \in Elements \ {e} : x.cache[d] = y.cache[d] /\ (d \in y.stale => d \in x.stale)
      BY <3>1 DEF Refreshed
    <3> QED BY <2>0, <2>2, <2>4, <3>1, <3>2, <3>3
  <2> QED BY <2>3, <2>4
<1> QED BY <1>1, <1>2

-----------------------------------------------------------------------------
(* The inductive invariant. *)

\* The inductive invariant of the mixer over the control interface.
Inv == /\ HInv
       /\ value \in [Ctls -> scenario.values]
       /\ Core(State, list)
       /\ PrivateInv(State, list, todo)
       /\ FilledInv(State)
       /\ GoalInv

\* Every step of the mixer is one of the control interface, so what has been proved
\* of those holds with the mixer's callbacks.
LEMMA NextIsHStep ==
    ASSUME [Next]_vars PROVE HStep \/ UNCHANGED hvars
<1> USE DEF HStep
<1>1. ASSUME NEW c \in Ctls, Appears(c) \/ Vanishes(c) \/ Varies(c) \/ Rearranges(c)
      PROVE  HStep
  BY <1>1 DEF Appears, Vanishes, Varies, Rearranges, KernelStep
<1>2. CASE LoadMixer \/ SubscribeMixer \/ Read
  BY <1>2 DEF LoadMixer, SubscribeMixer, Read
<1>3. CASE AddItem \/ Ignore
  BY <1>3 DEF AddItem, Ignore, HandleStep
<1>4. ASSUME NEW e \in Elements,
             AnnounceItem(e) \/ RemoveItem(e) \/ ChangeItem(e) \/ FreeItem(e)
      PROVE  HStep
  BY <1>4 DEF AnnounceItem, RemoveItem, ChangeItem, FreeItem, HandleStep, FreeStep
<1>5. ASSUME NEW step \in {"free", "close"}, FreeMixer(step) PROVE HStep
  BY <1>5 DEF FreeMixer, FreeStep
<1>6. CASE FreeDone
  BY <1>6 DEF FreeDone, FreeStep
<1>7. ASSUME NEW m \in Elems, NEW i \in Slots, NEW v \in scenario.values, SetItem(m, i, v)
      PROVE  HStep
  BY <1>7 DEF SetItem, Setting
<1>8. CASE ReadControl \/ SetFails
  BY <1>8 DEF ReadControl, SetFails, Setting
<1>9. CASE WriteControl
  <2>1. CASE queue' = queue
    BY <1>9, <2>1 DEF WriteControl, Setting, kernel
  <2>2. CASE queue' = Notified(goal.elem, "VALUE")
    <3>1. goal.elem \in Elements
      BY <1>9 DEF WriteControl, Present
    <3>2. Written(goal.elem)
      BY <1>9, <2>2 DEF WriteControl, Written
    <3> QED BY <3>1, <3>2
  <2> QED BY <1>9, <2>1, <2>2 DEF WriteControl
<1>10. CASE UNCHANGED vars
  BY <1>10 DEF vars
<1> QED BY <1>1, <1>2, <1>3, <1>4, <1>5, <1>6, <1>7, <1>8, <1>9, <1>10 DEF Next

\* What may happen in a behaviour does not change.
LEMMA ScenarioKept == ASSUME [Next]_vars PROVE scenario' = scenario
<1>1. HStep \/ UNCHANGED hvars
  BY NextIsHStep
<1> QED BY <1>1 DEF HStep, KernelStep, HandleStep, FreeStep, ControlAppears, ControlVanishes,
        ControlReports, Load, Announce, Subscribe, ReadEvent, HandleAdd, HandleFails, HandleRemove,
        HandleChange, Handled, FreeAll, FreeOne, FreeEnd, CloseEnd, Setting, Written, kernel, hvars

\* The fields of the state that the callbacks pass on.
LEMMA StateFields ==
    /\ State.pelems = pelems /\ State.sid = sid /\ State.items = items /\ State.caps = caps
    /\ State.private = private /\ State.cache = cache /\ State.stale = stale
BY DEF State

\* The state that the callbacks pass on is typed when the variables are.
LEMMA StateTyped ==
    State \in States <=>
        /\ pelems \subseteq Elems /\ sid \in [Elems -> [name : Names, index : Nat]]
        /\ items \in [Elems -> [Slots -> Elements \cup {NoItem}]]
        /\ caps \in [Elems -> SUBSET {PVOLUME, PSWITCH}]
        /\ private \in [Elements -> Elems \cup {NULL}]
        /\ cache \in [Elements -> scenario.values] /\ stale \subseteq Elements
BY DEF State, States

\* A state of the mixer that a callback leaves is the mixer's next state.
LEMMA BecomesIs ==
    ASSUME NEW x \in States, Becomes(x), scenario' = scenario
    PROVE  State' = x
<1>1. x = [pelems |-> x.pelems, sid |-> x.sid, items |-> x.items, caps |-> x.caps,
           private |-> x.private, cache |-> x.cache, stale |-> x.stale]
  BY DEF States
<1>2. State' = [pelems |-> pelems', sid |-> sid', items |-> items', caps |-> caps',
                private |-> private', cache |-> cache', stale |-> stale']
  BY DEF State
<1> QED BY <1>1, <1>2 DEF Becomes

\* What holds of the state that a callback leaves holds in the next state, ...
LEMMA CorePrime ==
    ASSUME NEW x, State' = x, NEW L, list' = L, Core(x, L), scenario' = scenario
    PROVE  Core(State, list)'
<1>1. States' = States
  BY DEF States
<1>2. (State \in States)'
  BY <1>1 DEF Core
<1>3. ItemsInv(State, list)'
  BY DEF Core, ItemsInv, Placed
<1>4. CapsInv(State)'
  BY DEF Core, CapsInv
<1>5. SidInv(State)'
  BY DEF Core, SidInv
<1> QED BY <1>2, <1>3, <1>4, <1>5 DEF Core

\* The mixer stays in order when a control element is added to the list.
LEMMA CoreGrows ==
    ASSUME NEW s, NEW L, NEW M, L \subseteq M, Core(s, L)
    PROVE  Core(s, M)
BY DEF Core, ItemsInv, Placed

\* ... and so do the other parts of the invariant.
LEMMA OthersPrime ==
    ASSUME NEW x, State' = x, NEW L, list' = L, scenario' = scenario
    PROVE  /\ PrivateInv(x, L, todo') => PrivateInv(State, list, todo)'
           /\ FilledInv(x) => FilledInv(State)'
           /\ numid' = numid /\ LinkInv(x, L) => LinkInv(State, list)'
<1>1. PrivateInv(x, L, todo') => PrivateInv(State, list, todo)'
  BY DEF PrivateInv
<1>2. FilledInv(x) => FilledInv(State)'
  BY DEF FilledInv
<1>3. numid' = numid /\ LinkInv(x, L) => LinkInv(State, list)'
  BY DEF LinkInv, Present
<1> QED BY <1>1, <1>2, <1>3

\* A step that leaves the elements alone, a set operation for one, keeps them in order.
LEMMA CoreKept ==
    ASSUME Core(State, list), FilledInv(State),
           UNCHANGED <<scenario, pelems, sid, items, caps, private>>,
           cache' \in [Elements -> scenario.values], stale' \subseteq Elements,
           list \subseteq list'
    PROVE  Core(State, list)' /\ FilledInv(State)'
<1>0. States' = States
  BY DEF States
<1>1. (State \in States)'
  BY StateTyped DEF Core, State, States
<1>f. /\ State'.pelems = State.pelems /\ State'.sid = State.sid /\ State'.items = State.items
      /\ State'.caps = State.caps /\ State'.private = State.private
  BY DEF State
<1>2. ItemsInv(State, list)'
  BY <1>f DEF Core, ItemsInv, Placed
<1>3. CapsInv(State)'
  BY <1>f DEF Core, CapsInv
<1>4. SidInv(State)'
  BY <1>f DEF Core, SidInv
<1>5. FilledInv(State)'
  BY <1>f DEF FilledInv
<1> QED BY <1>1, <1>2, <1>3, <1>4, <1>5 DEF Core

\* A control element without private_data is in no slot.
LEMMA NullUnheld ==
    ASSUME NEW s, NEW L \in SUBSET Elements, Core(s, L), NEW e \in Elements, s.private[e] = NULL
    PROVE  Unheld(s, e)
<1> SUFFICES ASSUME NEW m \in s.pelems, NEW i \in Slots, s.items[m][i] = e PROVE FALSE
  BY DEF Unheld
<1>1. Placed(s, L, m, i, e)
  BY NotNoItem DEF Core, ItemsInv
<1> QED BY <1>1, MixerConstants DEF Placed, Core, States

\* The list holds at most one element of each control, and only of those that the
\* device may have.
LEMMA ListTyped ==
    ASSUME HInv
    PROVE  /\ list \in SUBSET Elements /\ todo \subseteq list
           /\ \A e \in list : e \in Elements /\ e.ctl \in scenario.ctls
           /\ \A d, e \in list : d.ctl = e.ctl => d = e
           /\ 0 \in scenario.values
BY HControlConstants DEF HInv, HTypeOK, KnownInv, Known, StepInv

\* The mixer's part of the invariant when a callback leaves x.
MInv(x, L, T) == Core(x, L) /\ PrivateInv(x, L, T) /\ FilledInv(x)

\* hctl_event_handler for ADD of an element that is not in the mixer.
LEMMA AddStep ==
    ASSUME Inv, NEW e \in Elements, e.ctl \in scenario.ctls, private[e] = NULL,
           NEW L, L = list \cup {e}, NEW T, T \subseteq todo, e \notin T,
           NEW x \in AddSimple(State, e)
    PROVE  MInv(x, L, T)
<1>1. L \in SUBSET Elements /\ Core(State, L)
  BY CoreGrows, ListTyped DEF Inv
<1>2. Unheld(State, e)
  BY <1>1, NullUnheld, StateFields
<1>3. /\ Core(x, L)
      /\ \/ x = State
         \/ \E m \in x.pelems : Added(State, x, m, e)
  BY <1>1, <1>2, AddKeeps DEF Inv
<1>4. FilledInv(x)
  BY <1>3, AddFills DEF Inv
<1>5. PrivateInv(x, L, T)
  <2>1. \A d \in Elements : d # e => x.private[d] = State.private[d]
    BY <1>3 DEF Added
  <2> QED BY <2>1 DEF Inv, PrivateInv
<1> QED BY <1>3, <1>4, <1>5 DEF MInv

\* snd_hctl_elem_remove
LEMMA RemoveStep ==
    ASSUME Inv, NEW e \in list, todo = {}, NEW x, x = Removed(State, e)
    PROVE  MInv(x, list \ {e}, {})
<1>1. /\ Core(x, list \ {e}) /\ Forgotten(State, x, e)
      /\ FilledInv(State) => FilledInv(x)
  BY ListTyped, RemovedKeeps DEF Inv
<1>2. PrivateInv(x, list \ {e}, {})
  BY <1>1 DEF Forgotten, Inv, PrivateInv
<1> QED BY <1>1, <1>2 DEF Inv, MInv

\* hctl_elem_event_handler for INFO and VALUE
LEMMA ChangeStep ==
    ASSUME Inv, pc = "event", NEW e \in list, NEW x \in Changed(State, e, event.mask)
    PROVE  MInv(x, list, {})
<1>0. "INFO" \in event.mask => "INFO" \in scenario.notes
  BY DEF Inv, HInv, KnownInv
<1>1. /\ Core(x, list) /\ FilledInv(x)
      /\ \A d \in Elements \ {e} : x.private[d] = State.private[d]
  <2>1. /\ Core(State, list) /\ FilledInv(State) /\ value \in [Ctls -> scenario.values]
        /\ list \in SUBSET Elements /\ e.ctl \in scenario.ctls
    BY ListTyped DEF Inv
  <2>2. PICK s : s = State
    OBVIOUS
  <2>3. PICK mask : mask = event.mask
    OBVIOUS
  <2>4. x \in Changed(s, e, mask) /\ Core(s, list) /\ FilledInv(s)
    BY <2>1, <2>2, <2>3
  <2>5. Core(x, list) /\ FilledInv(x) /\ Besides(s, x, e)
    BY <1>0, <2>1, <2>3, <2>4, ChangedKeeps
  <2> QED BY <2>2, <2>5 DEF Besides, Aside
<1>2. PrivateInv(x, list, {})
  BY <1>1 DEF Inv, PrivateInv
<1> QED BY <1>1, <1>2 DEF MInv

\* A step whose callback leaves the mixer in order keeps the invariant.
LEMMA MInvPrime ==
    ASSUME Inv, HInv', NEW x, Becomes(x), NEW L, list' = L, MInv(x, L, todo'),
           scenario' = scenario, value' = value, pc' \notin {"set.read", "set.write"}
    PROVE  Inv' /\ State' = x
<1>1. x \in States
  BY DEF MInv, Core
<1>2. State' = x
  BY <1>1, BecomesIs
<1>3. Core(State, list)'
  BY <1>2, CorePrime DEF MInv
<1>4. PrivateInv(State, list, todo)' /\ FilledInv(State)'
  BY <1>2, OthersPrime DEF MInv
<1>5. GoalInv' /\ (value \in [Ctls -> scenario.values])'
  BY DEF Inv, GoalInv
<1> QED BY <1>2, <1>3, <1>4, <1>5 DEF Inv

\* Every step keeps the invariant.
LEMMA InvStep ==
    ASSUME Inv, [Next]_vars PROVE Inv'
<1>h. HInv' /\ scenario' = scenario
  BY NextIsHStep, HStepKeeps, ScenarioKept, HControlConstants DEF Inv
<1>t. State \in States
  BY DEF Inv, Core
\* Steps that leave list and mixer alone.
<1>1. ASSUME UNCHANGED <<list, todo, pelems, sid, items, caps, private, cache, stale, goal>>,
             value' \in [Ctls -> scenario.values],
             pc' \in {"set.read", "set.write"} => pc \in {"set.read", "set.write"}
      PROVE  Inv'
  <2>1. cache \in [Elements -> scenario.values] /\ stale \subseteq Elements
    BY <1>t, StateTyped
  <2>2. Core(State, list)' /\ FilledInv(State)'
    BY <1>1, <1>h, <2>1, CoreKept DEF Inv
  <2>3. State' = State
    BY <1>1 DEF State
  <2>4. PrivateInv(State, list, todo)'
    BY <1>1, <2>3 DEF Inv, PrivateInv
  <2>5. GoalInv'
    BY <1>1, <1>h DEF Inv, GoalInv
  <2> QED BY <1>1, <1>h, <2>2, <2>4, <2>5 DEF Inv
<1>v. value \in [Ctls -> scenario.values]
  BY DEF Inv
<1>2. ASSUME NEW c \in Ctls, Appears(c) \/ Vanishes(c) \/ Rearranges(c) PROVE Inv'
  BY <1>1, <1>2, <1>v DEF Appears, Vanishes, Rearranges, ControlAppears, ControlVanishes,
     ControlReports, mvars
<1>3. ASSUME NEW c \in Ctls, Varies(c) PROVE Inv'
  BY <1>1, <1>3, <1>v DEF Varies, ControlReports
<1>4. CASE SubscribeMixer \/ Read \/ Ignore \/ FreeDone \/ ReadControl \/ UNCHANGED vars
  BY <1>1, <1>4, <1>v DEF SubscribeMixer, Read, Ignore, FreeDone, ReadControl, vars, hvars, mvars,
     Subscribe, ReadEvent, HandleFails, Handled, FreeEnd, CloseEnd
<1>5. ASSUME NEW step \in {"free", "close"}, FreeMixer(step) PROVE Inv'
  BY <1>1, <1>5, <1>v DEF FreeMixer, FreeAll, mvars
<1>6. CASE LoadMixer
  <2>0. /\ UNCHANGED <<pelems, sid, items, caps, private, cache, stale, value, goal>>
        /\ list = {} /\ list' = Present /\ todo' = Present /\ pc' = "load"
    BY <1>6 DEF LoadMixer, Load, mvars
  <2>1. cache \in [Elements -> scenario.values] /\ stale \subseteq Elements
    BY <1>t, StateTyped
  <2>2. Core(State, list)' /\ FilledInv(State)'
    BY <1>h, <2>0, <2>1, CoreKept DEF Inv
  <2>3. State' = State
    BY <2>0 DEF State
  <2>4. PrivateInv(State, list, todo)'
    BY <2>0, <2>3 DEF Inv, PrivateInv
  <2>5. GoalInv' /\ (value \in [Ctls -> scenario.values])'
    BY <2>0, <1>h, <1>v DEF GoalInv
  <2> QED BY <1>h, <2>2, <2>4, <2>5 DEF Inv
<1>7. ASSUME NEW e \in Elements, AnnounceItem(e) PROVE Inv'
  <2>0. e \in todo /\ todo' = todo \ {e} /\ UNCHANGED <<list, value>> /\ pc' = "load"
    BY <1>7 DEF AnnounceItem, Announce
  <2>1. PICK x \in AddSimple(State, e) : Becomes(x)
    BY <1>7 DEF AnnounceItem
  <2>2. e.ctl \in scenario.ctls /\ private[e] = NULL /\ list = list \cup {e}
    BY <2>0, ListTyped, StateFields DEF Inv, PrivateInv
  <2>3. MInv(x, list, todo')
    BY <2>0, <2>2, AddStep
  <2> QED BY <1>h, <2>0, <2>1, <2>3, MInvPrime
<1>8. CASE AddItem
  <2> DEFINE e == event.elem
  <2>0. /\ pc = "event" /\ list' = list \cup {e} /\ UNCHANGED <<todo, value>> /\ pc' = "idle"
        /\ Found(e.ctl) = {}
    BY <1>8 DEF AddItem, HandleAdd, Handled
  <2>1. PICK x \in AddSimple(State, e) : Becomes(x)
    BY <1>8 DEF AddItem
  <2>2. e \in Elements /\ e.ctl \in scenario.ctls /\ todo = {} /\ e \notin list
    BY <2>0 DEF Inv, HInv, HTypeOK, Entries, KnownInv, Known, StepInv, Found
  <2>3. private[e] = NULL
    BY <2>2, StateFields DEF Inv, PrivateInv
  <2> HIDE DEF e
  <2>4. MInv(x, list', todo')
    BY <2>0, <2>2, <2>3, AddStep
  <2> QED BY <1>h, <2>0, <2>1, <2>4, MInvPrime
<1>9. ASSUME NEW e \in Elements, RemoveItem(e) \/ FreeItem(e) PROVE Inv'
  <2>0. /\ e \in list /\ list' = list \ {e} /\ UNCHANGED <<todo, value>>
        /\ pc \in {"event", "free", "close"} /\ pc' \in {"idle", "free", "close"}
        /\ Becomes(Removed(State, e))
    BY <1>9 DEF RemoveItem, FreeItem, HandleRemove, Handled, Found, First, FreeOne
  <2>1. todo = {} /\ todo' = {}
    BY <2>0 DEF Inv, HInv, StepInv
  <2>2. MInv(Removed(State, e), list \ {e}, {})
    BY <2>0, <2>1, RemoveStep
  <2> QED BY <1>h, <2>0, <2>1, <2>2, MInvPrime
<1>10. ASSUME NEW e \in Elements, ChangeItem(e) PROVE Inv'
  <2>0. /\ e \in list /\ UNCHANGED <<list, todo, value>> /\ pc = "event" /\ pc' = "idle"
    BY <1>10 DEF ChangeItem, HandleChange, Handled, Found, First
  <2>1. PICK x \in Changed(State, e, event.mask) : Becomes(x)
    BY <1>10 DEF ChangeItem
  <2>2. todo' = {}
    BY <2>0 DEF Inv, HInv, StepInv
  <2>3. MInv(x, list, {})
    BY <2>0, ChangeStep
  <2> QED BY <1>h, <2>0, <2>1, <2>2, <2>3, MInvPrime
\* Steps of a set operation: only the cached values and their state change.
<1>11. ASSUME UNCHANGED <<list, todo, pelems, sid, items, caps, private>>,
              cache' \in [Elements -> scenario.values], stale' \subseteq Elements,
              value' \in [Ctls -> scenario.values], GoalInv'
       PROVE  Inv'
  <2>2. Core(State, list)' /\ FilledInv(State)'
    BY <1>11, <1>h, CoreKept DEF Inv
  <2>3. State'.private = State.private
    BY <1>11 DEF State
  <2>4. PrivateInv(State, list, todo)'
    BY <1>11, <2>3 DEF Inv, PrivateInv
  <2> QED BY <1>11, <1>h, <2>2, <2>4 DEF Inv
<1>c. cache \in [Elements -> scenario.values] /\ stale \subseteq Elements
  BY <1>t, StateTyped
<1>12. ASSUME NEW m \in Elems, NEW i \in Slots, NEW v \in scenario.values, SetItem(m, i, v)
       PROVE  Inv'
  <2>0. /\ UNCHANGED <<list, todo, pelems, sid, items, caps, private, stale, value>>
        /\ m \in pelems /\ items[m][i] # NoItem
        /\ cache' = [cache EXCEPT ![items[m][i]] = v]
        /\ goal' = [elem |-> items[m][i], val |-> v]
    BY <1>12 DEF SetItem
  <2>1. items[m][i] \in list
    BY <2>0, StateFields DEF Inv, Core, ItemsInv, Placed
  <2>2. items[m][i] \in Elements
    BY <2>1, ListTyped DEF Inv
  <2>3. GoalInv'
    BY <1>c, <1>h, <2>0, <2>1, <2>2 DEF GoalInv
  <2> QED BY <1>11, <1>c, <1>h, <1>v, <2>0, <2>2, <2>3
<1>13. CASE WriteControl
  <2>0. /\ UNCHANGED <<list, todo, pelems, sid, items, caps, private, cache>>
        /\ value' = [value EXCEPT ![goal.elem.ctl] = goal.val]
        /\ stale' = stale \ {goal.elem} /\ pc = "set.write" /\ pc' = "idle"
    BY <1>13 DEF WriteControl
  <2>1. goal.val \in scenario.values
    BY <2>0 DEF Inv, GoalInv
  <2>2. GoalInv'
    BY <2>0 DEF GoalInv
  <2> QED BY <1>11, <1>c, <1>v, <2>0, <2>1, <2>2
<1>14. CASE SetFails
  <2>0. /\ UNCHANGED <<list, todo, pelems, sid, items, caps, private, cache, value>>
        /\ stale' = stale \cup {goal.elem} /\ pc \in {"set.read", "set.write"} /\ pc' = "idle"
    BY <1>14 DEF SetFails
  <2>1. goal.elem \in Elements
    BY <2>0, ListTyped DEF Inv, GoalInv
  <2>2. GoalInv'
    BY <2>0 DEF GoalInv
  <2> QED BY <1>11, <1>c, <1>v, <2>0, <2>1, <2>2
<1> QED BY <1>2, <1>3, <1>4, <1>5, <1>6, <1>7, <1>8, <1>9, <1>10, <1>12, <1>13, <1>14 DEF Next

\* The invariant holds of a mixer that has just been opened.
LEMMA InvInitial ==
    ASSUME Init PROVE Inv
<1>1. HInv
  BY HInitial, HControlConstants DEF Init
<1>2. 0 \in scenario.values
  BY <1>1, ListTyped
<1>3. State \in States
  <2>1. NoItems \in [Slots -> Elements \cup {NoItem}]
    BY DEF NoItems
  <2>2. sid \in [Elems -> [name : Names, index : Nat]]
    BY DEF Init, Names
  <2> QED BY <1>2, <2>1, <2>2, StateTyped DEF Init
<1>4. State.pelems = {} /\ State.private = [e \in Elements |-> NULL]
  BY StateFields DEF Init
<1>5. Core(State, list) /\ FilledInv(State)
  BY <1>3, <1>4 DEF Core, ItemsInv, CapsInv, SidInv, FilledInv
<1>6. PrivateInv(State, list, todo)
  BY <1>4 DEF PrivateInv
<1>7. GoalInv /\ value \in [Ctls -> scenario.values]
  BY <1>2 DEF Init, HInit, GoalInv
<1> QED BY <1>1, <1>5, <1>6, <1>7 DEF Inv

-----------------------------------------------------------------------------
(* Controls that share an element do not get into each other's way. *)

\* A control element that exists after a step and was in the list existed before.
LEMMA PresentBefore ==
    ASSUME Inv, [Next]_vars, NEW e \in list, e \in Present'
    PROVE  e \in Present
<1>0. e \in Elements /\ e.ctl \in Ctls /\ e.numid \in 1..MaxNumid /\ e.numid <= last
      /\ last \in Nat /\ numid \in [Ctls -> 0..MaxNumid]
  BY DEF Inv, HInv, HTypeOK, KnownInv, Known, Elements
<1>1. numid'[e.ctl] = e.numid
  BY DEF Present
<1>2. CASE numid' = numid
  BY <1>0, <1>1, <1>2 DEF Present
<1>3. ASSUME NEW c \in Ctls, ControlAppears(c) PROVE e \in Present
  <2>1. numid' = [numid EXCEPT ![c] = last + 1]
    BY <1>3 DEF ControlAppears
  <2>2. c # e.ctl
    BY <1>0, <1>1, <2>1
  <2> QED BY <1>0, <1>1, <2>1, <2>2 DEF Present
<1>4. ASSUME NEW c \in Ctls, ControlVanishes(c) PROVE e \in Present
  <2>1. numid' = [numid EXCEPT ![c] = 0]
    BY <1>4 DEF ControlVanishes
  <2>2. c # e.ctl
    BY <1>0, <1>1, <2>1
  <2> QED BY <1>0, <1>1, <2>1, <2>2 DEF Present
<1>5. \/ numid' = numid
      \/ \E c \in Ctls : ControlAppears(c) \/ ControlVanishes(c)
  <2>1. HStep \/ UNCHANGED hvars
    BY NextIsHStep
  <2> QED BY <2>1 DEF HStep, KernelStep, HandleStep, FreeStep,
        ControlReports, Load, Announce, Subscribe, ReadEvent, HandleAdd, HandleFails, HandleRemove,
        HandleChange, Handled, FreeAll, FreeOne, FreeEnd, CloseEnd, Setting, Written, kernel, hvars
<1> QED BY <1>2, <1>3, <1>4, <1>5

\* What hctl_event_handler leaves for ADD.
LEMMA AddResult ==
    ASSUME Inv, NEW e \in Elements, e.ctl \in scenario.ctls, private[e] = NULL,
           NEW L, L = list \cup {e}, \A d \in L : d.ctl = e.ctl => d = e,
           NEW x \in AddSimple(State, e)
    PROVE  /\ Separate /\ LinkInv(State, list) => LinkInv(x, L)
           /\ Aside(State, x, e)
           /\ e \in Present /\ pelems # Elems => x.private[e] # NULL /\ x.cache[e] = value[e.ctl]
<1> USE DEF Aside
<1>1. /\ L \in SUBSET Elements /\ Core(State, L) /\ \A d \in L : d.ctl \in scenario.ctls
  BY CoreGrows, ListTyped DEF Inv
<1>2. Unheld(State, e)
  BY <1>1, NullUnheld, StateFields
<1>3. /\ Core(x, L)
      /\ \/ x = State /\ (e \notin Present \/ State.pelems = Elems)
         \/ \E m \in x.pelems : Added(State, x, m, e)
  BY <1>1, <1>2, AddKeeps DEF Inv
<1>4. CASE x = State /\ (e \notin Present \/ State.pelems = Elems)
  <2>1. LinkInv(State, list) => LinkInv(x, L)
    BY <1>4, StateFields DEF LinkInv
  <2> QED BY <2>1, <1>4, StateFields
<1>5. ASSUME NEW m \in x.pelems, Added(State, x, m, e)
      PROVE  /\ Separate /\ LinkInv(State, list) => LinkInv(x, L)
             /\ \A d \in Elements \ {e} : /\ x.private[d] = private[d] /\ x.cache[d] = cache[d]
                                          /\ d \in stale => d \in x.stale
             /\ x.private[e] # NULL /\ x.cache[e] = value[e.ctl]
  <2>1. ASSUME Separate, LinkInv(State, list) PROVE LinkInv(x, L)
    <3>1. LinkInv(State, L \ {e})
      BY <2>1 DEF LinkInv
    <3> QED BY <3>1, <2>1, <1>1, <1>5, AddLinks
  <2>2. m # NULL
    BY <1>5, MixerConstants DEF Added
  <2>3. /\ \A d \in Elements \ {e} : /\ x.private[d] = private[d] /\ x.cache[d] = cache[d]
                                     /\ d \in stale => d \in x.stale
        /\ x.private[e] = m /\ x.cache[e] = value[e.ctl]
    BY <1>5, StateFields DEF Added
  <2> QED BY <2>1, <2>2, <2>3
<1> QED BY <1>3, <1>4, <1>5, StateFields

\* What hctl_elem_event_handler leaves for INFO and VALUE.
LEMMA ChangeResult ==
    ASSUME Inv, pc = "event", NEW e \in list, NEW x \in Changed(State, e, event.mask)
    PROVE  /\ Besides(State, x, e)
           /\ Separate /\ LinkInv(State, list) =>
                  LinkInv(x, list) /\ Refetched(State, x, e, event.mask)
<1>0. "INFO" \in event.mask => "INFO" \in scenario.notes
  BY DEF Inv, HInv, KnownInv
<1>1. /\ Core(State, list) /\ FilledInv(State) /\ value \in [Ctls -> scenario.values]
      /\ list \in SUBSET Elements /\ e.ctl \in scenario.ctls
  BY ListTyped DEF Inv
<1>2. PICK s : s = State
  OBVIOUS
<1>3. PICK mask : mask = event.mask
  OBVIOUS
<1>4. x \in Changed(s, e, mask) /\ Core(s, list) /\ FilledInv(s)
  BY <1>1, <1>2, <1>3
<1>5. /\ Besides(s, x, e)
      /\ Linked(s, list, e) => LinkInv(x, list) /\ Refetched(s, x, e, mask)
  BY <1>0, <1>1, <1>3, <1>4, ChangedKeeps
<1>6. Separate /\ LinkInv(s, list) => Linked(s, list, e)
  BY ListTyped DEF Linked, Inv
<1> QED BY <1>2, <1>3, <1>5, <1>6, StateFields

\* Where controls do not take each other's slots, every step leaves each control
\* element connected to the element that holds its item.
LEMMA LinkStep ==
    ASSUME Inv, Inv', [Next]_vars, Separate, LinkInv(State, list)
    PROVE  LinkInv(State, list)'
<1>s. scenario' = scenario
  BY ScenarioKept
<1>l. /\ \A e \in list : e \in Elements /\ e.ctl \in scenario.ctls
      /\ \A d, e \in list : d.ctl = e.ctl => d = e
      /\ list \in SUBSET Elements /\ 0 \in scenario.values
  BY ListTyped DEF Inv
<1>1. ASSUME list' \subseteq list, UNCHANGED <<pelems, sid, items, private>>
      PROVE  LinkInv(State, list)'
  <2>1. \A e \in list' : e \in Present' => e \in Present
    BY <1>1, PresentBefore
  <2>2. \A e \in list : private[e] # NULL =>
            /\ private[e] \in pelems
            /\ sid[private[e]].name = Desc[e.ctl].name
            /\ ("INFO" \notin scenario.notes \/ e \in Present) =>
                   items[private[e]][Type(e.ctl)] = e
    BY StateFields DEF LinkInv
  <2>3. \A e \in list' : private'[e] # NULL =>
            /\ private'[e] \in pelems'
            /\ sid'[private'[e]].name = Desc[e.ctl].name
            /\ ("INFO" \notin scenario'.notes \/ e \in Present') =>
                   items'[private'[e]][Type(e.ctl)] = e
    BY <1>1, <1>s, <2>1, <2>2
  <2>4. /\ State'.private = private' /\ State'.pelems = pelems' /\ State'.sid = sid'
        /\ State'.items = items'
    BY DEF State
  <2> QED BY <2>3, <2>4 DEF LinkInv
<1>k. ASSUME NEW c \in Ctls, Appears(c) \/ Vanishes(c) \/ Rearranges(c) \/ Varies(c)
      PROVE  LinkInv(State, list)'
  BY <1>1, <1>k DEF Appears, Vanishes, Rearranges, Varies, ControlAppears, ControlVanishes,
     ControlReports, mvars
<1>4. CASE SubscribeMixer \/ Read \/ Ignore \/ FreeDone \/ ReadControl \/ UNCHANGED vars
  BY <1>1, <1>4 DEF SubscribeMixer, Read, Ignore, FreeDone, ReadControl, vars, hvars, mvars,
     Subscribe, ReadEvent, HandleFails, Handled, FreeEnd, CloseEnd
<1>5. ASSUME NEW step \in {"free", "close"}, FreeMixer(step) PROVE LinkInv(State, list)'
  BY <1>1, <1>5 DEF FreeMixer, FreeAll, mvars
<1>6. CASE LoadMixer
  <2>1. list' = Present /\ todo' = Present /\ Present \subseteq Elements
    BY <1>6 DEF LoadMixer, Load, Present
  <2>2. PrivateInv(State, list, todo)'
    BY DEF Inv
  <2>3. \A e \in list' : State'.private[e] = NULL
    BY <2>1, <2>2 DEF PrivateInv
  <2> QED BY <2>3 DEF LinkInv
<1>p. ASSUME NEW x, Becomes(x), LinkInv(x, list'), numid' = numid, x \in States
      PROVE  LinkInv(State, list)'
  <2>1. State' = x
    BY <1>p, <1>s, BecomesIs
  <2> QED BY <2>1, <1>p, <1>s, OthersPrime
<1>7. ASSUME NEW e \in Elements, AnnounceItem(e) PROVE LinkInv(State, list)'
  <2>0. e \in todo /\ todo' = todo \ {e} /\ UNCHANGED <<list, numid>> /\ pc = "load"
    BY <1>7 DEF AnnounceItem, Announce, kernel
  <2>1. PICK x \in AddSimple(State, e) : Becomes(x)
    BY <1>7 DEF AnnounceItem
  <2>2. e \in list /\ e.ctl \in scenario.ctls /\ private[e] = NULL /\ list = list \cup {e}
    BY <2>0, ListTyped, StateFields DEF Inv, PrivateInv
  <2>3. MInv(x, list, todo \ {e})
    BY <2>2, AddStep
  <2>4. LinkInv(x, list)
    BY <1>l, <2>2, AddResult
  <2> QED BY <1>p, <2>0, <2>1, <2>3, <2>4 DEF MInv, Core
<1>8. CASE AddItem
  <2> DEFINE e == event.elem
  <2>0. /\ pc = "event" /\ list' = list \cup {e} /\ UNCHANGED <<numid>>
        /\ Found(e.ctl) = {}
    BY <1>8 DEF AddItem, HandleAdd, Handled, kernel
  <2>1. PICK x \in AddSimple(State, e) : Becomes(x)
    BY <1>8 DEF AddItem
  <2>2. e \in Elements /\ e.ctl \in scenario.ctls /\ todo = {} /\ e \notin list
    BY <2>0 DEF Inv, HInv, HTypeOK, Entries, KnownInv, Known, StepInv, Found
  <2>3. private[e] = NULL /\ \A d \in list' : d.ctl = e.ctl => d = e
    BY <2>0, <2>2, StateFields DEF Inv, PrivateInv, Found
  <2> HIDE DEF e
  <2>4. MInv(x, list', {})
    BY <2>0, <2>2, <2>3, AddStep
  <2>5. LinkInv(x, list')
    BY <2>0, <2>2, <2>3, AddResult
  <2> QED BY <1>p, <2>0, <2>1, <2>4, <2>5 DEF MInv, Core
<1>9. ASSUME NEW e \in Elements, RemoveItem(e) \/ FreeItem(e) PROVE LinkInv(State, list)'
  <2>0. /\ e \in list /\ list' = list \ {e} /\ UNCHANGED <<numid>>
        /\ Becomes(Removed(State, e))
    BY <1>9 DEF RemoveItem, FreeItem, HandleRemove, Handled, Found, First, FreeOne, kernel
  <2>1. PICK x : x = Removed(State, e)
    OBVIOUS
  <2>2. Core(x, list \ {e}) /\ LinkInv(x, list \ {e})
    BY <1>l, <2>0, <2>1, RemovedKeeps DEF Inv
  <2> QED BY <1>p, <2>0, <2>1, <2>2 DEF Core
<1>10. ASSUME NEW e \in Elements, ChangeItem(e) PROVE LinkInv(State, list)'
  <2>0. /\ e \in list /\ UNCHANGED <<list, numid>> /\ pc = "event" /\ pc' = "idle"
    BY <1>10 DEF ChangeItem, HandleChange, Handled, Found, First, kernel
  <2>1. PICK x \in Changed(State, e, event.mask) : Becomes(x)
    BY <1>10 DEF ChangeItem
  <2>2. MInv(x, list, {})
    BY <2>0, ChangeStep
  <2>3. LinkInv(x, list)
    BY <2>0, ChangeResult
  <2> QED BY <1>p, <2>0, <2>1, <2>2, <2>3 DEF MInv, Core
<1>11. ASSUME NEW m \in Elems, NEW i \in Slots, NEW v \in scenario.values, SetItem(m, i, v)
       PROVE  LinkInv(State, list)'
  BY <1>1, <1>11 DEF SetItem
<1>12. CASE WriteControl \/ SetFails
  BY <1>1, <1>12 DEF WriteControl, SetFails
<1> QED BY <1>k, <1>4, <1>5, <1>6, <1>7, <1>8, <1>9, <1>10, <1>11, <1>12 DEF Next

\* Another event leaves a VALUE that is waiting for element e in the queue.
LEMMA WaitingKept ==
    ASSUME HTypeOK, subscribed, NEW e \in Elements, NEW d \in Elements, NEW m \in Bits,
           m = "REMOVE" => d # e, NEW i \in DOMAIN queue, queue[i].elem = e,
           "VALUE" \in queue[i].mask
    PROVE  \E j \in DOMAIN Notified(d, m) : /\ Notified(d, m)[j].elem = e
                                            /\ "VALUE" \in Notified(d, m)[j].mask
<1>1. CASE \E x \in DOMAIN queue : queue[x].elem = d
  <2>1. /\ DOMAIN Notified(d, m) = DOMAIN queue
        /\ Notified(d, m)[i].elem = queue[i].elem
        /\ Notified(d, m)[i].mask = IF queue[i].elem = d THEN Merged(queue[i].mask, m)
                                    ELSE queue[i].mask
    BY <1>1, NotifiedMerged
  <2>2. queue[i].mask \in Masks /\ queue[i].mask # {"REMOVE"}
    BY QueueTyped
  <2>3. m # "REMOVE" => Merged(queue[i].mask, m) = queue[i].mask \cup {m}
    BY <2>2, MergedMask
  <2>4. "VALUE" \in Notified(d, m)[i].mask
    BY <2>1, <2>3
  <2> QED BY <2>1, <2>4
<1>2. CASE \A x \in DOMAIN queue : queue[x].elem # d
  BY <1>2, NotifiedAppended
<1> QED BY <1>1, <1>2

\* A VALUE event of an element that has not been removed waits in the queue.
LEMMA ValueWaits ==
    ASSUME HTypeOK, subscribed, NEW e \in Elements, NEW m \in Bits, m = "VALUE",
           \A i \in DOMAIN queue : queue[i].elem = e => queue[i].mask # {"REMOVE"}
    PROVE  \E j \in DOMAIN Notified(e, m) : /\ Notified(e, m)[j].elem = e
                                            /\ "VALUE" \in Notified(e, m)[j].mask
<1>1. ASSUME NEW x \in DOMAIN queue, queue[x].elem = e
      PROVE  \E j \in DOMAIN Notified(e, m) : /\ Notified(e, m)[j].elem = e
                                              /\ "VALUE" \in Notified(e, m)[j].mask
  <2>1. /\ DOMAIN Notified(e, m) = DOMAIN queue
        /\ Notified(e, m)[x].elem = queue[x].elem
        /\ Notified(e, m)[x].mask = Merged(queue[x].mask, m)
    BY <1>1, NotifiedMerged
  <2>2. queue[x].mask \in Masks /\ queue[x].mask # {"REMOVE"}
    BY <1>1, QueueTyped
  <2>3. Merged(queue[x].mask, m) = queue[x].mask \cup {m}
    BY <2>2, MergedMask
  <2> QED BY <1>1, <2>1, <2>3
<1>2. CASE \A x \in DOMAIN queue : queue[x].elem # e
  <2>1. /\ Len(queue) + 1 \in DOMAIN Notified(e, m)
        /\ Notified(e, m)[Len(queue) + 1].elem = e
        /\ Notified(e, m)[Len(queue) + 1].mask = {m}
    BY <1>2, NotifiedAppended
  <2> QED BY <2>1
<1> QED BY <1>1, <1>2

\* An event of control d that is not its removal, or d is not e, leaves e pending.
LEMMA PendingKept ==
    ASSUME HTypeOK, subscribed, NEW e \in Elements, NEW d \in Elements, NEW m \in Bits,
           m = "REMOVE" => d # e, queue' = Notified(d, m), UNCHANGED <<pc, event, goal>>,
           Pending(e)
    PROVE  Pending(e)'
<1>1. CASE \E i \in DOMAIN queue : queue[i].elem = e /\ "VALUE" \in queue[i].mask
  <2>1. \E j \in DOMAIN Notified(d, m) : /\ Notified(d, m)[j].elem = e
                                         /\ "VALUE" \in Notified(d, m)[j].mask
    BY <1>1, WaitingKept
  <2> QED BY <2>1 DEF Pending
<1>2. CASE ~\E i \in DOMAIN queue : queue[i].elem = e /\ "VALUE" \in queue[i].mask
  BY <1>2 DEF Pending
<1> QED BY <1>1, <1>2

\* Every control that comes, goes or changes is still reflected by its item, or
\* an event that makes it so is on its way.
LEMMA KernelReflects ==
    ASSUME Inv, [Next]_vars, ReflectInv, NEW c \in Ctls,
           Appears(c) \/ Vanishes(c) \/ Rearranges(c) \/ Varies(c),
           NEW e \in list \ todo, e \in Present'
    PROVE  Reflects(e)'
<1>0. /\ HTypeOK /\ e \in Elements /\ e \in list /\ e.ctl \in Ctls /\ e.numid # 0
      /\ numid \in [Ctls -> 0..MaxNumid] /\ value \in [Ctls -> scenario.values]
  BY DEF Inv, HInv, HTypeOK, Elements
<1>1. e \in Present /\ Reflects(e)
  BY PresentBefore DEF ReflectInv
<1>2. numid[e.ctl] = e.numid /\ numid'[e.ctl] = e.numid
  BY <1>1 DEF Present
<1>3. /\ UNCHANGED <<private, cache, stale, pc, event, goal>>
      /\ synced' = Reported
  BY DEF Appears, Vanishes, Rearranges, Varies, ControlAppears, ControlVanishes,
     ControlReports, mvars
<1>4. private'[e] # NULL
  BY <1>1, <1>3 DEF Reflects
<1>5. SUFFICES ASSUME synced', Alone(e.ctl) PROVE (e \in stale \/ cache[e] = value[e.ctl] \/ Pending(e))'
  BY <1>4 DEF Reflects
<1>6. synced /\ subscribed
  BY <1>3, <1>5 DEF Reported, Inv, HInv, StepInv
<1>7. e \in stale \/ cache[e] = value[e.ctl] \/ Pending(e)
  BY <1>1, <1>5, <1>6 DEF Reflects
<1>8. ASSUME NEW d \in Elements, NEW m \in Bits, m = "REMOVE" => d # e,
             queue' = Notified(d, m), value' = value
      PROVE  (e \in stale \/ cache[e] = value[e.ctl] \/ Pending(e))'
  <2>1. Pending(e) => Pending(e)'
    BY <1>0, <1>3, <1>6, <1>8, PendingKept
  <2> QED BY <2>1, <1>3, <1>7, <1>8
<1>9. CASE Appears(c)
  <2>1. PICK d : d = [ctl |-> c, numid |-> last + 1]
    OBVIOUS
  <2>2. last + 1 \in 1..MaxNumid
    BY <1>9, HControlConstants DEF Appears, ControlAppears, Inv, HInv, HTypeOK
  <2>3. d \in Elements /\ queue' = Notified(d, "ADD") /\ value' = value
    BY <1>9, <2>1, <2>2, ElementOf DEF Appears, ControlAppears, mvars
  <2> QED BY <1>8, <2>3, AllBits
<1>10. ASSUME numid[c] # 0
       PROVE  \E d \in Elements : d = [ctl |-> c, numid |-> numid[c]] /\ d.ctl = c
                                  /\ d.numid = numid[c]
  BY <1>10, PresentElement DEF Inv
<1>11. CASE Vanishes(c)
  <2>1. numid[c] # 0 /\ numid' = [numid EXCEPT ![c] = 0] /\ value' = value
    BY <1>11 DEF Vanishes, ControlVanishes, mvars
  <2>2. PICK d \in Elements : d = [ctl |-> c, numid |-> numid[c]] /\ d.ctl = c
    BY <1>10, <2>1
  <2>3. queue' = Notified(d, "REMOVE")
    BY <1>11, <2>2 DEF Vanishes, ControlVanishes
  <2>4. d # e
    BY <1>0, <1>2, <2>1, <2>2
  <2> QED BY <1>8, <2>1, <2>3, <2>4, AllBits
<1>12. CASE Rearranges(c)
  <2>1. numid[c] # 0 /\ value' = value
    BY <1>12 DEF Rearranges, ControlReports, mvars
  <2>2. PICK d \in Elements : d = [ctl |-> c, numid |-> numid[c]]
    BY <1>10, <2>1
  <2>3. queue' = Notified(d, "INFO")
    BY <1>12, <2>2 DEF Rearranges, ControlReports
  <2> QED BY <1>8, <2>1, <2>3, AllBits
<1>13. CASE Varies(c)
  <2>1. numid[c] # 0 /\ \E v : value' = [value EXCEPT ![c] = v]
    BY <1>13 DEF Varies, ControlReports
  <2>2. PICK d \in Elements : d = [ctl |-> c, numid |-> numid[c]] /\ d.ctl = c
                              /\ d.numid = numid[c]
    BY <1>10, <2>1
  <2>3. PICK m \in Bits : m = "VALUE"
    BY AllBits
  <2>4. queue' = Notified(d, m)
    BY <1>13, <2>2, <2>3 DEF Varies, ControlReports
  <2>5. CASE e.ctl = c
    <3>1. d = e
      BY <1>0, <1>2, <2>2, <2>5, SameElement
    <3>2. \A i \in DOMAIN queue : queue[i].elem = e => queue[i].mask # {"REMOVE"}
      <4> TAKE i \in DOMAIN queue
      <4>1. Current(queue, numid)
        BY <1>6 DEF Inv, HInv, FollowInv
      <4>2. queue[i].mask = {"REMOVE"} =>
                \/ numid[queue[i].elem.ctl] = 0
                \/ queue[i].elem.numid < numid[queue[i].elem.ctl]
        BY <4>1 DEF Current
      <4>3. e.numid \in Nat
        BY <1>0 DEF Elements
      <4> QED BY <4>2, <4>3, <1>0, <1>2
    <3>3. \E j \in DOMAIN Notified(e, m) : /\ Notified(e, m)[j].elem = e
                                           /\ "VALUE" \in Notified(e, m)[j].mask
      BY <1>0, <1>6, <2>3, <3>2, ValueWaits
    <3> QED BY <2>4, <3>1, <3>3 DEF Pending
  <2>6. CASE e.ctl # c
    <3>1. value'[e.ctl] = value[e.ctl]
      BY <1>0, <2>1, <2>6
    <3>2. Pending(e) => Pending(e)'
      BY <1>0, <1>3, <1>6, <2>3, <2>4, PendingKept
    <3> QED BY <3>1, <3>2, <1>3, <1>7
  <2> QED BY <2>5, <2>6
<1> QED BY <1>9, <1>11, <1>12, <1>13

\* Setting an item: from the assignment to the item until the control is written
\* the element is pending, and a failed attempt makes the item stale.
LEMMA SetReflects ==
    ASSUME Inv, ReflectInv, NEW e \in list \ todo, e \in Present,
           \/ \E m \in Elems, i \in Slots, v \in scenario.values : SetItem(m, i, v)
           \/ ReadControl \/ WriteControl \/ SetFails
    PROVE  Reflects(e)'
<1>0. /\ HTypeOK /\ e \in Elements /\ e \in list /\ e.ctl \in Ctls /\ Reflects(e)
      /\ value \in [Ctls -> scenario.values]
  BY DEF Inv, HInv, HTypeOK, Elements, ReflectInv
<1>t. /\ cache \in [Elements -> scenario.values]
      /\ items \in [Elems -> [Slots -> Elements \cup {NoItem}]]
  BY StateTyped DEF Inv, Core
<1>1. ASSUME NEW m \in Elems, NEW i \in Slots, NEW v \in scenario.values, SetItem(m, i, v)
      PROVE  Reflects(e)'
  <2>1. PICK d : d = items[m][i]
    OBVIOUS
  <2>2. /\ d \in Elements /\ cache' = [cache EXCEPT ![d] = v] /\ goal'.elem = d
        /\ pc = "idle" /\ pc' = "set.read"
        /\ UNCHANGED <<private, stale, value, synced, queue>>
    BY <1>1, <1>t, <2>1 DEF SetItem, kernel
  <2>3. CASE e = d
    BY <1>0, <2>2, <2>3 DEF Reflects, Pending
  <2>4. CASE e # d
    <3>1. cache'[e] = cache[e]
      BY <1>0, <1>t, <2>2, <2>4
    <3>2. Pending(e) => Pending(e)'
      BY <2>2 DEF Pending
    <3> QED BY <1>0, <2>2, <3>1, <3>2 DEF Reflects
  <2> QED BY <2>3, <2>4
<1>2. CASE ReadControl
  <2>1. /\ pc = "set.read" /\ pc' = "set.write"
        /\ UNCHANGED <<private, cache, stale, value, synced, queue, goal, event>>
    BY <1>2 DEF ReadControl, kernel, mvars
  <2>2. Pending(e) => Pending(e)'
    BY <2>1 DEF Pending
  <2> QED BY <1>0, <2>1, <2>2 DEF Reflects
<1>3. CASE WriteControl
  <2>1. /\ pc = "set.write" /\ pc' = "idle" /\ goal.elem \in Present
        /\ value' = [value EXCEPT ![goal.elem.ctl] = goal.val]
        /\ queue' = IF value[goal.elem.ctl] = goal.val THEN queue
                    ELSE Notified(goal.elem, "VALUE")
        /\ stale' = stale \ {goal.elem}
        /\ UNCHANGED <<private, cache, synced, event>>
    BY <1>3 DEF WriteControl
  <2>2. goal.elem \in list /\ cache[goal.elem] = goal.val
    BY <2>1 DEF Inv, GoalInv
  <2>3. PICK d \in Elements : d = goal.elem
    BY <2>2 DEF Inv, HInv, HTypeOK
  <2>4. private'[e] # NULL
    BY <1>0, <2>1 DEF Reflects
  <2>5. CASE e = d
    <3>1. value'[e.ctl] = goal.val
      BY <1>0, <2>1, <2>3, <2>5
    <3> QED BY <2>1, <2>2, <2>3, <2>4, <2>5, <3>1 DEF Reflects
  <2>6. CASE e # d
    <3>1. e.ctl # d.ctl
      BY <1>0, <2>2, <2>3, <2>6 DEF Inv, HInv, StepInv
    <3>2. value'[e.ctl] = value[e.ctl] /\ (e \in stale => e \in stale')
      BY <1>0, <2>1, <2>3, <2>6, <3>1
    <3>3. ASSUME synced, Pending(e) PROVE Pending(e)'
      <4>1. PICK i \in DOMAIN queue : queue[i].elem = e /\ "VALUE" \in queue[i].mask
        BY <3>3, <2>1, <2>3, <2>6 DEF Pending
      <4>2. CASE queue' = queue
        BY <4>1, <4>2 DEF Pending
      <4>3. CASE queue' = Notified(d, "VALUE")
        <5>1. subscribed
          BY <3>3, <2>1 DEF Inv, HInv, StepInv
        <5>2. \E j \in DOMAIN Notified(d, "VALUE") :
                  /\ Notified(d, "VALUE")[j].elem = e
                  /\ "VALUE" \in Notified(d, "VALUE")[j].mask
          BY <1>0, <4>1, <5>1, <2>6, AllBits, WaitingKept
        <5> QED BY <4>3, <5>2 DEF Pending
      <4> QED BY <2>1, <2>3, <4>2, <4>3
    <3> QED BY <1>0, <2>1, <2>4, <3>2, <3>3 DEF Reflects
  <2> QED BY <2>5, <2>6
<1>4. CASE SetFails
  <2>1. /\ pc \in {"set.read", "set.write"} /\ pc' = "idle" /\ stale' = stale \cup {goal.elem}
        /\ UNCHANGED <<private, cache, value, synced, queue, event>>
    BY <1>4 DEF SetFails, kernel
  <2>2. e = goal.elem \/ (Pending(e) => Pending(e)')
    BY <2>1 DEF Pending
  <2> QED BY <1>0, <2>1, <2>2 DEF Reflects
<1> QED BY <1>1, <1>2, <1>3, <1>4

\* Every step keeps every item true to its control, or pending, as long as there
\* is memory for the mixer elements that are needed.
LEMMA ReflectStep ==
    ASSUME Inv, Inv', [Next]_vars, Separate, LinkInv(State, list), pelems # Elems, ReflectInv
    PROVE  ReflectInv'
<1> SUFFICES ASSUME NEW e \in list', e \notin todo', e \in Present' PROVE Reflects(e)'
  BY DEF ReflectInv
<1>0. /\ list \in SUBSET Elements /\ todo \subseteq list
      /\ \A d \in list : d \in Elements /\ d.ctl \in scenario.ctls
      /\ \A d, f \in list : d.ctl = f.ctl => d = f
      /\ 0 \in scenario.values /\ e \in Elements
  BY ListTyped DEF Inv, HInv, HTypeOK
<1>b. e \in list => e \in Present
  BY PresentBefore
<1>1. ASSUME e \in list, e \notin todo, synced' => synced, UNCHANGED <<private, cache, stale, value>>,
             synced' /\ Alone(e.ctl) /\ Pending(e) => Pending(e)'
      PROVE  Reflects(e)'
  <2>1. Reflects(e)
    BY <1>b, <1>1 DEF ReflectInv
  <2> QED BY <1>1, <2>1 DEF Reflects
<1>2. ASSUME NEW x, Becomes(x), e \in list, e \notin todo, x.private[e] = private[e],
             x.cache[e] = cache[e], e \in stale => e \in x.stale,
             UNCHANGED <<synced, value, queue>>, pc # "event" \/ pc' = "idle",
             pc' \notin {"set.read", "set.write"}, pc \notin {"set.read", "set.write"},
             synced /\ Alone(e.ctl) /\ pc = "event" => event.elem # e \/ "VALUE" \notin event.mask
      PROVE  Reflects(e)'
  <2>1. Reflects(e)
    BY <1>b, <1>2 DEF ReflectInv
  <2>2. synced /\ Alone(e.ctl) /\ Pending(e) => Pending(e)'
    BY <1>2 DEF Pending
  <2>3. private' = x.private /\ cache' = x.cache /\ stale' = x.stale
    BY <1>2 DEF Becomes
  <2> QED BY <1>2, <2>1, <2>2, <2>3 DEF Reflects
<1>k. ASSUME NEW c \in Ctls, Appears(c) \/ Vanishes(c) \/ Rearranges(c) \/ Varies(c)
      PROVE  Reflects(e)'
  <2>1. UNCHANGED <<list, todo>>
    BY <1>k DEF Appears, Vanishes, Rearranges, Varies, ControlAppears, ControlVanishes,
       ControlReports
  <2> QED BY <1>k, <2>1, KernelReflects
<1>3. CASE LoadMixer
  BY <1>3 DEF LoadMixer, Load
<1>4. CASE SubscribeMixer \/ UNCHANGED vars
  <2>1. /\ UNCHANGED <<list, todo, synced, queue, private, cache, stale, value, goal, event>>
        /\ pc' = pc \/ (pc = "load" /\ pc' = "idle")
    BY <1>4 DEF SubscribeMixer, Subscribe, vars, hvars, mvars
  <2>2. Pending(e) => Pending(e)'
    BY <2>1 DEF Pending
  <2> QED BY <1>1, <2>1, <2>2
<1>5. CASE Read
  <2>1. /\ UNCHANGED <<list, todo, synced, private, cache, stale, value, goal>>
        /\ pc = "idle" /\ pc' = "event" /\ queue # <<>>
        /\ event' = Head(queue) /\ queue' = Tail(queue)
    BY <1>5 DEF Read, ReadEvent, mvars
  <2>2. queue \in Seq(Entries)
    BY DEF Inv, HInv, HTypeOK
  <2>3. ASSUME Pending(e) PROVE Pending(e)'
    <3>1. PICK i \in DOMAIN queue : queue[i].elem = e /\ "VALUE" \in queue[i].mask
      BY <2>1, <2>3 DEF Pending
    <3>2. CASE i = 1
      <4>1. event' = queue[1]
        BY <2>1, <2>2
      <4> QED BY <2>1, <3>1, <3>2, <4>1 DEF Pending
    <3>3. CASE i # 1
      <4>1. i - 1 \in DOMAIN queue' /\ queue'[i - 1] = queue[i]
        BY <2>1, <2>2, <3>3
      <4> QED BY <3>1, <4>1 DEF Pending
    <3> QED BY <3>2, <3>3
  <2> QED BY <1>1, <2>1, <2>3
<1>6. CASE Ignore
  <2>1. /\ UNCHANGED <<list, todo, synced, private, cache, stale, value, goal, queue>>
        /\ pc = "event" /\ pc' = "idle"
        /\ IF "ADD" \in event.mask THEN Found(event.elem.ctl) # {}
           ELSE Found(event.elem.ctl) = {}
    BY <1>6 DEF Ignore, HandleFails, Handled, kernel, mvars
  <2>2. synced /\ Alone(e.ctl) => event.elem # e
    <3>1. synced /\ Alone(event.elem.ctl) /\ "ADD" \in event.mask =>
              \A d \in list : d.ctl # event.elem.ctl
      BY <2>1 DEF Inv, HInv, FollowInv, EventFits
    <3> QED BY <2>1, <3>1 DEF Found
  <2>3. synced /\ Alone(e.ctl) /\ Pending(e) => Pending(e)'
    BY <2>1, <2>2 DEF Pending
  <2> QED BY <1>1, <2>1, <2>3
<1>7. ASSUME NEW step \in {"free", "close"}, FreeMixer(step) PROVE Reflects(e)'
  BY <1>1, <1>7 DEF FreeMixer, FreeAll, mvars
<1>8. CASE FreeDone
  BY <1>8 DEF FreeDone, FreeEnd, CloseEnd
<1>9. CASE \/ \E m \in Elems, i \in Slots, v \in scenario.values : SetItem(m, i, v)
           \/ ReadControl \/ WriteControl \/ SetFails
  <2>1. UNCHANGED <<list, todo>>
    BY <1>9 DEF SetItem, ReadControl, WriteControl, SetFails
  <2> QED BY <1>9, <1>b, <2>1, SetReflects
<1>a. ASSUME NEW x, Becomes(x), UNCHANGED value, x.private[e] # NULL, x.cache[e] = value[e.ctl]
      PROVE  Reflects(e)'
  BY <1>a DEF Reflects, Becomes
<1>10. ASSUME NEW d \in Elements, AnnounceItem(d) PROVE Reflects(e)'
  <2>0. /\ d \in todo /\ todo' = todo \ {d} /\ pc = "load"
        /\ UNCHANGED <<list, numid, value, synced, queue, pc>>
    BY <1>10 DEF AnnounceItem, Announce, kernel
  <2>1. PICK x \in AddSimple(State, d) : Becomes(x)
    BY <1>10 DEF AnnounceItem
  <2>2. d \in list /\ d.ctl \in scenario.ctls /\ private[d] = NULL /\ list = list \cup {d}
    BY <2>0, <1>0, StateFields DEF Inv, PrivateInv
  <2>r. /\ Aside(State, x, d)
        /\ d \in Present => x.private[d] # NULL /\ x.cache[d] = value[d.ctl]
    BY <1>0, <2>2, AddResult
  <2>3. /\ \A f \in Elements \ {d} : /\ x.private[f] = private[f] /\ x.cache[f] = cache[f]
                                     /\ f \in stale => f \in x.stale
        /\ d \in Present => x.private[d] # NULL /\ x.cache[d] = value[d.ctl]
    BY <2>r, StateFields DEF Aside
  <2>4. CASE e = d
    BY <1>a, <1>b, <2>0, <2>1, <2>2, <2>3, <2>4
  <2>5. CASE e # d
    BY <1>0, <1>2, <2>0, <2>1, <2>3, <2>5
  <2> QED BY <2>4, <2>5
<1>11. CASE AddItem
  <2>0. /\ pc = "event" /\ pc' = "idle" /\ list' = list \cup {event.elem} /\ Found(event.elem.ctl) = {}
        /\ UNCHANGED <<todo, numid, value, synced, queue>>
    BY <1>11 DEF AddItem, HandleAdd, Handled, kernel
  <2>1. PICK d : d = event.elem
    OBVIOUS
  <2>2. PICK x \in AddSimple(State, d) : Becomes(x)
    BY <1>11, <2>1 DEF AddItem
  <2>3. d \in Elements /\ d.ctl \in scenario.ctls /\ d \notin list
    BY <2>0, <2>1 DEF Inv, HInv, HTypeOK, Entries, KnownInv, Known, Found
  <2>4. private[d] = NULL /\ \A f \in list' : f.ctl = d.ctl => f = d
    BY <2>0, <2>1, <2>3, StateFields DEF Inv, PrivateInv, Found
  <2>r. /\ Aside(State, x, d)
        /\ d \in Present => x.private[d] # NULL /\ x.cache[d] = value[d.ctl]
    BY <2>0, <2>1, <2>3, <2>4, AddResult
  <2>5. /\ \A f \in Elements \ {d} : /\ x.private[f] = private[f] /\ x.cache[f] = cache[f]
                                     /\ f \in stale => f \in x.stale
        /\ d \in Present => x.private[d] # NULL /\ x.cache[d] = value[d.ctl]
    BY <2>r, StateFields DEF Aside
  <2>6. CASE e = d
    <3>1. d \in Present
      BY <2>0, <2>6 DEF Present
    <3> QED BY <1>a, <2>0, <2>2, <2>5, <2>6, <3>1
  <2>7. CASE e # d
    BY <1>0, <1>2, <2>0, <2>1, <2>2, <2>5, <2>7
  <2> QED BY <2>6, <2>7
<1>12. ASSUME NEW d \in Elements, RemoveItem(d) \/ FreeItem(d) PROVE Reflects(e)'
  <2>0. /\ d \in list /\ list' = list \ {d} /\ UNCHANGED <<value, synced, queue, todo>>
        /\ Becomes(Removed(State, d))
        /\ \/ pc = "event" /\ pc' = "idle" /\ event.mask = {"REMOVE"}
           \/ pc \in {"free", "close"} /\ pc' = pc
    BY <1>12 DEF RemoveItem, FreeItem, HandleRemove, Handled, Found, First, FreeOne, kernel
  <2>1. PICK x : x = Removed(State, d)
    OBVIOUS
  <2>2. Forgotten(State, x, d)
    BY <1>0, <2>0, <2>1, RemovedKeeps DEF Inv
  <2>3. /\ x.private[e] = private[e] /\ x.cache[e] = cache[e]
        /\ (e \in stale => e \in x.stale)
    BY <1>0, <2>0, <2>2, StateFields DEF Forgotten
  <2> QED BY <1>2, <2>0, <2>1, <2>3
<1>13. ASSUME NEW d \in Elements, ChangeItem(d) PROVE Reflects(e)'
  <2>0. /\ d \in list /\ Ident[d.ctl] = Ident[event.elem.ctl]
        /\ UNCHANGED <<list, todo, value, synced, queue>>
        /\ pc = "event" /\ pc' = "idle" /\ event.mask \subseteq {"VALUE", "INFO"}
    BY <1>13 DEF ChangeItem, HandleChange, Handled, Found, First, kernel
  <2>1. PICK x \in Changed(State, d, event.mask) : Becomes(x)
    BY <1>13 DEF ChangeItem
  <2>2. Besides(State, x, d) /\ Refetched(State, x, d, event.mask)
    BY <2>0, ChangeResult
  <2>3. synced /\ Alone(e.ctl) /\ event.elem = e => event.elem = d
    <3>1. synced /\ Alone(event.elem.ctl) => event.elem \in list
      BY <2>0 DEF Inv, HInv, FollowInv, EventFits
    <3>2. d.ctl \in Ctls /\ (Alone(e.ctl) /\ event.elem = e => d.ctl = e.ctl)
      BY <1>0, <2>0 DEF Alone, Elements
    <3> QED BY <1>0, <2>0, <3>1, <3>2
  <2>4. CASE e # d
    <3>1. /\ x.private[e] = private[e] /\ x.cache[e] = cache[e]
        /\ (e \in stale => e \in x.stale)
      BY <1>0, <2>2, <2>4, StateFields DEF Besides, Aside
    <3> QED BY <1>2, <2>0, <2>1, <2>3, <2>4, <3>1
  <2>5. CASE e = d
    <3>1. Reflects(e) /\ e \in Present /\ private[e] # NULL
      BY <1>b, <2>0, <2>5 DEF ReflectInv, Reflects
    <3>2. x.private[e] # NULL
      BY <2>2, <2>5, <3>1, StateFields DEF Besides, Aside
    <3>3. CASE x.cache[e] = value[e.ctl]
      BY <1>a, <2>0, <2>1, <3>2, <3>3
    <3>4. CASE "VALUE" \notin event.mask /\ x.cache[e] = cache[e] /\ (e \in stale => e \in x.stale)
      <4>1. Pending(e) => Pending(e)'
        BY <2>0, <3>4 DEF Pending
      <4>2. private' = x.private /\ cache' = x.cache /\ stale' = x.stale
        BY <2>1 DEF Becomes
      <4> QED BY <2>0, <3>1, <3>2, <3>4, <4>1, <4>2 DEF Reflects
    <3>5. CASE e \in x.stale
      <4>1. private' = x.private /\ stale' = x.stale
        BY <2>1 DEF Becomes
      <4> QED BY <3>2, <3>5, <4>1 DEF Reflects
    <3> QED BY <2>2, <2>5, <3>1, <3>3, <3>4, <3>5, StateFields DEF Refetched
  <2> QED BY <2>4, <2>5
<1> QED BY <1>k, <1>3, <1>4, <1>5, <1>6, <1>7, <1>8, <1>9, <1>10, <1>11, <1>12, <1>13 DEF Next

-----------------------------------------------------------------------------
(* The theorems. *)

\* The invariant holds in every state of every behaviour: the list and the queue
\* of the control interface fit each other (HInv), and every item of a mixer
\* element is where its control's name and type put it (Core).
THEOREM MixerInvariant == Spec => []Inv
<1>1. Init => Inv
  BY InvInitial
<1>2. Inv /\ [Next]_vars => Inv'
  BY InvStep
<1> QED BY <1>1, <1>2, PTL DEF Spec

\* Every variable of the control interface and of the mixer has its type: no
\* negative index, no item that is not an element of the interface, no goal of
\* a set operation that is not one.
THEOREM MixerTypeOK == Spec => []TypeOK
<1>1. Inv => TypeOK
  BY DEF Inv, HInv, Core, TypeOK, GoalInv, HTypeOK
<1> QED BY <1>1, MixerInvariant, PTL

\* snd_hctl_handle_events keeps the list the kernel's: with the queue empty, and
\* no change lost before the subscription, they are the same, and no control is
\* in the list twice, whatever the mixer's callbacks do.  Of controls that share an
\* identity only the latter is true.
THEOREM MixerListTrue == Spec => []ListTrue
<1>1. Inv => ListTrue
  BY HInvListTrue DEF Inv
<1> QED BY <1>1, MixerInvariant, PTL

\* No item of a mixer element points to a control element that snd_hctl_elem_remove
\* has freed, and remove_simple_element finds every item through private_data.
THEOREM MixerItemsLive == Spec => []ItemsLive
<1>1. Inv => ItemsLive
  BY StateFields DEF Inv, Core, ItemsInv, Placed, ItemsLive
<1> QED BY <1>1, MixerInvariant, PTL

\* The index that add_simple_element gives to a new element is not in use: no two
\* elements of the mixer have the name and the index in common.
THEOREM MixerSidUnique == Spec => []SidUnique
<1>1. Inv => SidUnique
  BY StateFields DEF Inv, Core, SidInv, SidUnique
<1> QED BY <1>1, MixerInvariant, PTL

\* Where drivers report no INFO, remove_simple_element frees an element with its
\* last item, in every state and not only when all events have been handled.
THEOREM MixerNoEmptyElem == Spec => []NoEmptyElem
<1>1. Inv => NoEmptyElem
  BY StateFields DEF Inv, FilledInv, NoEmptyElem
<1> QED BY <1>1, MixerInvariant, PTL

\* The scenario of a behaviour does not change, and so neither does Separate.
LEMMA SeparateKept == ASSUME Separate, [Next]_vars PROVE Separate'
BY ScenarioKept DEF Separate

\* No control element has a mixer element when the behaviour begins.
LEMMA LinkInitial == ASSUME Init PROVE LinkInv(State, list) /\ ReflectInv
BY DEF Init, HInit, LinkInv, ReflectInv

\* private_data of a control element in the list never dangles, where no two
\* controls that share an element can take each other's slot: neither by a global
\* item of one that covers the other's slot, nor by INFO events.
THEOREM MixerPrivateLive == Spec /\ Separate => []PrivateLive
<1> DEFINE I == Inv /\ Separate /\ LinkInv(State, list)
<1>1. Init /\ Separate => I
  BY InvInitial, LinkInitial
<1>2. I /\ [Next]_vars => I'
  BY InvStep, SeparateKept, LinkStep
<1>3. I => PrivateLive
  BY StateFields DEF LinkInv, PrivateLive
<1> QED BY <1>1, <1>2, <1>3, PTL DEF Spec

\* With memory for every mixer element that is asked for, and controls that do not
\* take each other's slots, every control of the device that shares its identity
\* with no other is an item of the mixer once all events have been handled, with
\* the control's value unless the last attempt to set it failed.
THEOREM MixerMixerTrue == Spec /\ Separate /\ [](pelems # Elems) => []MixerTrue
<1> DEFINE I == Inv /\ Separate /\ LinkInv(State, list) /\ ReflectInv
<1>1. Init /\ Separate => I
  BY InvInitial, LinkInitial
<1>2. I /\ pelems # Elems /\ [Next]_vars => I'
  BY InvStep, SeparateKept, LinkStep, ReflectStep
<1>3. I => MixerTrue
  <2> SUFFICES ASSUME I, pc = "idle", subscribed, queue = <<>>, synced, NEW e \in Present,
                      Alone(e.ctl)
               PROVE  /\ \E m \in pelems : items[m][Type(e.ctl)] = e
                      /\ e \in stale \/ cache[e] = value[e.ctl]
    BY DEF MixerTrue
  <2>1. e \in list /\ e \notin todo
    BY HInvListTrue DEF ListTrue, Inv, HInv, StepInv, Present
  <2>2. Reflects(e)
    BY <2>1 DEF ReflectInv
  <2>3. ~Pending(e)
    BY DEF Pending
  <2>4. private[e] \in pelems /\ items[private[e]][Type(e.ctl)] = e
    BY <2>1, <2>2, StateFields DEF LinkInv, Reflects
  <2> QED BY <2>2, <2>3, <2>4 DEF Reflects
<1> QED BY <1>1, <1>2, <1>3, PTL DEF Spec
=============================================================================
