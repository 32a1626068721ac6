---------------------------- MODULE ControlProofs ----------------------------
(***************************************************************************)
(* What the processes on a control device can rely on, for any number of   *)
(* them, of elements and of calls.                                         *)
(*                                                                         *)
(* The argument is about who may touch an element.  Between the two ioctls *)
(* of an add the element is locked for its adder, so no other process can  *)
(* remove it and put one of the same name in its place (AddInv); numids    *)
(* are never given out twice (NumidInv); and a reader of TLV data, which   *)
(* looks the name up and reads by numid, has been told of every change in  *)
(* between (HadInv).                                                       *)
(***************************************************************************)
EXTENDS Control, FiniteSetTheorems, TLAPS

\* The TLV data there may be.
Data == (UNION {s.tlvs : s \in Scenarios}) \cup {NoData}

AddCall == [op : {"add"}, name : Names, numid : Nat, min : Nat]
TlvCall == {k \in [op : {"tlv"}, cmd : {"read", "write", "command"}, name : Names \cup {NoOne},
                   numid : Nat, tlv : Data, size : Nat] : k.numid = 0 => k.name \in Names}
WaitCall == [op : {"wait"}, forever : BOOLEAN]
Calls == {Idle} \cup AddCall \cup TlvCall \cup WaitCall

\* An element of the card, the names of whose items have fitted the buffer.
ElemOK(r) ==
    /\ r = [numid |-> r.numid, type |-> r.type, min |-> r.min, val |-> r.val,
            names |-> r.names, owner |-> r.owner, tlv |-> r.tlv]
    /\ r.numid \in Nat \ {0} /\ r.min \in Nat /\ r.val \in Nat
    /\ r.owner \in Clients \cup {NoOne} /\ r.tlv \in Data
    /\ r.names <= NamesBuf

ListOK(l) == l \in [pids : Nat, space : Nat, used : Nat] /\ l.pids = l.space

\* The types of what the argument is about.
Shape ==
    /\ scenario \in Scenarios /\ numids \in Nat
    /\ elem = [n \in Names |-> elem[n]]
    /\ \A n \in Names : Exists(n) => ElemOK(elem[n])
    /\ call \in [Clients -> Calls]
    /\ ret = [c \in Clients |-> ret[c]]
    /\ list = [c \in Clients |-> list[c]] /\ \A c \in Clients : ListOK(list[c])
    /\ had = [c \in Clients |-> had[c]]

\* A numid names one element, and those to come are new.
NumidInv ==
    /\ \A n \in Names : Exists(n) => elem[n].numid <= numids
    /\ \A m, n \in Names : Exists(m) /\ Exists(n) /\ elem[m].numid = elem[n].numid => m = n

\* Between the two ioctls of an add the element is the adder's own.
AddOK(c, k) ==
    k.op = "add" =>
        /\ Exists(k.name)
        /\ elem[k.name].numid = k.numid /\ elem[k.name].min = k.min
        /\ elem[k.name].owner = c
        /\ elem[k.name].type \in {"integer", "integer64"}

AddInv == \A c \in Clients : AddOK(c, call[c])

\* A read in progress has seen the TLV data of the element it is to read from.
HadOK(k, h) ==
    k.op = "tlv" /\ k.cmd = "read" =>
        \A n \in Names :
            Exists(n) /\ (IF k.numid = 0 THEN k.name = n ELSE elem[n].numid = k.numid) =>
                elem[n].tlv \in h

HadInv == \A c \in Clients : HadOK(call[c], had[c])

\* What a call has returned is true of the buffers it was given.
RetOK(r, l) ==
    /\ r.op = "data" => r.data \in r.had /\ r.len <= r.size
    /\ r = Result("list", 0) => l.used <= l.pids

RetInv == \A c \in Clients : RetOK(ret[c], list[c])

IInv == Shape /\ NumidInv /\ AddInv /\ HadInv /\ RetInv /\ InRange

-----------------------------------------------------------------------------
(* Steps that leave the elements of the card alone. *)

\* TLV data has a length, and what a process or a driver has is such data.
LEMMA DataTyped ==
    /\ \A d \in Data : d.len \in Nat
    /\ Shape => scenario.tlvs \subseteq Data
<1>1. ASSUME NEW s \in Scenarios, NEW d \in s.tlvs PROVE d.len \in Nat
  BY ControlConstants
<1>2. NoData.len \in Nat
  BY DEF NoData
<1> QED BY <1>1, <1>2 DEF Data, Shape

\* What a process has called and been told, and nothing else.
ClientStep(c, k, r, l, h) ==
    /\ call' = [call EXCEPT ![c] = k]
    /\ ret' = [ret EXCEPT ![c] = r]
    /\ list' = [list EXCEPT ![c] = l]
    /\ had' = [had EXCEPT ![c] = h]

\* A step of one process that leaves the elements alone keeps the invariant.
LEMMA ClientKeeps ==
    ASSUME IInv, NEW c \in Clients, NEW k \in Calls, NEW r, NEW l, NEW h,
           UNCHANGED <<scenario, elem, numids, half>>, call[c].op # "add", k.op # "add",
           ClientStep(c, k, r, l, h), HadOK(k, h), ListOK(l), RetOK(r, l)
    PROVE  IInv'
<1>1. Shape'
  BY DEF IInv, Shape, ClientStep, Exists
<1>2. NumidInv'
  BY DEF IInv, NumidInv, Exists
<1>3. \A d \in Clients : /\ call'[d] = IF d = c THEN k ELSE call[d]
                         /\ ret'[d] = IF d = c THEN r ELSE ret[d]
                         /\ list'[d] = IF d = c THEN l ELSE list[d]
                         /\ had'[d] = IF d = c THEN h ELSE had[d]
  BY DEF IInv, Shape, ClientStep
<1>4. AddInv'
  BY <1>3 DEF IInv, AddInv, AddOK, Exists
<1>5. HadInv'
  BY <1>3 DEF IInv, HadInv, HadOK, Exists
<1>6. RetInv'
  BY <1>3 DEF IInv, RetInv, RetOK
<1>7. InRange'
  BY <1>3 DEF IInv, InRange, Exists
<1> QED BY <1>1, <1>2, <1>4, <1>5, <1>6, <1>7 DEF IInv

\* A call that ends, with an error for instance, in a result that tells of no data.
LEMMA EndKeeps ==
    ASSUME IInv, NEW c \in Clients, NEW k \in Calls, k = call[c] \/ k = Idle, NEW r,
           r.op \notin {"data", "list"}, call[c].op # "add",
           UNCHANGED <<scenario, elem, numids, half, list>>,
           call' = [call EXCEPT ![c] = k], ret' = [ret EXCEPT ![c] = r],
           had' = had \/ (had' = [had EXCEPT ![c] = {}] /\ k = Idle)
    PROVE  IInv'
<1>1. PICK h : had' = [had EXCEPT ![c] = h] /\ (h = had[c] \/ k = Idle)
  <2>1. CASE had' = had
    <3>1. had = [had EXCEPT ![c] = had[c]]
      BY DEF IInv, Shape
    <3> QED BY <2>1, <3>1
  <2>2. CASE had' = [had EXCEPT ![c] = {}] /\ k = Idle
    BY <2>2
  <2> QED BY <2>1, <2>2
<1>2. PICK l : l = list[c] /\ list' = [list EXCEPT ![c] = l]
  BY DEF IInv, Shape
<1>3. HadOK(k, h)
  BY <1>1 DEF IInv, HadInv, HadOK, Idle
<1>4. ListOK(l) /\ RetOK(r, l) /\ k.op # "add"
  BY <1>2 DEF IInv, Shape, RetOK, Result, Idle
<1>5. ClientStep(c, k, r, l, h)
  BY <1>1, <1>2 DEF ClientStep
<1> QED BY <1>3, <1>4, <1>5, ClientKeeps

-----------------------------------------------------------------------------
(* Steps that change an element of the card. *)

\* What the calls have returned, after a step that returns no data and no list.
RetKept ==
    /\ list' = list /\ \A c \in Clients : ListOK(list[c])
    /\ ret' = [c \in Clients |-> ret'[c]]
    /\ RetInv'

\* A result that tells of no data and no list is true of every buffer.
LEMMA RetKeeps ==
    ASSUME IInv, UNCHANGED list,
           \/ ret' = ret
           \/ \E c \in Clients : \E r : ret' = [ret EXCEPT ![c] = r] /\ r.op \notin {"data", "list"}
    PROVE  RetKept
<1>1. CASE ret' = ret
  BY <1>1 DEF IInv, Shape, RetInv, RetKept, RetOK
<1>2. ASSUME NEW c \in Clients, NEW r, ret' = [ret EXCEPT ![c] = r], r.op \notin {"data", "list"}
      PROVE  RetKept
  <2>1. \A d \in Clients : ret'[d] = IF d = c THEN r ELSE ret[d]
    BY <1>2 DEF IInv, Shape
  <2>2. ret' = [d \in Clients |-> ret'[d]]
    BY <1>2 DEF IInv, Shape
  <2>3. r # Result("list", 0)
    BY <1>2 DEF Result
  <2> QED BY <1>2, <2>1, <2>2, <2>3 DEF IInv, Shape, RetInv, RetKept, RetOK
<1> QED BY <1>1, <1>2

\* A change of the element n that is shown to the readers of its TLV data keeps
\* what they have been told true.
LEMMA HadGrows ==
    ASSUME Shape, HadInv, NEW n \in Names, NEW r, elem' = [elem EXCEPT ![n] = r],
           \/ Seen(n, elem'[n])
           \/ had' = had /\ (r = NoElem \/ (Exists(n) /\ r.tlv = elem[n].tlv /\ r.numid = elem[n].numid)),
           \A c \in Clients : call'[c] = call[c] \/ call'[c].op # "tlv"
    PROVE  HadInv'
<1> SUFFICES ASSUME NEW c \in Clients, call'[c] = call[c], call[c].op = "tlv", call[c].cmd = "read",
                    NEW m \in Names, Exists(m)',
                    IF call[c].numid = 0 THEN call[c].name = m ELSE elem'[m].numid = call[c].numid
             PROVE  elem'[m].tlv \in had'[c]
  BY DEF HadInv, HadOK
<1>1. \A x \in Names : elem'[x] = IF x = n THEN r ELSE elem[x]
  BY DEF Shape
<1>2. HadOK(call[c], had[c])
  BY DEF HadInv
<1>3. CASE Seen(n, elem'[n])
  <2>1. had'[c] = IF call[c].name = n \/ call[c].numid = elem'[n].numid
                  THEN had[c] \cup {elem'[n].tlv} ELSE had[c]
    BY <1>3 DEF Seen
  <2>2. CASE m = n
    BY <2>1, <2>2
  <2>3. CASE m # n
    BY <1>1, <1>2, <2>1, <2>3 DEF HadOK, Exists
  <2> QED BY <2>2, <2>3
<1>4. CASE had' = had /\ (r = NoElem \/ (Exists(n) /\ r.tlv = elem[n].tlv /\ r.numid = elem[n].numid))
  BY <1>1, <1>2, <1>4 DEF HadOK, Exists
<1> QED BY <1>3, <1>4

\* A process changes the value, the lock or the TLV data of an element that is not
\* being added by another one, and has no call in progress afterwards.
LEMMA ModKeeps ==
    ASSUME IInv, NEW c \in Clients, NEW n \in Names, Exists(n), NEW r, ElemOK(r),
           elem' = [elem EXCEPT ![n] = r],
           r.numid = elem[n].numid, r.type = elem[n].type, r.min = elem[n].min,
           UNCHANGED <<scenario, numids, half>>, call' = [call EXCEPT ![c] = Idle],
           \/ r.owner = elem[n].owner
           \/ \A d \in Clients \ {c} : call[d].op = "add" => call[d].name # n,
           \/ r.val >= r.min
           \/ r.val = elem[n].val /\ call[c].op # "add",
           call[c].op = "add" => call[c].name = n,
           \/ had' = had /\ r.tlv = elem[n].tlv
           \/ Seen(n, elem'[n]),
           RetKept
    PROVE  IInv'
<1>1. \A x \in Names : elem'[x] = IF x = n THEN r ELSE elem[x]
  BY DEF IInv, Shape
<1>2. \A d \in Clients : call'[d] = IF d = c THEN Idle ELSE call[d]
  BY DEF IInv, Shape
<1>3. \A x \in Names : /\ Exists(x)' <=> Exists(x)
                       /\ elem'[x].numid = elem[x].numid
                       /\ Exists(x) => elem'[x].type = elem[x].type /\ elem'[x].min = elem[x].min
  <2>1. r # NoElem
    BY DEF ElemOK, NoElem
  <2> QED BY <1>1, <2>1 DEF Exists
<1>4. Shape'
  <2>1. elem' = [x \in Names |-> elem'[x]]
    BY DEF IInv, Shape
  <2>2. \A x \in Names : Exists(x)' => ElemOK(elem'[x])
    BY <1>1, <1>3 DEF IInv, Shape
  <2>3. had' = [d \in Clients |-> had'[d]]
    BY DEF IInv, Shape, Seen
  <2>4. call' \in [Clients -> Calls]
    BY DEF IInv, Shape, Calls
  <2> QED BY <2>1, <2>2, <2>3, <2>4 DEF IInv, Shape, RetKept, ElemOK, ListOK
<1>5. NumidInv'
  BY <1>3 DEF IInv, NumidInv
<1>6. AddInv'
  <2> SUFFICES ASSUME NEW d \in Clients \ {c}, call[d].op = "add" PROVE AddOK(d, call[d])'
    BY <1>2 DEF AddInv, AddOK, Idle
  <2>1. call'[d] = call[d] /\ AddOK(d, call[d]) /\ call[d].name \in Names
    BY <1>2 DEF IInv, AddInv, Shape, Calls, AddCall, TlvCall, WaitCall, Idle
  <2>2. elem'[call[d].name].owner = d
    BY <1>1, <2>1 DEF AddOK
  <2> QED BY <1>3, <2>1, <2>2 DEF AddOK
<1>7. HadInv'
  <2>1. \A d \in Clients : call'[d] = call[d] \/ call'[d].op # "tlv"
    BY <1>2 DEF Idle
  <2>2. Shape /\ HadInv
    BY DEF IInv
  <2> QED BY <2>1, <2>2, HadGrows
<1>8. InRange'
  <2> SUFFICES ASSUME NEW x \in Names, Exists(x), elem[x].type \in {"integer", "integer64"},
                      elem[x].numid \notin half,
                      \A d \in Clients : call'[d].op = "add" => call'[d].numid # elem[x].numid
               PROVE  elem'[x].val >= elem'[x].min
    BY <1>3 DEF InRange
  <2>1. CASE x = n /\ r.val >= r.min
    BY <1>1, <2>1
  <2>2. CASE ~(x = n /\ r.val >= r.min)
    <3>1. call[c].op = "add" => call[c].numid # elem[x].numid
      <4>1. AddOK(c, call[c])
        BY DEF IInv, AddInv
      <4> QED BY <4>1, <2>2 DEF AddOK, IInv, NumidInv
    <3>2. \A d \in Clients : call[d].op = "add" => call[d].numid # elem[x].numid
      BY <1>2, <3>1
    <3>3. elem[x].val >= elem[x].min
      BY <3>2 DEF IInv, InRange
    <3> QED BY <1>1, <2>2, <3>3
  <2> QED BY <2>1, <2>2
<1> QED BY <1>4, <1>5, <1>6, <1>7, <1>8 DEF IInv, RetKept

\* An element that nobody is adding is removed.
LEMMA GoneKeeps ==
    ASSUME IInv, NEW n \in Names, elem' = [elem EXCEPT ![n] = NoElem],
           UNCHANGED <<scenario, numids, half, call, had>>,
           \A d \in Clients : call[d].op = "add" => call[d].name # n, RetKept
    PROVE  IInv'
<1>1. \A x \in Names : elem'[x] = IF x = n THEN NoElem ELSE elem[x]
  BY DEF IInv, Shape
<1>2. \A x \in Names : Exists(x)' => x # n /\ Exists(x) /\ elem'[x] = elem[x]
  BY <1>1 DEF Exists
<1>3. Shape'
  BY <1>2 DEF IInv, Shape, RetKept, ElemOK, ListOK
<1>4. NumidInv'
  BY <1>2 DEF IInv, NumidInv
<1>5. AddInv'
  <2> SUFFICES ASSUME NEW d \in Clients, call[d].op = "add" PROVE AddOK(d, call[d])'
    BY DEF AddInv, AddOK
  <2>1. AddOK(d, call[d]) /\ call[d].name \in Names
    BY DEF IInv, AddInv, Shape, Calls, AddCall, TlvCall, WaitCall, Idle
  <2> QED BY <1>1, <2>1 DEF AddOK, Exists
<1>6. HadInv'
  BY HadGrows DEF IInv
<1>7. InRange'
  BY <1>2 DEF IInv, InRange
<1> QED BY <1>3, <1>4, <1>5, <1>6, <1>7 DEF IInv, RetKept

Integers_ == {"integer", "integer64"}

\* A new element has a new numid and, if it is one with a range, an adder who is
\* about to write its first value.
LEMMA NewKeeps ==
    ASSUME IInv, NEW n \in Names, ~Exists(n), NEW type, NEW min \in Nat, NEW names, names <= NamesBuf,
           NEW owner \in Clients \cup {NoOne}, NEW tlv \in Data,
           NewElem(n, type, min, names, owner, tlv), UNCHANGED <<scenario, half>>,
           call' \in [Clients -> Calls],
           \A d \in Clients :
               \/ call'[d] = call[d]
               \/ /\ call[d] = Idle /\ owner = d /\ type \in Integers_
                  /\ call'[d] = [op |-> "add", name |-> n, numid |-> numids + 1, min |-> min],
           type \in Integers_ => \E d \in Clients : call'[d].op = "add" /\ call'[d].numid = numids + 1,
           RetKept
    PROVE  IInv'
<1>0. PICK r : r = [numid |-> numids + 1, type |-> type, min |-> min, val |-> 0,
                    names |-> names, owner |-> owner, tlv |-> tlv]
  OBVIOUS
<1>1. /\ r.numid = numids + 1 /\ r.type = type /\ r.min = min /\ r.owner = owner
      /\ elem' = [elem EXCEPT ![n] = r] /\ numids' = numids + 1 /\ Seen(n, elem'[n])
  BY <1>0 DEF NewElem
<1>2. ElemOK(r) /\ r # NoElem
  BY <1>0 DEF ElemOK, NoElem, IInv, Shape
<1>3. \A x \in Names : elem'[x] = IF x = n THEN r ELSE elem[x]
  BY <1>1 DEF IInv, Shape
<1>4. \A x \in Names : x # n => (Exists(x)' <=> Exists(x))
  BY <1>3 DEF Exists
<1>n. numids \in Nat /\ \A x \in Names : Exists(x) => elem[x].numid \in Nat /\ elem[x].numid <= numids
  BY DEF IInv, Shape, NumidInv, ElemOK
<1>5. Shape'
  <2>1. elem' = [x \in Names |-> elem'[x]]
    BY <1>1 DEF IInv, Shape
  <2>2. \A x \in Names : Exists(x)' => ElemOK(elem'[x])
    BY <1>2, <1>3, <1>4 DEF IInv, Shape
  <2>3. had' = [d \in Clients |-> had'[d]]
    BY <1>1 DEF Seen
  <2>4. \A x \in Names : Exists(x)' => ElemOK(elem[x])'
    BY <2>2 DEF ElemOK
  <2>5. \A d \in Clients : ListOK(list[d])'
    BY DEF RetKept, ListOK
  <2>6. numids' \in Nat /\ list' = [d \in Clients |-> list'[d]]
    BY <1>1, <1>n DEF RetKept, IInv, Shape
  <2> QED BY <1>1, <2>1, <2>3, <2>4, <2>5, <2>6 DEF IInv, Shape, RetKept
<1>6. NumidInv'
  BY <1>1, <1>3, <1>4, <1>n DEF IInv, NumidInv
<1>7. AddInv'
  <2> SUFFICES ASSUME NEW d \in Clients, call'[d].op = "add" PROVE AddOK(d, call[d])'
    BY DEF AddInv, AddOK
  <2>1. CASE call'[d] = call[d]
    <3>1. AddOK(d, call[d]) /\ call[d].name \in Names
      BY <2>1 DEF IInv, AddInv, Shape, Calls, AddCall, TlvCall, WaitCall, Idle
    <3> QED BY <1>3, <1>4, <2>1, <3>1 DEF AddOK
  <2>2. CASE owner = d /\ type \in Integers_
             /\ call'[d] = [op |-> "add", name |-> n, numid |-> numids + 1, min |-> min]
    BY <1>1, <1>2, <1>3, <2>2 DEF AddOK, Exists, Integers_
  <2> QED BY <2>1, <2>2
<1>8. HadInv'
  <2>1. \A d \in Clients : call'[d] = call[d] \/ call'[d].op # "tlv"
    OBVIOUS
  <2>2. Shape /\ HadInv
    BY DEF IInv
  <2> QED BY <1>1, <2>1, <2>2, HadGrows
<1>9. InRange'
  <2> SUFFICES ASSUME NEW x \in Names, Exists(x)', elem'[x].type \in Integers_,
                      elem'[x].numid \notin half,
                      \A d \in Clients : call'[d].op = "add" => call'[d].numid # elem'[x].numid
               PROVE  elem'[x].val >= elem'[x].min
    BY DEF InRange, Integers_
  <2>1. x # n
    BY <1>1, <1>3
  <2>2. elem'[x] = elem[x] /\ Exists(x)
    BY <1>3, <1>4, <2>1
  <2>3. \A d \in Clients : call[d].op = "add" => call[d].numid # elem[x].numid
    BY <2>2 DEF Idle
  <2> QED BY <2>2, <2>3 DEF IInv, InRange, Integers_
<1> QED BY <1>5, <1>6, <1>7, <1>8, <1>9 DEF IInv, RetKept

\* The ioctl of an add, with or without a first value to write.
LEMMA AddKeeps ==
    ASSUME IInv, NEW c \in Clients, NEW n \in Names, NEW type, NEW min \in Nat, NEW names,
           names <= NamesBuf, NEW next,
           \/ next = Idle /\ type \notin Integers_
           \/ /\ next = [op |-> "add", name |-> n, numid |-> numids + 1, min |-> min]
              /\ type \in Integers_,
           snd_ctl_elem_add(c, n, type, min, names, next)
    PROVE  IInv'
<1>0. call[c] = Idle /\ UNCHANGED <<scenario, present, subscribed, list, half>>
      /\ call \in [Clients -> Calls] /\ numids \in Nat
  BY DEF snd_ctl_elem_add, IInv, Shape
<1>1. ASSUME ~Exists(n), NewElem(n, type, min, names, c, NoData), Starts(c, next),
             Returns(c, IF next = Idle THEN Result("add", 0) ELSE Idle)
      PROVE  IInv'
  <2>1. RetKept
    <3>1. PICK r : /\ r = IF next = Idle THEN Result("add", 0) ELSE Idle
                   /\ r.op \notin {"data", "list"}
      <4>1. Result("add", 0).op = "add" /\ Idle.op = "none"
        BY DEF Result, Idle
      <4> QED BY <4>1
    <3> QED BY <1>0, <1>1, <3>1, RetKeeps DEF Returns
  <2>2. next \in Calls
    BY <1>0 DEF Calls, AddCall
  <2>3. call' \in [Clients -> Calls] /\ \A d \in Clients : call'[d] = IF d = c THEN next ELSE call[d]
    BY <1>0, <1>1, <2>2 DEF Starts
  <2>4. NoData \in Data
    BY DEF Data
  <2>5. type \in Integers_ => \E d \in Clients : call'[d].op = "add" /\ call'[d].numid = numids + 1
    BY <2>3
  <2>6. \A d \in Clients :
               \/ call'[d] = call[d]
               \/ /\ call[d] = Idle /\ c = d /\ type \in Integers_
                  /\ call'[d] = [op |-> "add", name |-> n, numid |-> numids + 1, min |-> min]
    BY <1>0, <2>3
  <2> QED BY <1>0, <1>1, <2>1, <2>3, <2>4, <2>5, <2>6, NewKeeps
<1>2. ASSUME Returns(c, Result("add", IF present THEN EBUSY ELSE ENODEV)),
             UNCHANGED <<elem, numids, queue, call, had>>
      PROVE  IInv'
  <2>1. PICK r : r = Result("add", IF present THEN EBUSY ELSE ENODEV)
    OBVIOUS
  <2>2. r.op \notin {"data", "list"} /\ call[c].op # "add"
    BY <1>0, <2>1 DEF Result, Idle
  <2>3. call' = [call EXCEPT ![c] = Idle] /\ Idle \in Calls
    BY <1>0, <1>2 DEF Calls
  <2> QED BY <1>0, <1>2, <2>1, <2>2, <2>3, EndKeeps DEF Returns
<1> QED BY <1>1, <1>2 DEF snd_ctl_elem_add

\* A process may die between any two steps: its locks are released, and an element
\* it was about to give its first value is known to be half made.
LEMMA DieKeeps ==
    ASSUME IInv, NEW c \in Clients, Die(c)
    PROVE  IInv'
<1>0. /\ elem' = [n \in Names |-> IF Exists(n) /\ elem[n].owner = c
                                  THEN [elem[n] EXCEPT !.owner = NoOne] ELSE elem[n]]
      /\ half' = half \cup {elem[n].numid : n \in {x \in Names : call[c].op = "add" /\ call[c].name = x}}
      /\ call' = [call EXCEPT ![c] = Idle] /\ ret' = [ret EXCEPT ![c] = Idle]
      /\ list' = [list EXCEPT ![c] = [pids |-> 0, space |-> 0, used |-> 0]]
      /\ had' = [had EXCEPT ![c] = {}]
      /\ UNCHANGED <<scenario, numids>>
  BY DEF Die, Starts, Returns
<1>1. \A n \in Names : Exists(n) =>
          /\ Exists(n)' /\ ElemOK(elem'[n])
          /\ elem'[n].numid = elem[n].numid /\ elem'[n].type = elem[n].type
          /\ elem'[n].min = elem[n].min /\ elem'[n].val = elem[n].val /\ elem'[n].tlv = elem[n].tlv
          /\ elem[n].owner # c => elem'[n].owner = elem[n].owner
  <2> SUFFICES ASSUME NEW n \in Names, Exists(n)
               PROVE  /\ Exists(n)' /\ ElemOK(elem'[n])
                      /\ elem'[n].numid = elem[n].numid /\ elem'[n].type = elem[n].type
                      /\ elem'[n].min = elem[n].min /\ elem'[n].val = elem[n].val
                      /\ elem'[n].tlv = elem[n].tlv
                      /\ elem[n].owner # c => elem'[n].owner = elem[n].owner
    OBVIOUS
  <2>1. PICK r : r = elem[n]
    OBVIOUS
  <2>2. ElemOK(r) /\ elem'[n] = IF r.owner = c THEN [r EXCEPT !.owner = NoOne] ELSE r
    BY <1>0, <2>1 DEF IInv, Shape
  <2>3. PICK q : q = [r EXCEPT !.owner = NoOne]
    OBVIOUS
  <2>4. /\ q = [numid |-> r.numid, type |-> r.type, min |-> r.min, val |-> r.val,
                names |-> r.names, owner |-> NoOne, tlv |-> r.tlv]
    BY <2>2, <2>3 DEF ElemOK
  <2>5. ElemOK(q) /\ q.numid = r.numid /\ q.type = r.type /\ q.min = r.min /\ q.val = r.val
        /\ q.tlv = r.tlv
    BY <2>2, <2>4 DEF ElemOK
  <2>6. q # NoElem /\ r # NoElem
    BY <2>2, <2>5 DEF ElemOK, NoElem
  <2> QED BY <2>1, <2>2, <2>3, <2>5, <2>6 DEF Exists
<1>2. \A n \in Names : Exists(n)' => Exists(n)
  BY <1>0 DEF Exists
<1>3. \A d \in Clients : /\ call'[d] = IF d = c THEN Idle ELSE call[d]
                         /\ ret'[d] = IF d = c THEN Idle ELSE ret[d]
                         /\ list'[d] = IF d = c THEN [pids |-> 0, space |-> 0, used |-> 0] ELSE list[d]
                         /\ had'[d] = IF d = c THEN {} ELSE had[d]
  BY <1>0 DEF IInv, Shape
<1>4. Shape'
  <2>1. call' \in [Clients -> Calls]
    BY <1>0 DEF IInv, Shape, Calls
  <2>2. \A n \in Names : Exists(n)' => ElemOK(elem[n])'
    BY <1>1, <1>2 DEF ElemOK
  <2>3. \A d \in Clients : ListOK(list[d])'
    BY <1>3 DEF ListOK, IInv, Shape
  <2>4. elem' = [n \in Names |-> elem'[n]]
    BY <1>0
  <2> QED BY <1>0, <2>1, <2>2, <2>3, <2>4 DEF IInv, Shape
<1>5. NumidInv'
  BY <1>0, <1>1, <1>2 DEF IInv, NumidInv
<1>6. AddInv'
  <2> SUFFICES ASSUME NEW d \in Clients, call'[d].op = "add" PROVE AddOK(d, call[d])'
    BY DEF AddInv, AddOK
  <2>1. d # c /\ call'[d] = call[d]
    BY <1>3 DEF Idle
  <2>2. AddOK(d, call[d]) /\ call[d].name \in Names
    BY <2>1 DEF IInv, AddInv, Shape, Calls, AddCall, TlvCall, WaitCall, Idle
  <2> QED BY <1>1, <2>1, <2>2 DEF AddOK
<1>7. HadInv'
  <2> SUFFICES ASSUME NEW d \in Clients, call'[d].op = "tlv" PROVE HadOK(call[d], had[d])'
    BY DEF HadInv, HadOK
  <2>1. d # c /\ call'[d] = call[d] /\ had'[d] = had[d]
    BY <1>3 DEF Idle
  <2>2. HadOK(call[d], had[d])
    BY DEF IInv, HadInv
  <2> QED BY <1>1, <1>2, <2>1, <2>2 DEF HadOK
<1>8. RetInv'
  <2>1. RetOK(Idle, [pids |-> 0, space |-> 0, used |-> 0])
    BY DEF RetOK, Idle, Result
  <2> QED BY <1>3, <2>1 DEF IInv, RetInv, RetOK
<1>9. InRange'
  <2> SUFFICES ASSUME NEW n \in Names, Exists(n), elem[n].type \in Integers_,
                      elem[n].numid \notin half',
                      \A d \in Clients : call'[d].op = "add" => call'[d].numid # elem[n].numid
               PROVE  elem[n].val >= elem[n].min
    BY <1>1, <1>2 DEF InRange, Integers_
  <2>1. call[c].op = "add" => call[c].numid # elem[n].numid
    <3> SUFFICES ASSUME call[c].op = "add" PROVE call[c].numid # elem[n].numid
      OBVIOUS
    <3>1. AddOK(c, call[c]) /\ call[c].name \in Names
      BY DEF IInv, AddInv, Shape, Calls, AddCall, TlvCall, WaitCall, Idle
    <3>2. elem[call[c].name].numid \in half'
      BY <1>0, <3>1
    <3> QED BY <3>1, <3>2 DEF AddOK
  <2>2. \A d \in Clients : call[d].op = "add" => call[d].numid # elem[n].numid
    BY <1>3, <2>1
  <2> QED BY <1>0, <2>2 DEF IInv, InRange, Integers_
<1> QED BY <1>4, <1>5, <1>6, <1>7, <1>8, <1>9 DEF IInv

\* Why an ioctl fails: a process may write to an element that exists and that no
\* other process has locked.
LEMMA RefusalIs ==
    ASSUME NEW c, NEW n, NEW w \in BOOLEAN
    PROVE  /\ Refusal(c, n, w) \in {ENODEV, ENOENT, EPERM, 0}
           /\ Refusal(c, n, w) = 0 => Exists(n) /\ (w => Mine(c, n))
           /\ Refusal(c, n, w) # 0 => Refusal(c, n, w) < 0
<1> USE DEF ENODEV, ENOENT, EPERM
<1>1. CASE ~present
  BY <1>1 DEF Refusal
<1>2. CASE present /\ ~Exists(n)
  BY <1>2 DEF Refusal
<1>3. CASE present /\ Exists(n)
  BY <1>3 DEF Refusal
<1> QED BY <1>1, <1>2, <1>3

\* One field of an element changes.
LEMMA FieldVal ==
    ASSUME Shape, NEW n \in Names, Exists(n), NEW v \in Nat, elem' = [elem EXCEPT ![n].val = v]
    PROVE  \E r : /\ ElemOK(r) /\ elem' = [elem EXCEPT ![n] = r]
                  /\ r.numid = elem[n].numid /\ r.type = elem[n].type /\ r.min = elem[n].min
                  /\ r.owner = elem[n].owner /\ r.tlv = elem[n].tlv /\ r.val = v
<1>1. PICK q : q = elem[n] /\ ElemOK(q)
  BY DEF Shape
<1>2. PICK r : r = [q EXCEPT !.val = v]
  OBVIOUS
<1>3. r = [numid |-> q.numid, type |-> q.type, min |-> q.min, val |-> v,
           names |-> q.names, owner |-> q.owner, tlv |-> q.tlv]
  BY <1>1, <1>2 DEF ElemOK
<1>4. /\ ElemOK(r) /\ r.numid = q.numid /\ r.type = q.type /\ r.min = q.min
      /\ r.owner = q.owner /\ r.tlv = q.tlv /\ r.val = v
  BY <1>1, <1>3 DEF ElemOK
<1>5. elem' = [elem EXCEPT ![n] = r]
  BY <1>1, <1>2
<1> QED BY <1>1, <1>4, <1>5

\* Another field changes.
LEMMA FieldOwner ==
    ASSUME Shape, NEW n \in Names, Exists(n), NEW o \in Clients \cup {NoOne},
           elem' = [elem EXCEPT ![n].owner = o]
    PROVE  \E r : /\ ElemOK(r) /\ elem' = [elem EXCEPT ![n] = r]
                  /\ r.numid = elem[n].numid /\ r.type = elem[n].type /\ r.min = elem[n].min
                  /\ r.val = elem[n].val /\ r.tlv = elem[n].tlv
<1>1. PICK q : q = elem[n] /\ ElemOK(q)
  BY DEF Shape
<1>2. PICK r : r = [q EXCEPT !.owner = o]
  OBVIOUS
<1>3. r = [numid |-> q.numid, type |-> q.type, min |-> q.min, val |-> q.val,
           names |-> q.names, owner |-> o, tlv |-> q.tlv]
  BY <1>1, <1>2 DEF ElemOK
<1>4. /\ ElemOK(r) /\ r.numid = q.numid /\ r.type = q.type /\ r.min = q.min
      /\ r.val = q.val /\ r.tlv = q.tlv
  BY <1>1, <1>3 DEF ElemOK
<1>5. elem' = [elem EXCEPT ![n] = r]
  BY <1>1, <1>2
<1> QED BY <1>1, <1>4, <1>5

\* Another field changes.
LEMMA FieldTlv ==
    ASSUME Shape, NEW n \in Names, Exists(n), NEW d \in Data, elem' = [elem EXCEPT ![n].tlv = d]
    PROVE  \E r : /\ ElemOK(r) /\ elem' = [elem EXCEPT ![n] = r]
                  /\ r.numid = elem[n].numid /\ r.type = elem[n].type /\ r.min = elem[n].min
                  /\ r.val = elem[n].val /\ r.owner = elem[n].owner
<1>1. PICK q : q = elem[n] /\ ElemOK(q)
  BY DEF Shape
<1>2. PICK r : r = [q EXCEPT !.tlv = d]
  OBVIOUS
<1>3. r = [numid |-> q.numid, type |-> q.type, min |-> q.min, val |-> q.val,
           names |-> q.names, owner |-> q.owner, tlv |-> d]
  BY <1>1, <1>2 DEF ElemOK
<1>4. /\ ElemOK(r) /\ r.numid = q.numid /\ r.type = q.type /\ r.min = q.min
      /\ r.val = q.val /\ r.owner = q.owner
  BY <1>1, <1>3 DEF ElemOK
<1>5. elem' = [elem EXCEPT ![n] = r]
  BY <1>1, <1>2
<1> QED BY <1>1, <1>4, <1>5

-----------------------------------------------------------------------------
(* The calls. *)

\* The call in progress of an add is for an element of the adder's.
LEMMA AddTyped ==
    ASSUME IInv, NEW c \in Clients, call[c].op = "add"
    PROVE  call[c].name \in Names /\ call[c].min \in Nat /\ call[c].numid \in Nat /\ AddOK(c, call[c])
BY DEF IInv, AddInv, Shape, Calls, AddCall, TlvCall, WaitCall, Idle

\* The second ioctl of an add reaches the element that the first one has added, or
\* fails because the card is gone.
LEMMA AddWriteKeeps ==
    ASSUME IInv, NEW c \in Clients, AddWrite(c)
    PROVE  IInv'
<1>1. PICK n, err : n = call[c].name /\ err = Refusal(c, n, TRUE)
  OBVIOUS
<1>2. /\ call[c].op = "add"
      /\ \/ /\ err = 0
            /\ elem' = [elem EXCEPT ![n].val = call[c].min]
            /\ UNCHANGED half
         \/ /\ err < 0
            /\ half' = half \cup {call[c].numid}
            /\ UNCHANGED elem
      /\ call' = [call EXCEPT ![c] = Idle] /\ ret' = [ret EXCEPT ![c] = Result("add", err)]
      /\ UNCHANGED <<scenario, numids, list, had>>
  BY <1>1 DEF AddWrite, Starts, Returns
<1>3. n \in Names /\ call[c].min \in Nat /\ AddOK(c, call[c]) /\ Exists(n)
      /\ elem[n].min = call[c].min /\ elem[n].numid = call[c].numid
  BY <1>1, <1>2, AddTyped DEF AddOK
<1>4. RetKept
  <2>1. Result("add", err).op = "add"
    BY DEF Result
  <2> QED BY <1>2, <2>1, RetKeeps
<1>5. CASE err = 0
  <2>1. elem' = [elem EXCEPT ![n].val = call[c].min] /\ UNCHANGED half
    BY <1>2, <1>5
  <2>2. PICK r : /\ ElemOK(r) /\ elem' = [elem EXCEPT ![n] = r]
                 /\ r.numid = elem[n].numid /\ r.type = elem[n].type /\ r.min = elem[n].min
                 /\ r.owner = elem[n].owner /\ r.tlv = elem[n].tlv /\ r.val = call[c].min
    BY <1>3, <2>1, FieldVal DEF IInv
  <2>3. r.val >= r.min
    BY <1>3, <2>2
  <2> QED BY <1>1, <1>2, <1>3, <1>4, <2>1, <2>2, <2>3, ModKeeps
<1>6. CASE err < 0
  <2>0. elem' = elem /\ half' = half \cup {call[c].numid}
    BY <1>2, <1>6
  <2>1. \A d \in Clients : call'[d] = IF d = c THEN Idle ELSE call[d]
    BY <1>2 DEF IInv, Shape
  <2>2. Shape'
    <3>1. call' \in [Clients -> Calls]
      BY <1>2 DEF IInv, Shape, Calls
    <3> QED BY <1>2, <1>4, <2>0, <3>1 DEF IInv, Shape, RetKept, Exists
  <2>3. NumidInv'
    BY <1>2, <2>0 DEF IInv, NumidInv, Exists
  <2>4. AddInv'
    BY <2>0, <2>1 DEF IInv, AddInv, AddOK, Exists, Idle
  <2>5. HadInv'
    BY <1>2, <2>0, <2>1 DEF IInv, HadInv, HadOK, Exists, Idle
  <2>6. InRange'
    BY <2>0, <2>1 DEF IInv, InRange, Exists
  <2> QED BY <1>4, <2>2, <2>3, <2>4, <2>5, <2>6 DEF IInv, RetKept
<1> QED BY <1>2, <1>5, <1>6

\* Nobody but its adder can touch an element that is being added.
LEMMA NotAdded ==
    ASSUME IInv, NEW c \in Clients, call[c] = Idle, NEW n \in Names, Mine(c, n),
           NEW d \in Clients, call[d].op = "add"
    PROVE  call[d].name # n
<1>1. AddOK(d, call[d]) /\ d # c
  BY AddTyped DEF Idle
<1> QED BY <1>1, ControlConstants DEF AddOK, Mine

\* Calls of one ioctl that change an element, or fail.
LEMMA ValueKeeps ==
    ASSUME IInv, NEW c \in Clients, NEW n \in Names,
           \/ snd_ctl_elem_remove(c, n) \/ snd_ctl_elem_read(c, n)
           \/ \E d \in 0..1 : snd_ctl_elem_write(c, n, d)
           \/ \E b \in BOOLEAN : snd_ctl_elem_lock(c, n, b)
    PROVE  IInv'
<1>0. /\ call[c] = Idle /\ call' = call /\ call[c].op # "add"
      /\ UNCHANGED <<scenario, numids, list, had, half>>
  <2>1. /\ snd_ctl_elem_remove(c, n) => call[c] = Idle /\ UNCHANGED <<scenario, numids, call, list, had, half>>
        /\ snd_ctl_elem_read(c, n) => call[c] = Idle /\ UNCHANGED <<scenario, numids, call, list, had, half>>
    BY DEF snd_ctl_elem_remove, snd_ctl_elem_read, kernel
  <2>2. \A d \in 0..1 : snd_ctl_elem_write(c, n, d) =>
            call[c] = Idle /\ UNCHANGED <<scenario, numids, call, list, had, half>>
    BY DEF snd_ctl_elem_write
  <2>3. \A b \in BOOLEAN : snd_ctl_elem_lock(c, n, b) =>
            call[c] = Idle /\ UNCHANGED <<scenario, numids, call, list, had, half>>
    BY DEF snd_ctl_elem_lock
  <2>4. Idle.op # "add"
    BY DEF Idle
  <2> QED BY <2>1, <2>2, <2>3, <2>4
<1>1. call' = [call EXCEPT ![c] = Idle] /\ Idle \in Calls
  BY <1>0 DEF IInv, Shape, Calls
<1>2. ASSUME NEW r, Returns(c, r), r.op \notin {"data", "list"}
      PROVE  RetKept /\ (elem' = elem => IInv')
  <2>1. RetKept
    BY <1>0, <1>2, RetKeeps DEF Returns
  <2>2. elem' = elem => IInv'
    BY <1>0, <1>1, <1>2, EndKeeps DEF Returns
  <2> QED BY <2>1, <2>2
<1>r. \A op, err : Result(op, err).op = op
  BY DEF Result
<1>q. ASSUME NEW op, NEW err, Returns(c, Result(op, err)), op # "data", op # "list"
      PROVE  RetKept /\ (elem' = elem => IInv')
  <2>1. PICK r : r = Result(op, err)
    OBVIOUS
  <2>2. r.op \notin {"data", "list"}
    BY <1>q, <1>r, <2>1
  <2> QED BY <1>2, <1>q, <2>1, <2>2
<1>3. CASE snd_ctl_elem_remove(c, n)
  <2>1. PICK err : /\ err = IF Exists(n) /\ elem[n].type = "driver" THEN EINVAL ELSE Refusal(c, n, TRUE)
                   /\ Returns(c, Result("remove", err))
                   /\ \/ err = 0 /\ elem' = [elem EXCEPT ![n] = NoElem]
                      \/ err < 0 /\ elem' = elem
    BY <1>3 DEF snd_ctl_elem_remove
  <2>2. RetKept /\ (elem' = elem => IInv')
    <3>1. Returns(c, Result("remove", err))
      BY <2>1
    <3>2. "remove" # "data" /\ "remove" # "list"
      OBVIOUS
    <3> QED BY <1>q, <3>1, <3>2
  <2>3. ASSUME err = 0, elem' = [elem EXCEPT ![n] = NoElem] PROVE IInv'
    <3>1. Refusal(c, n, TRUE) = 0
      <4>1. err = IF Exists(n) /\ elem[n].type = "driver" THEN EINVAL ELSE Refusal(c, n, TRUE)
        BY <2>1
      <4>2. EINVAL # 0
        BY DEF EINVAL
      <4> QED BY <2>3, <4>1, <4>2
    <3>2. Mine(c, n)
      BY <3>1, RefusalIs
    <3>3. \A d \in Clients : call[d].op = "add" => call[d].name # n
      BY <1>0, <3>2, NotAdded
    <3> QED BY <1>0, <2>2, <2>3, <3>3, GoneKeeps
  <2> QED BY <2>1, <2>2, <2>3
<1>4. CASE snd_ctl_elem_read(c, n)
  <2>1. PICK r : /\ r = IF Refusal(c, n, FALSE) = 0 THEN [op |-> "read", err |-> 0, val |-> elem[n].val]
                        ELSE Result("error", Refusal(c, n, FALSE))
                 /\ Returns(c, r) /\ elem' = elem
    BY <1>4 DEF snd_ctl_elem_read, kernel
  <2>2. r.op \in {"read", "error"}
    BY <1>r, <2>1
  <2> QED BY <1>2, <2>1, <2>2
<1>5. ASSUME NEW d \in 0..1, snd_ctl_elem_write(c, n, d) PROVE IInv'
  <2>1. PICK err : /\ err = Refusal(c, n, TRUE) /\ Returns(c, Result("write", err))
                   /\ \/ err = 0 /\ elem' = [elem EXCEPT ![n].val = elem[n].min + d]
                      \/ err < 0 /\ elem' = elem
    BY <1>5 DEF snd_ctl_elem_write
  <2>2. RetKept /\ (elem' = elem => IInv')
    <3>1. Returns(c, Result("write", err))
      BY <2>1
    <3>2. "write" # "data" /\ "write" # "list"
      OBVIOUS
    <3> QED BY <1>q, <3>1, <3>2
  <2>3. ASSUME err = 0, elem' = [elem EXCEPT ![n].val = elem[n].min + d] PROVE IInv'
    <3>1. Exists(n)
      BY <2>1, <2>3, RefusalIs
    <3>2. elem[n].min \in Nat /\ elem[n].min + d \in Nat /\ elem[n].min + d >= elem[n].min
      BY <3>1 DEF IInv, Shape, ElemOK
    <3>3. PICK r : /\ ElemOK(r) /\ elem' = [elem EXCEPT ![n] = r]
                   /\ r.numid = elem[n].numid /\ r.type = elem[n].type /\ r.min = elem[n].min
                   /\ r.owner = elem[n].owner /\ r.tlv = elem[n].tlv /\ r.val = elem[n].min + d
      BY <2>3, <3>1, <3>2, FieldVal DEF IInv
    <3> QED BY <1>0, <1>1, <2>2, <3>1, <3>2, <3>3, ModKeeps
  <2> QED BY <2>1, <2>2, <2>3
<1>6. ASSUME NEW b \in BOOLEAN, snd_ctl_elem_lock(c, n, b) PROVE IInv'
  <2>0. PICK w \in BOOLEAN : w = FALSE
    OBVIOUS
  <2>9. PICK ref : ref = Refusal(c, n, w)
    OBVIOUS
  <2>r. ref \in {ENODEV, ENOENT, EPERM, 0} /\ (ref = 0 => Exists(n)) /\ (ref # 0 => ref < 0)
    BY <2>9, RefusalIs
  <2>1. PICK err : /\ err = IF ref < 0 THEN ref
                            ELSE IF b /\ elem[n].owner # NoOne THEN EBUSY
                            ELSE IF ~b /\ elem[n].owner # c THEN EPERM ELSE 0
                   /\ Returns(c, Result("lock", err))
                   /\ elem' = IF err = 0 THEN [elem EXCEPT ![n].owner = IF b THEN c ELSE NoOne] ELSE elem
    BY <1>6, <2>0, <2>9 DEF snd_ctl_elem_lock
  <2>2. RetKept /\ (elem' = elem => IInv')
    <3>1. Returns(c, Result("lock", err))
      BY <2>1
    <3>2. "lock" # "data" /\ "lock" # "list"
      OBVIOUS
    <3> QED BY <1>q, <3>1, <3>2
  <2>3. ASSUME err = 0, elem' = [elem EXCEPT ![n].owner = IF b THEN c ELSE NoOne] PROVE IInv'
    <3>1. PICK ow : ow = elem[n].owner
      OBVIOUS
    <3>2. 0 = IF ref < 0 THEN ref ELSE IF b /\ ow # NoOne THEN EBUSY ELSE IF ~b /\ ow # c THEN EPERM ELSE 0
      BY <2>1, <2>3, <3>1
    <3>3. ref = 0 /\ ow \in {c, NoOne}
      <4>1. CASE ref < 0
        BY <2>r, <3>2, <4>1 DEF ENODEV, ENOENT, EPERM
      <4>2. CASE ~(ref < 0)
        <5>1. ref = 0
          BY <2>r, <4>2
        <5>2. CASE b
          BY <3>2, <4>2, <5>1, <5>2 DEF EBUSY
        <5>3. CASE ~b
          BY <3>2, <4>2, <5>1, <5>3 DEF EPERM
        <5> QED BY <5>1, <5>2, <5>3
      <4> QED BY <4>1, <4>2
    <3>4. \A d \in Clients : call[d].op = "add" => call[d].name # n
      <4>1. Mine(c, n)
        BY <3>1, <3>3 DEF Mine
      <4> QED BY <1>0, <4>1, NotAdded
    <3>5. PICK o \in Clients \cup {NoOne} : o = IF b THEN c ELSE NoOne
      OBVIOUS
    <3>6. PICK r : /\ ElemOK(r) /\ elem' = [elem EXCEPT ![n] = r]
                   /\ r.numid = elem[n].numid /\ r.type = elem[n].type /\ r.min = elem[n].min
                   /\ r.val = elem[n].val /\ r.tlv = elem[n].tlv
      <4>1. Shape /\ Exists(n) /\ elem' = [elem EXCEPT ![n].owner = o]
        BY <2>r, <2>3, <3>3, <3>5 DEF IInv
      <4> QED BY <4>1, FieldOwner
    <3> QED BY <1>0, <1>1, <2>r, <2>2, <3>3, <3>4, <3>6, ModKeeps
  <2> QED BY <2>1, <2>2, <2>3
<1> QED BY <1>3, <1>4, <1>5, <1>6

\* A driver comes and goes with elements of its own, which no process is adding.
LEMMA DriverKeeps ==
    ASSUME IInv, NEW n \in Names,
           \/ \E t \in scenario.tlvs : DriverAdds(n, t)
           \/ DriverRemoves(n)
    PROVE  IInv'
<1>t. "driver" \notin Integers_
  BY DEF Integers_
<1>1. ASSUME NEW t \in scenario.tlvs, DriverAdds(n, t) PROVE IInv'
  <2>1. ~Exists(n) /\ UNCHANGED <<scenario, half, call, ret, list>> /\ NewElem(n, "driver", 0, 0, NoOne, t)
    BY <1>1 DEF DriverAdds
  <2>2. PICK type, names, min : type = "driver" /\ names = 0 /\ min = 0
    OBVIOUS
  <2>3. NewElem(n, type, min, names, NoOne, t) /\ type \notin Integers_ /\ min \in Nat /\ names <= NamesBuf
    BY <1>t, <2>1, <2>2, ControlConstants
  <2>4. t \in Data /\ NoOne \in Clients \cup {NoOne}
    BY DataTyped DEF IInv
  <2>5. RetKept
    BY <2>1, RetKeeps
  <2>6. call' \in [Clients -> Calls]
    BY <2>1 DEF IInv, Shape
  <2> QED BY <2>1, <2>3, <2>4, <2>5, <2>6, NewKeeps
<1>2. CASE DriverRemoves(n)
  <2>1. /\ elem[n].type = "driver" /\ elem' = [elem EXCEPT ![n] = NoElem]
        /\ UNCHANGED <<scenario, numids, half, call, had, ret, list>>
    BY <1>2 DEF DriverRemoves
  <2>2. RetKept
    BY <2>1, RetKeeps
  <2>3. \A d \in Clients : call[d].op = "add" => call[d].name # n
    BY <1>t, <2>1, AddTyped DEF AddOK, Integers_
  <2> QED BY <2>1, <2>2, <2>3, GoneKeeps
<1> QED BY <1>1, <1>2

\* One name after the other: the loop gives up before the buffer is full.
LEMMA FlattenFits ==
    ASSUME NEW lens, NEW L \in 0..2, Len(lens) = L, \A i \in 1..L : lens[i] \in Int
    PROVE  Names_flatten(lens) \in Int /\ Names_flatten(lens) <= NamesBuf
<1> DEFINE Room(l, x) == IF l < 0 \/ l + x + 1 >= NamesBuf THEN ENOMEM ELSE l + x + 1
           F(g) == g = [i \in 0..L |-> IF i = 0 THEN 0 ELSE Room(g[i - 1], lens[i])]
           g1 == Room(0, lens[1])
           g2 == Room(g1, lens[2])
           g == [i \in 0..L |-> IF i = 0 THEN 0 ELSE IF i = 1 THEN g1 ELSE g2]
<1>0. L \in Nat /\ (L = 0 \/ L = 1 \/ L = 2) /\ Len(lens) = L
  OBVIOUS
<1>1. F(g)
  <2>1. ASSUME NEW i \in 0..L PROVE g[i] = IF i = 0 THEN 0 ELSE Room(g[i - 1], lens[i])
    <3> HIDE DEF Room
    <3>1. CASE i = 0
      BY <3>1
    <3>2. CASE i = 1
      BY <3>2, <1>0
    <3>3. CASE i = 2
      BY <3>3, <1>0
    <3> QED BY <1>0, <3>1, <3>2, <3>3
  <2> HIDE DEF Room
  <2> QED BY <2>1
<1>2. Names_flatten(lens) = (CHOOSE h : F(h))[L]
  BY DEF Names_flatten
<1>3. PICK h : F(h) /\ Names_flatten(lens) = h[L]
  BY <1>1, <1>2
<1>4. \A l, x \in Int : Room(l, x) \in Int /\ Room(l, x) <= NamesBuf
  BY ControlConstants DEF ENOMEM
<1> HIDE DEF Room
<1>5. \A i \in 0..L : h[i] = IF i = 0 THEN 0 ELSE Room(h[i - 1], lens[i])
  BY <1>3
<1>6. h[0] = 0
  BY <1>0, <1>5
<1>7. ASSUME L >= 1 PROVE h[1] \in Int /\ h[1] <= NamesBuf
  <2>1. 1 \in 0..L /\ 1 \in 1..L /\ 1 # 0 /\ 1 - 1 = 0
    BY <1>7
  <2>2. h[1] = IF 1 = 0 THEN 0 ELSE Room(h[1 - 1], lens[1])
    BY <1>5, <2>1
  <2>3. h[1] = Room(h[0], lens[1])
    BY <2>1, <2>2
  <2>4. PICK x \in Int, l \in Int : x = lens[1] /\ l = h[0]
    BY <1>6, <2>1
  <2>5. Room(l, x) \in Int /\ Room(l, x) <= NamesBuf
    BY <1>4
  <2> QED BY <2>3, <2>4, <2>5
<1>8. ASSUME L = 2 PROVE h[2] \in Int /\ h[2] <= NamesBuf
  <2>1. 2 \in 0..L /\ 2 \in 1..L /\ 2 # 0 /\ 2 - 1 = 1
    BY <1>8
  <2>2. h[2] = IF 2 = 0 THEN 0 ELSE Room(h[2 - 1], lens[2])
    BY <1>5, <2>1
  <2>3. h[2] = Room(h[1], lens[2])
    BY <2>1, <2>2
  <2>4. PICK x \in Int, l \in Int : x = lens[2] /\ l = h[1]
    BY <1>7, <1>8, <2>1
  <2>5. Room(l, x) \in Int /\ Room(l, x) <= NamesBuf
    BY <1>4
  <2> QED BY <2>3, <2>4, <2>5
<1> QED BY <1>0, <1>3, <1>6, <1>7, <1>8, ControlConstants

\* The names of the items, as many and as long as the model has them.
LEMMA NamesFlatten ==
    ASSUME NEW lens \in EnumNames PROVE Names_flatten(lens) <= NamesBuf
<1> DEFINE N == NamesBuf
<1>0. N \in Nat
  BY ControlConstants
<1>1. CASE lens = <<>>
  <2>1. Len(lens) = 0 /\ 0 \in 0..2 /\ \A i \in 1..0 : lens[i] \in Int
    BY <1>1
  <2> QED BY <2>1, FlattenFits
<1>2. ASSUME NEW x \in Int, lens = <<x>> PROVE Names_flatten(lens) <= NamesBuf
  <2>1. Len(lens) = 1 /\ 1 \in 0..2 /\ \A i \in 1..1 : lens[i] \in Int
    BY <1>2
  <2> QED BY <2>1, FlattenFits
<1>3. ASSUME NEW x \in Int, NEW y \in Int, lens = <<x, y>> PROVE Names_flatten(lens) <= NamesBuf
  <2>1. Len(lens) = 2 /\ 2 \in 0..2 /\ \A i \in 1..2 : lens[i] \in Int
    BY <1>3
  <2> QED BY <2>1, FlattenFits
<1>4. NamesBuf - 2 \in Int /\ NamesBuf - 1 \in Int /\ 0 \in Int
  BY <1>0
<1> QED BY <1>1, <1>2, <1>3, <1>4 DEF EnumNames

\* The calls that add an element: those of a type with a range go on to write its
\* first value.
LEMMA AddCallsKeep ==
    ASSUME IInv, NEW c \in Clients, AddCalls(c)
    PROVE  IInv'
<1>1. PICK n \in Names :
          \/ \E x \in Mins : snd_ctl_elem_add_integer(c, n, x) \/ snd_ctl_elem_add_integer64(c, n, x)
          \/ snd_ctl_elem_add_boolean(c, n) \/ snd_ctl_elem_add_iec958(c, n)
          \/ \E lens \in EnumNames : snd_ctl_elem_add_enumerated(c, n, lens)
          \/ snd_ctl_elem_remove(c, n)
  BY DEF AddCalls
<1>2. ASSUME NEW x \in Mins, NEW type \in Integers_,
             snd_ctl_elem_add(c, n, type, x, 0, [op |-> "add", name |-> n, numid |-> numids + 1, min |-> x])
      PROVE  IInv'
  <2>1. x \in Nat
    BY ControlConstants
  <2>2. PICK next, names : /\ next = [op |-> "add", name |-> n, numid |-> numids + 1, min |-> x]
                           /\ names = 0
    OBVIOUS
  <2>3. snd_ctl_elem_add(c, n, type, x, names, next) /\ names <= NamesBuf
    BY <1>2, <2>2, ControlConstants
  <2> QED BY <2>1, <2>2, <2>3, AddKeeps
<1>3. ASSUME NEW type, NEW names, names <= NamesBuf, type \notin Integers_,
             snd_ctl_elem_add(c, n, type, 0, names, Idle)
      PROVE  IInv'
  <2>1. PICK next, min : next = Idle /\ min = 0
    OBVIOUS
  <2>2. snd_ctl_elem_add(c, n, type, min, names, next) /\ min \in Nat
    BY <1>3, <2>1
  <2> QED BY <1>3, <2>1, <2>2, AddKeeps
<1>4. ASSUME NEW x \in Mins, snd_ctl_elem_add_integer(c, n, x) \/ snd_ctl_elem_add_integer64(c, n, x)
      PROVE  IInv'
  <2>1. "integer" \in Integers_ /\ "integer64" \in Integers_
    BY DEF Integers_
  <2> QED BY <1>2, <1>4, <2>1 DEF snd_ctl_elem_add_integer, snd_ctl_elem_add_integer64
<1>5. CASE snd_ctl_elem_add_boolean(c, n) \/ snd_ctl_elem_add_iec958(c, n)
  <2>1. "boolean" \notin Integers_ /\ "iec958" \notin Integers_ /\ 0 <= NamesBuf
    BY ControlConstants DEF Integers_
  <2> QED BY <1>3, <1>5, <2>1 DEF snd_ctl_elem_add_boolean, snd_ctl_elem_add_iec958
<1>6. ASSUME NEW lens \in EnumNames, snd_ctl_elem_add_enumerated(c, n, lens) PROVE IInv'
  <2>1. CASE /\ call[c] = Idle
             /\ Returns(c, Result("add", IF protocol < 7 THEN ENXIO ELSE IF lens = <<>> THEN EINVAL ELSE ENOMEM))
             /\ UNCHANGED <<kernel, call, list, had>>
    <3>1. PICK err : err = IF protocol < 7 THEN ENXIO ELSE IF lens = <<>> THEN EINVAL ELSE ENOMEM
      OBVIOUS
    <3>2. PICK r : r = Result("add", err) /\ ret' = [ret EXCEPT ![c] = r]
      BY <2>1, <3>1 DEF Returns
    <3>3. r.op \notin {"data", "list"} /\ call[c].op # "add" /\ Idle \in Calls
      BY <2>1, <3>2 DEF Result, Idle, Calls
    <3>4. call' = [call EXCEPT ![c] = Idle] /\ UNCHANGED <<scenario, elem, numids, half, list, had>>
      BY <2>1 DEF kernel, IInv, Shape
    <3> QED BY <3>2, <3>3, <3>4, EndKeeps
  <2>2. CASE snd_ctl_elem_add(c, n, "enumerated", 0, Names_flatten(lens), Idle)
    <3>1. "enumerated" \notin Integers_
      BY DEF Integers_
    <3>2. PICK names : names = Names_flatten(lens) /\ names <= NamesBuf
      BY NamesFlatten
    <3> QED BY <1>3, <2>2, <3>1, <3>2
  <2> QED BY <1>6, <2>1, <2>2 DEF snd_ctl_elem_add_enumerated
<1>7. CASE snd_ctl_elem_remove(c, n)
  BY <1>7, ValueKeeps
<1> QED BY <1>1, <1>4, <1>5, <1>6, <1>7

\* A call that ends in an error code, or a code that says how it went.
LEMMA ResultKeeps ==
    ASSUME IInv, NEW c \in Clients, call[c].op # "add", NEW op, op # "data", op # "list", NEW err,
           UNCHANGED <<scenario, elem, numids, half, list>>,
           Starts(c, Idle) \/ (call' = call /\ call[c] = Idle), Returns(c, Result(op, err)),
           had' = had \/ had' = [had EXCEPT ![c] = {}]
    PROVE  IInv'
<1>1. PICK r : r = Result(op, err) /\ ret' = [ret EXCEPT ![c] = r]
  BY DEF Returns
<1>2. r.op \notin {"data", "list"} /\ Idle \in Calls
  BY <1>1 DEF Result, Calls
<1>3. call' = [call EXCEPT ![c] = Idle]
  BY DEF Starts, IInv, Shape
<1> QED BY <1>1, <1>2, <1>3, EndKeeps

\* The call in progress of a TLV operation.
LEMMA TlvTyped ==
    ASSUME IInv, NEW c \in Clients, call[c].op = "tlv"
    PROVE  /\ call[c] \in TlvCall /\ call[c].op # "add"
           /\ call[c].numid \in Nat /\ call[c].size \in Nat /\ call[c].tlv \in Data
           /\ call[c].numid = 0 => call[c].name \in Names
BY DEF IInv, Shape, Calls, AddCall, TlvCall, WaitCall, Idle

\* A TLV operation starts: a read knows the data its element has now.
LEMMA TlvCallsKeep ==
    ASSUME IInv, NEW c \in Clients, TlvCalls(c)
    PROVE  IInv'
<1>1. PICK n \in Names, num \in 0..MaxNumid :
          \/ \E s \in Sizes : snd_ctl_elem_tlv(c, "read", n, num, NoData, s)
          \/ \E t \in scenario.tlvs, cmd \in {"write", "command"} : snd_ctl_elem_tlv(c, cmd, n, num, t, 0)
  BY DEF TlvCalls
<1>2. num \in Nat
  BY ControlConstants
<1>3. ASSUME NEW cmd \in {"read", "write", "command"}, NEW t \in Data, NEW s \in Nat,
             snd_ctl_elem_tlv(c, cmd, n, num, t, s)
      PROVE  IInv'
  <2>0. call[c] = Idle /\ UNCHANGED <<scenario, elem, numids, half, list>> /\ call[c].op # "add"
    BY <1>3 DEF snd_ctl_elem_tlv, kernel, Idle
  <2>1. CASE Returns(c, Result("tlv", EINVAL)) /\ UNCHANGED <<call, had>>
    <3>1. "tlv" # "data" /\ "tlv" # "list"
      OBVIOUS
    <3> QED BY <2>0, <2>1, <3>1, ResultKeeps
  <2>2. ASSUME NEW k, NEW h,
               k = [op |-> "tlv", cmd |-> cmd, name |-> IF num = 0 THEN n ELSE NoOne, numid |-> num,
                    tlv |-> t, size |-> IF cmd = "read" THEN s ELSE t.len + 2],
               h = IF cmd # "read" THEN {}
                   ELSE {elem[x].tlv : x \in IF num = 0 THEN {y \in {n} : Exists(y)} ELSE ByNumid(num)},
               Starts(c, k), had' = [had EXCEPT ![c] = h], Returns(c, Idle)
        PROVE  IInv'
    <3>1. PICK z : z = (IF cmd = "read" THEN s ELSE t.len + 2) /\ z \in Nat
      BY DataTyped
    <3>2. k.op = "tlv" /\ k.cmd = cmd /\ k.numid = num /\ (num = 0 => k.name = n)
      BY <2>2
    <3>3. k \in TlvCall
      BY <1>2, <2>2, <3>1 DEF TlvCall
    <3>4. HadOK(k, h)
      <4> SUFFICES ASSUME cmd = "read", NEW m \in Names, Exists(m),
                          IF num = 0 THEN n = m ELSE elem[m].numid = num
                   PROVE  elem[m].tlv \in h
        BY <3>2 DEF HadOK
      <4> QED BY <2>2 DEF ByNumid
    <3>5. PICK l : l = list[c] /\ list' = [list EXCEPT ![c] = l] /\ ListOK(l)
      BY <2>0 DEF IInv, Shape
    <3>6. RetOK(Idle, l)
      BY DEF RetOK, Idle, Result
    <3>7. ClientStep(c, k, Idle, l, h)
      BY <2>2, <3>5 DEF ClientStep, Starts, Returns
    <3>8. k \in Calls /\ k.op # "add"
      BY <3>2, <3>3 DEF Calls
    <3> HIDE <2>2
    <3> QED BY <2>0, <3>4, <3>5, <3>6, <3>7, <3>8, ClientKeeps
  <2> QED BY <1>3, <2>1, <2>2 DEF snd_ctl_elem_tlv
<1>4. NoData \in Data /\ scenario.tlvs \subseteq Data /\ Sizes \subseteq Nat /\ 0 \in Nat
  BY DataTyped, ControlConstants DEF Data, IInv
<1> QED BY <1>1, <1>3, <1>4

\* A name that is looked up keeps its element: its numid names no other one.
LEMMA TlvLookupKeeps ==
    ASSUME IInv, NEW c \in Clients, TlvLookup(c)
    PROVE  IInv'
<1>0. PICK n, w, err : n = call[c].name /\ w = FALSE /\ err = Refusal(c, n, w)
  OBVIOUS
<1>1. /\ call[c].op = "tlv" /\ call[c].numid = 0
      /\ UNCHANGED <<scenario, elem, numids, half, list>>
      /\ \/ /\ err = 0 /\ Starts(c, [call[c] EXCEPT !.numid = elem[n].numid]) /\ UNCHANGED <<ret, had>>
         \/ /\ err < 0 /\ Starts(c, Idle) /\ Returns(c, Result("tlv", err))
            /\ had' = [had EXCEPT ![c] = {}]
  BY <1>0 DEF TlvLookup, kernel
<1>2. /\ call[c] \in TlvCall /\ call[c].op # "add" /\ n \in Names
  BY <1>0, <1>1, TlvTyped
<1>3. CASE /\ err = 0 /\ Starts(c, [call[c] EXCEPT !.numid = elem[n].numid]) /\ UNCHANGED <<ret, had>>
  <2>1. Exists(n)
    BY <1>0, <1>3, RefusalIs
  <2>2. elem[n].numid \in Nat \ {0}
    BY <1>2, <2>1 DEF IInv, Shape, ElemOK
  <2>3. PICK q : q = call[c]
    OBVIOUS
  <2>4. PICK k : k = [q EXCEPT !.numid = elem[n].numid] /\ Starts(c, k)
    BY <1>3, <2>3
  <2>5. q \in [op : {"tlv"}, cmd : {"read", "write", "command"}, name : Names \cup {NoOne},
               numid : Nat, tlv : Data, size : Nat]
    BY <1>2, <2>3 DEF TlvCall
  <2>6. /\ k \in [op : {"tlv"}, cmd : {"read", "write", "command"}, name : Names \cup {NoOne},
                   numid : Nat, tlv : Data, size : Nat]
        /\ k.numid = elem[n].numid /\ k.name = q.name /\ k.cmd = q.cmd /\ k.op = "tlv"
    BY <2>2, <2>4, <2>5
  <2>7. k \in Calls /\ k.op # "add"
    BY <2>2, <2>6 DEF Calls, TlvCall
  <2>8. PICK h, r, l : /\ h = had[c] /\ r = ret[c] /\ l = list[c]
                       /\ had' = [had EXCEPT ![c] = h] /\ ret' = [ret EXCEPT ![c] = r]
                       /\ list' = [list EXCEPT ![c] = l]
    <3>1. had' = had /\ ret' = ret /\ list' = list
      BY <1>1, <1>3
    <3>2. /\ had' = [had EXCEPT ![c] = had[c]] /\ ret' = [ret EXCEPT ![c] = ret[c]]
          /\ list' = [list EXCEPT ![c] = list[c]]
      BY <3>1 DEF IInv, Shape
    <3> QED BY <3>2
  <2>9. HadOK(k, h)
    <3>1. HadOK(q, h)
      BY <2>3, <2>8 DEF IInv, HadInv
    <3>2. q.numid = 0 /\ q.name = n /\ q.op = "tlv"
      BY <1>0, <1>1, <2>3
    <3>3. \A m \in Names : Exists(m) /\ elem[m].numid = elem[n].numid => m = n
      BY <1>2, <2>1 DEF IInv, NumidInv
    <3> QED BY <2>1, <2>2, <2>6, <3>1, <3>2, <3>3 DEF HadOK
  <2>10. ListOK(l) /\ RetOK(r, l)
    BY <2>8 DEF IInv, Shape, RetInv
  <2>11. ClientStep(c, k, r, l, h)
    BY <2>4, <2>8 DEF ClientStep, Starts
  <2> QED BY <1>1, <1>2, <2>7, <2>9, <2>10, <2>11, ClientKeeps
<1>4. CASE /\ Starts(c, Idle) /\ Returns(c, Result("tlv", err)) /\ had' = [had EXCEPT ![c] = {}]
  <2>1. "tlv" # "data" /\ "tlv" # "list"
    OBVIOUS
  <2> QED BY <1>1, <1>2, <1>4, <2>1, ResultKeeps
<1> QED BY <1>1, <1>3, <1>4

\* What a read of an element with the TLV data t ends in.
ErrOf(t) == IF t = NoData THEN ENXIO ELSE 0
DataOf(t) == IF t.type = "empty" THEN Untouched ELSE t
Answer(c, e, d, len, size) ==
    CASE e < 0 -> Result("tlv", e)
      [] e = 0 /\ len < 0 -> Result("tlv", len)
      [] e = 0 /\ len >= 0 /\ d = Unset -> Result("tlv", ENXIO)
      [] OTHER -> [op |-> "data", data |-> d, len |-> len, size |-> size, had |-> had[c]]

\* What a read returns is data its element has had since the call began, and no
\* more of it than the buffer holds.
LEMMA TlvReadKeeps ==
    ASSUME IInv, NEW c \in Clients, TlvRead(c)
    PROVE  IInv'
<1>0. PICK num, size : num = call[c].numid /\ size = call[c].size
  OBVIOUS
<1>1. /\ call[c].op = "tlv" /\ call[c].cmd = "read" /\ num # 0
      /\ Starts(c, Idle) /\ had' = [had EXCEPT ![c] = {}]
      /\ UNCHANGED <<scenario, elem, numids, half, list>>
  BY <1>0 DEF TlvRead, kernel
<1>2. call[c].op # "add" /\ size \in Nat
  BY <1>0, <1>1, TlvTyped
<1>3. ASSUME NEW err, Returns(c, Result("tlv", err)) PROVE IInv'
  <2>1. "tlv" # "data" /\ "tlv" # "list"
    OBVIOUS
  <2> QED BY <1>1, <1>2, <1>3, <2>1, ResultKeeps
<1>4. ASSUME NEW n \in ByNumid(num), NEW t, NEW e, NEW d, NEW len, t = elem[n].tlv,
             e = IF t = NoData THEN ENXIO ELSE 0, d = IF t.type = "empty" THEN Untouched ELSE t,
             len = Copied(d, size),
             Returns(c, Answer(c, e, d, len, size))
      PROVE  IInv'
  <2>1. n \in Names /\ elem[n].numid = num /\ Exists(n)
    BY <1>1, <1>4 DEF ByNumid, Exists, NoElem
  <2>2. t \in Data /\ t \in had[c]
    <3>1. HadOK(call[c], had[c])
      BY DEF IInv, HadInv
    <3> QED BY <1>0, <1>1, <1>4, <2>1, <3>1 DEF HadOK, IInv, Shape, ElemOK
  <2>3. d.len \in Nat
    BY <1>4, <2>2, DataTyped DEF Untouched, Unset
  <2>4. len = (IF d.len + 2 > size THEN -14 ELSE d.len + 2)
    BY <1>4 DEF Copied, EFAULT
  <2>5. len \in Int /\ (len >= 0 => len <= size) /\ (len < 0 \/ len >= 0)
    BY <1>2, <2>3, <2>4
  <2>6. e = 0 \/ e < 0
    BY <1>4 DEF ENXIO
  <2>7. CASE e = 0 /\ len >= 0 /\ d # Unset
    <3>1. PICK r : /\ r = [op |-> "data", data |-> d, len |-> len, size |-> size, had |-> had[c]]
                   /\ Returns(c, r)
      <4>1. ~(e < 0) /\ ~(len < 0)
        BY <2>5, <2>7
      <4> QED BY <1>4, <2>7, <4>1 DEF Answer
    <3>2. d = t
      BY <1>4, <2>7 DEF Untouched
    <3>3. r.op = "data" /\ r.data \in r.had /\ r.len <= r.size
      BY <2>2, <2>5, <2>7, <3>1, <3>2
    <3>4. PICK l : l = list[c] /\ list' = [list EXCEPT ![c] = l] /\ ListOK(l)
      BY <1>1 DEF IInv, Shape
    <3>5. RetOK(r, l)
      BY <3>3 DEF RetOK, Result
    <3>6. PICK h : h = {}
      OBVIOUS
    <3>7. ClientStep(c, Idle, r, l, h)
      BY <1>1, <3>1, <3>4, <3>6 DEF ClientStep, Starts, Returns
    <3>8. Idle \in Calls /\ Idle.op # "add" /\ HadOK(Idle, h)
      BY DEF Calls, Idle, HadOK
    <3> HIDE <1>4
    <3> QED BY <1>1, <1>2, <3>4, <3>5, <3>7, <3>8, ClientKeeps
  <2>8. CASE ~(e = 0 /\ len >= 0 /\ d # Unset)
    <3>1. CASE e < 0
      <4>1. ~(e = 0)
        BY <3>1
      <4>2. Returns(c, Result("tlv", e))
        BY <1>4, <3>1, <4>1 DEF Answer
      <4> QED BY <1>3, <4>2
    <3>2. CASE e = 0 /\ len < 0
      <4>1. ~(e < 0) /\ ~(len >= 0)
        BY <2>5, <3>2
      <4>2. Returns(c, Result("tlv", len))
        BY <1>4, <3>2, <4>1 DEF Answer
      <4> QED BY <1>3, <4>2
    <3>3. CASE e = 0 /\ len >= 0 /\ d = Unset
      <4>1. ~(e < 0) /\ ~(len < 0)
        BY <2>5, <3>3
      <4>2. Returns(c, Result("tlv", ENXIO))
        BY <1>4, <3>3, <4>1 DEF Answer
      <4> QED BY <1>3, <4>2
    <3> QED BY <2>5, <2>6, <2>8, <3>1, <3>2, <3>3
  <2> QED BY <2>7, <2>8
<1>5. ASSUME NEW n \in ByNumid(num),
             Returns(c, Answer(c, ErrOf(elem[n].tlv), DataOf(elem[n].tlv),
                               Copied(DataOf(elem[n].tlv), size), size))
      PROVE  IInv'
  <2>1. PICK t, e, d, len : /\ t = elem[n].tlv /\ e = ErrOf(t) /\ d = DataOf(t)
                            /\ len = Copied(d, size)
    OBVIOUS
  <2> QED BY <1>4, <1>5, <2>1 DEF ErrOf, DataOf
<1>6. \/ \E err : Returns(c, Result("tlv", err))
      \/ \E n \in ByNumid(num) :
            Returns(c, Answer(c, ErrOf(elem[n].tlv), DataOf(elem[n].tlv),
                              Copied(DataOf(elem[n].tlv), size), size))
  BY <1>0, Zenon DEF TlvRead, Answer, ErrOf, DataOf
<1> QED BY <1>3, <1>5, <1>6

\* Data that is written to an element is shown to those who read it.
LEMMA TlvWriteKeeps ==
    ASSUME IInv, NEW c \in Clients, TlvWrite(c)
    PROVE  IInv'
<1>0. PICK num : num = call[c].numid
  OBVIOUS
<1>1. /\ call[c].op = "tlv" /\ num # 0 /\ Starts(c, Idle)
      /\ UNCHANGED <<scenario, numids, half, list>>
  BY <1>0 DEF TlvWrite
<1>2. call[c].op # "add" /\ call[c].tlv \in Data
  BY <1>1, TlvTyped
<1>3. ASSUME NEW err, Returns(c, Result("tlv", err)) PROVE RetKept /\ (elem' = elem /\ had' = had => IInv')
  <2>1. "tlv" # "data" /\ "tlv" # "list"
    OBVIOUS
  <2>2. PICK r : r = Result("tlv", err)
    OBVIOUS
  <2>3. r.op \notin {"data", "list"}
    BY <2>2 DEF Result
  <2>4. RetKept
    BY <1>1, <1>3, <2>2, <2>3, RetKeeps DEF Returns
  <2>5. elem' = elem /\ had' = had => IInv'
    BY <1>1, <1>2, <1>3, <2>1, ResultKeeps
  <2> QED BY <2>4, <2>5
<1>4. ASSUME NEW n \in ByNumid(num), elem' = [elem EXCEPT ![n].tlv = call[c].tlv],
             Seen(n, elem'[n]), Returns(c, Result("tlv", 0))
      PROVE  IInv'
  <2>1. n \in Names /\ Exists(n)
    BY <1>1 DEF ByNumid, Exists, NoElem
  <2>2. PICK d \in Data : d = call[c].tlv
    BY <1>2
  <2>3. PICK r : /\ ElemOK(r) /\ elem' = [elem EXCEPT ![n] = r]
                 /\ r.numid = elem[n].numid /\ r.type = elem[n].type /\ r.min = elem[n].min
                 /\ r.val = elem[n].val /\ r.owner = elem[n].owner
    <3>1. Shape /\ elem' = [elem EXCEPT ![n].tlv = d]
      BY <1>4, <2>2 DEF IInv
    <3> QED BY <2>1, <3>1, FieldTlv
  <2>4. RetKept /\ call' = [call EXCEPT ![c] = Idle] /\ Seen(n, elem'[n])
    BY <1>1, <1>3, <1>4 DEF Starts
  <2> HIDE <1>4
  <2> QED BY <1>1, <1>2, <2>1, <2>3, <2>4, ModKeeps
<1>5. \/ \E err : Returns(c, Result("tlv", err)) /\ elem' = elem /\ had' = had
      \/ \E n \in ByNumid(num) : /\ elem' = [elem EXCEPT ![n].tlv = call[c].tlv]
                                 /\ Seen(n, elem'[n]) /\ Returns(c, Result("tlv", 0))
  BY <1>0, Zenon DEF TlvWrite
<1> QED BY <1>3, <1>4, <1>5

\* Events are read and waited for without touching an element.
LEMMA EventsKeep ==
    ASSUME IInv, NEW c \in Clients,
           \/ PollReturns(c) \/ PollInterrupted(c)
           \/ \E b \in BOOLEAN : snd_ctl_subscribe_events(c, b) \/ snd_ctl_wait(c, b) \/ snd_ctl_read(c, b)
    PROVE  IInv'
<1>0. "wait" # "data" /\ "wait" # "list" /\ "subscribe" # "data" /\ "subscribe" # "list"
      /\ "error" # "data" /\ "error" # "list" /\ Idle.op # "add"
  BY DEF Idle
<1>1. CASE PollReturns(c) \/ PollInterrupted(c)
  <2>1. PICK err : Returns(c, Result("wait", err))
    BY <1>1 DEF PollReturns, PollInterrupted
  <2>2. call[c].op = "wait" /\ Starts(c, Idle) /\ UNCHANGED <<scenario, elem, numids, half, list, had>>
    BY <1>1 DEF PollReturns, PollInterrupted, kernel
  <2> QED BY <1>0, <2>1, <2>2, ResultKeeps
<1>2. ASSUME NEW b \in BOOLEAN, snd_ctl_subscribe_events(c, b) PROVE IInv'
  <2>1. PICK err : Returns(c, Result("subscribe", err))
    BY <1>2 DEF snd_ctl_subscribe_events
  <2>2. call[c] = Idle /\ UNCHANGED <<scenario, elem, numids, half, list, had, call>>
    BY <1>2 DEF snd_ctl_subscribe_events
  <2> QED BY <1>0, <2>1, <2>2, ResultKeeps
<1>3. ASSUME NEW b \in BOOLEAN, snd_ctl_wait(c, b) PROVE IInv'
  <2>1. /\ call[c] = Idle /\ UNCHANGED <<scenario, elem, numids, half, list, had>>
        /\ call' = [call EXCEPT ![c] = [op |-> "wait", forever |-> b]] /\ ret' = [ret EXCEPT ![c] = Idle]
    BY <1>3 DEF snd_ctl_wait, Starts, Returns, kernel
  <2>2. PICK k : k = [op |-> "wait", forever |-> b]
    OBVIOUS
  <2>3. k \in Calls /\ k.op = "wait"
    BY <2>2 DEF Calls, WaitCall
  <2>4. PICK h : h = had[c] /\ had' = [had EXCEPT ![c] = h]
    BY <2>1 DEF IInv, Shape
  <2>5. PICK l : l = list[c] /\ list' = [list EXCEPT ![c] = l] /\ ListOK(l)
    BY <2>1 DEF IInv, Shape
  <2>6. HadOK(k, h) /\ RetOK(Idle, l)
    BY <2>3 DEF HadOK, RetOK, Idle, Result
  <2>7. ClientStep(c, k, Idle, l, h)
    BY <2>1, <2>2, <2>4, <2>5 DEF ClientStep
  <2>8. k.op # "add" /\ call[c].op # "add"
    BY <1>0, <2>1, <2>3
  <2> QED BY <2>1, <2>3, <2>5, <2>6, <2>7, <2>8, ClientKeeps
<1>4. ASSUME NEW b \in BOOLEAN, snd_ctl_read(c, b) PROVE IInv'
  <2>1. call[c] = Idle /\ UNCHANGED <<scenario, elem, numids, half, list, had, call>>
    BY <1>4 DEF snd_ctl_read
  <2>2. CASE Returns(c, [op |-> "event", numid |-> Head(queue[c])])
    <3>1. PICK r : r = [op |-> "event", numid |-> Head(queue[c])] /\ ret' = [ret EXCEPT ![c] = r]
      BY <2>2 DEF Returns
    <3>2. r.op \notin {"data", "list"} /\ call[c].op # "add" /\ Idle \in Calls
      BY <1>0, <2>1, <3>1 DEF Calls
    <3>3. call' = [call EXCEPT ![c] = Idle]
      BY <2>1 DEF IInv, Shape
    <3> QED BY <2>1, <3>1, <3>2, <3>3, EndKeeps
  <2>3. ASSUME NEW err, Returns(c, Result("error", err)) PROVE IInv'
    BY <1>0, <2>1, <2>3, ResultKeeps
  <2> QED BY <1>4, <2>2, <2>3 DEF snd_ctl_read
<1> QED BY <1>1, <1>2, <1>3, <1>4

\* A list's array is as long as the list says, and the kernel fills in no more.
LEMMA ListCallsKeep ==
    ASSUME IInv, NEW c \in Clients, ListCalls(c)
    PROVE  IInv'
<1>0. Idle \in Calls /\ Idle.op # "add" /\ HadOK(Idle, had[c])
  BY DEF Calls, Idle, HadOK
<1>1. ASSUME NEW r, NEW l, ListOK(l), RetOK(r, l), call[c] = Idle, UNCHANGED <<kernel, call, had>>,
             Returns(c, r), list' = [list EXCEPT ![c] = l]
      PROVE  IInv'
  <2>1. UNCHANGED <<scenario, elem, numids, half>> /\ call[c].op # "add"
    BY <1>0, <1>1 DEF kernel
  <2>2. PICK h : h = had[c]
    OBVIOUS
  <2>3. ClientStep(c, Idle, r, l, h)
    BY <1>1, <2>2 DEF ClientStep, Returns, IInv, Shape
  <2>4. HadOK(Idle, h)
    BY <1>0, <2>2
  <2> QED BY <1>0, <1>1, <2>1, <2>3, <2>4, ClientKeeps
<1>2. PICK q : q = list[c] /\ q \in [pids : Nat, space : Nat, used : Nat] /\ q.pids = q.space
  BY DEF IInv, Shape, ListOK
<1>3. ASSUME NEW e \in Nat, list' = [list EXCEPT ![c].pids = e, ![c].space = e]
      PROVE  \E l : list' = [list EXCEPT ![c] = l] /\ ListOK(l)
  <2>1. PICK f : f = [list EXCEPT ![c].pids = e]
    OBVIOUS
  <2>2. list' = [f EXCEPT ![c].space = e]
    BY <1>3, <2>1
  <2>3. f = [list EXCEPT ![c] = [q EXCEPT !.pids = e]]
    BY <1>2, <2>1
  <2>4. PICK g : g = [q EXCEPT !.pids = e]
    OBVIOUS
  <2>5. f = [list EXCEPT ![c] = g] /\ f[c] = g
    BY <2>3, <2>4 DEF IInv, Shape
  <2>6. PICK l : l = [g EXCEPT !.space = e] /\ list' = [f EXCEPT ![c] = l]
    BY <2>2, <2>5
  <2>7. l = [pids |-> e, space |-> e, used |-> q.used]
    BY <1>2, <2>4, <2>6
  <2>8. list' = [list EXCEPT ![c] = l]
    <3> HIDE <1>3
    <3> QED BY <2>5, <2>6
  <2>9. ListOK(l)
    BY <1>2, <2>7 DEF ListOK
  <2> QED BY <2>8, <2>9
<1>4. ASSUME NEW e \in 0..MaxSpace, snd_ctl_elem_list_alloc_space(c, e) PROVE IInv'
  <2>1. e \in Nat /\ 0 \in Nat
    BY ControlConstants
  <2>2. PICK x \in Nat, y \in {0, ENOMEM} :
            /\ list' = [list EXCEPT ![c].pids = x, ![c].space = x] /\ Returns(c, Result("alloc", y))
    BY <1>4, <2>1, Zenon DEF snd_ctl_elem_list_alloc_space
  <2>3. PICK l : list' = [list EXCEPT ![c] = l] /\ ListOK(l)
    BY <1>3, <2>2
  <2>4. RetOK(Result("alloc", y), l)
    BY DEF RetOK, Result
  <2>5. call[c] = Idle /\ UNCHANGED <<kernel, call, had>>
    BY <1>4 DEF snd_ctl_elem_list_alloc_space
  <2>6. Returns(c, Result("alloc", y))
    BY <2>2
  <2> HIDE <1>4, <2>2
  <2> QED BY <1>1, <2>3, <2>4, <2>5, <2>6
<1>5. CASE snd_ctl_elem_list_free_space(c)
  <2>1. PICK x \in Nat : x = 0 /\ list' = [list EXCEPT ![c].pids = x, ![c].space = x]
    BY <1>5, Zenon DEF snd_ctl_elem_list_free_space
  <2>2. PICK l : list' = [list EXCEPT ![c] = l] /\ ListOK(l)
    BY <1>3, <2>1
  <2>3. RetOK(Idle, l)
    BY DEF RetOK, Result, Idle
  <2>4. call[c] = Idle /\ UNCHANGED <<kernel, call, had>> /\ Returns(c, Idle)
    BY <1>5 DEF snd_ctl_elem_list_free_space
  <2> QED BY <1>1, <2>2, <2>3, <2>4
<1>6. CASE snd_ctl_elem_list(c)
  <2>0. PICK count : count = Cardinality({n \in Names : Exists(n)}) /\ count \in Nat
    <3>1. IsFiniteSet({n \in Names : Exists(n)})
      BY ControlConstants, FS_Subset
    <3> QED BY <3>1, FS_CardinalityType
  <2>1. call[c] = Idle /\ UNCHANGED <<kernel, call, had>>
    BY <1>6 DEF snd_ctl_elem_list
  <2>2. ASSUME Returns(c, Result("list", 0)),
               list' = [list EXCEPT ![c].used = IF count < list[c].space THEN count ELSE list[c].space]
        PROVE  IInv'
    <3>1. PICK u : u = IF count < q.space THEN count ELSE q.space
      OBVIOUS
    <3>2. u \in Nat /\ u <= q.pids
      BY <1>2, <2>0, <3>1
    <3>3. PICK l : l = [q EXCEPT !.used = u] /\ list' = [list EXCEPT ![c] = l]
      BY <1>2, <2>2, <3>1
    <3>4. l = [pids |-> q.pids, space |-> q.space, used |-> u]
      BY <1>2, <3>3
    <3>5. ListOK(l) /\ l.used <= l.pids
      BY <1>2, <3>2, <3>4 DEF ListOK
    <3>6. RetOK(Result("list", 0), l)
      BY <3>5 DEF RetOK, Result
    <3> QED BY <1>1, <2>1, <2>2, <3>3, <3>5, <3>6
  <2>3. ASSUME Returns(c, Result("list", ENODEV)), list' = list PROVE IInv'
    <3>1. ListOK(q) /\ list' = [list EXCEPT ![c] = q]
      BY <1>2, <2>3 DEF IInv, Shape
    <3>2. RetOK(Result("list", ENODEV), q)
      BY DEF RetOK, Result, ENODEV
    <3> QED BY <1>1, <2>1, <2>3, <3>1, <3>2
  <2> QED BY <1>6, <2>0, <2>2, <2>3 DEF snd_ctl_elem_list
<1> QED BY <1>4, <1>5, <1>6 DEF ListCalls

-----------------------------------------------------------------------------
(* The specification. *)

\* A card comes up with no elements and no calls in progress.
LEMMA InitKeeps == Init => IInv
<1> SUFFICES ASSUME Init PROVE IInv
  OBVIOUS
<1>1. \A n \in Names : ~Exists(n)
  BY DEF Init, Exists
<1>2. \A c \in Clients : call[c] = Idle /\ ret[c] = Idle
                        /\ list[c] = [pids |-> 0, space |-> 0, used |-> 0]
  BY DEF Init
<1>3. Shape
  <2>1. call \in [Clients -> Calls]
    BY DEF Init, Calls
  <2>2. \A c \in Clients : ListOK(list[c])
    BY <1>2 DEF ListOK
  <2> QED BY <1>1, <2>1, <2>2 DEF Init, Shape
<1>4. NumidInv /\ InRange
  BY <1>1 DEF NumidInv, InRange
<1>5. AddInv /\ HadInv /\ RetInv
  BY <1>2 DEF AddInv, AddOK, HadInv, HadOK, RetInv, RetOK, Idle, Result
<1> QED BY <1>3, <1>4, <1>5 DEF IInv

\* A step that leaves all of it alone, as when the card is unplugged.
LEMMA StutterKeeps ==
    ASSUME IInv, UNCHANGED <<scenario, elem, numids, call, ret, list, had, half>>
    PROVE  IInv'
<1>1. Shape'
  BY DEF IInv, Shape, Exists
<1>2. NumidInv' /\ AddInv'
  BY DEF IInv, NumidInv, AddInv, AddOK, Exists
<1>3. HadInv' /\ RetInv'
  BY DEF IInv, HadInv, HadOK, RetInv, RetOK, Exists
<1>4. InRange'
  BY DEF IInv, InRange, Exists
<1> QED BY <1>1, <1>2, <1>3, <1>4 DEF IInv

\* Every step of a process, of a driver and of the card keeps the invariant.
LEMMA StepKeeps == IInv /\ [Next]_vars => IInv'
<1> SUFFICES ASSUME IInv, [Next]_vars PROVE IInv'
  OBVIOUS
<1>1. CASE UNCHANGED vars
  BY <1>1, StutterKeeps DEF vars
<1>2. CASE Disconnect
  BY <1>2, StutterKeeps DEF Disconnect
<1>3. ASSUME NEW n \in Names, (\E t \in scenario.tlvs : DriverAdds(n, t)) \/ DriverRemoves(n)
      PROVE  IInv'
  BY <1>3, DriverKeeps
<1>4. ASSUME NEW c \in Clients,
             \/ Step(c) \/ PollInterrupted(c) \/ Die(c)
             \/ AddCalls(c) \/ ValueCalls(c) \/ TlvCalls(c) \/ EventCalls(c) \/ ListCalls(c)
      PROVE  IInv'
  <2>1. CASE Step(c)
    BY <2>1, AddWriteKeeps, TlvLookupKeeps, TlvReadKeeps, TlvWriteKeeps, EventsKeep DEF Step
  <2>2. CASE PollInterrupted(c) \/ EventCalls(c)
    BY <2>2, EventsKeep DEF EventCalls
  <2>3. CASE Die(c)
    BY <2>3, DieKeeps
  <2>4. CASE AddCalls(c)
    BY <2>4, AddCallsKeep
  <2>5. CASE ValueCalls(c)
    BY <2>5, ValueKeeps DEF ValueCalls
  <2>6. CASE TlvCalls(c)
    BY <2>6, TlvCallsKeep
  <2>7. CASE ListCalls(c)
    BY <2>7, ListCallsKeep
  <2> QED BY <1>4, <2>1, <2>2, <2>3, <2>4, <2>5, <2>6, <2>7
<1> QED BY <1>1, <1>2, <1>3, <1>4 DEF Next

\* What holds at every point of every run of the processes of control.c on one
\* card: an element is its adder's until it has its first value, a numid names one
\* element, a TLV read in progress has been told of every change.
THEOREM ControlInvariant == Spec => []IInv
<1>1. Init => IInv
  BY InitKeeps
<1>2. IInv /\ [Next]_vars => IInv'
  BY StepKeeps
<1> QED BY <1>1, <1>2, PTL DEF Spec

\* snd_ctl_elem_add_integer and _integer64 leave no element whose value is out of
\* its range, for any number of processes that add, remove, lock and write.
THEOREM ControlInRange == Spec => []InRange
<1>1. IInv => InRange
  BY DEF IInv
<1> QED BY <1>1, ControlInvariant, PTL

\* snd_ctl_elem_tlv_read returns data its element has had while the call was
\* running, although the name is looked up in one ioctl and read by numid in
\* another.
THEOREM ControlTlvTrue == Spec => []TlvTrue
<1>1. IInv => TlvTrue
  BY DEF IInv, RetInv, RetOK, TlvTrue
<1> QED BY <1>1, ControlInvariant, PTL

\* No call of control.c writes or reads past the end of a buffer: the caller's TLV
\* buffer, the array of an element list, the joined names of an enumerated element.
THEOREM ControlBuffersFit == Spec => []BuffersFit
<1>1. IInv => TlvFits /\ ListFits
  BY DEF IInv, RetInv, RetOK, TlvFits, ListFits
<1>2. IInv => NamesFit
  BY DEF IInv, Shape, ElemOK, NamesFit
<1> QED BY <1>1, <1>2, ControlInvariant, PTL DEF BuffersFit

\* An add goes on by its own process, or ends with it.
LEMMA AddIsOwn ==
    ASSUME IInv, [Next]_vars, NEW c \in Clients, call[c].op = "add", call'[c] # call[c]
    PROVE  AddWrite(c) \/ Die(c)
<1> DEFINE Others(d) == call' = call \/ (call[d].op # "add" /\ \E k : Starts(d, k))
<1>1. \A d \in Clients : ~Others(d)
  BY DEF Starts, IInv, Shape
<1>i. Idle.op # "add" /\ "tlv" # "add" /\ "wait" # "add"
  BY DEF Idle
<1>2. ASSUME NEW d \in Clients,
             AddCalls(d) \/ ValueCalls(d) \/ TlvCalls(d) \/ EventCalls(d) \/ ListCalls(d)
      PROVE  FALSE
  <2>1. CASE AddCalls(d)
    <3>1. \A n, type, min, names, next : snd_ctl_elem_add(d, n, type, min, names, next) => Others(d)
      BY <1>i DEF snd_ctl_elem_add
    <3>2. \A n : snd_ctl_elem_remove(d, n) => Others(d)
      BY DEF snd_ctl_elem_remove
    <3>3. \A n, lens : snd_ctl_elem_add_enumerated(d, n, lens) => Others(d)
      BY <3>1 DEF snd_ctl_elem_add_enumerated
    <3>4. \A n, x : /\ snd_ctl_elem_add_integer(d, n, x) => Others(d)
                    /\ snd_ctl_elem_add_integer64(d, n, x) => Others(d)
      BY <3>1 DEF snd_ctl_elem_add_integer, snd_ctl_elem_add_integer64
    <3>5. \A n : /\ snd_ctl_elem_add_boolean(d, n) => Others(d)
                 /\ snd_ctl_elem_add_iec958(d, n) => Others(d)
      BY <3>1 DEF snd_ctl_elem_add_boolean, snd_ctl_elem_add_iec958
    <3> HIDE DEF Others
    <3> QED BY <1>1, <2>1, <3>2, <3>3, <3>4, <3>5 DEF AddCalls
  <2>2. CASE ValueCalls(d)
    <3>1. call' = call
      BY <2>2 DEF ValueCalls, snd_ctl_elem_read, snd_ctl_elem_write, snd_ctl_elem_lock
    <3> QED BY <3>1
  <2>3. CASE TlvCalls(d)
    <3>1. \A cmd, n, k, t, z : snd_ctl_elem_tlv(d, cmd, n, k, t, z) => Others(d)
      BY <1>i DEF snd_ctl_elem_tlv
    <3> HIDE DEF Others
    <3> QED BY <1>1, <2>3, <3>1 DEF TlvCalls
  <2>4. CASE EventCalls(d)
    <3>1. \A b : /\ snd_ctl_wait(d, b) => Others(d)
                 /\ snd_ctl_subscribe_events(d, b) => Others(d)
                 /\ snd_ctl_read(d, b) => Others(d)
      BY <1>i DEF snd_ctl_wait, snd_ctl_subscribe_events, snd_ctl_read
    <3> HIDE DEF Others
    <3> QED BY <1>1, <2>4, <3>1 DEF EventCalls
  <2>5. CASE ListCalls(d)
    <3>1. call' = call
      BY <2>5 DEF ListCalls, snd_ctl_elem_list_alloc_space, snd_ctl_elem_list_free_space, snd_ctl_elem_list
    <3> QED BY <3>1
  <2> QED BY <1>2, <2>1, <2>2, <2>3, <2>4, <2>5
<1>3. ASSUME NEW d \in Clients, Step(d) \/ PollInterrupted(d) \/ Die(d)
      PROVE  AddWrite(c) \/ Die(c)
  <2>1. TlvLookup(d) \/ TlvRead(d) \/ TlvWrite(d) \/ PollReturns(d) \/ PollInterrupted(d) => Others(d)
    <3>1. /\ TlvLookup(d) => call[d].op = "tlv" /\ \E k : Starts(d, k)
          /\ TlvRead(d) => call[d].op = "tlv" /\ Starts(d, Idle)
      BY DEF TlvLookup, TlvRead
    <3>2. /\ TlvWrite(d) => call[d].op = "tlv" /\ Starts(d, Idle)
          /\ PollReturns(d) => call[d].op = "wait" /\ Starts(d, Idle)
          /\ PollInterrupted(d) => call[d].op = "wait" /\ Starts(d, Idle)
      BY DEF TlvWrite, PollReturns, PollInterrupted
    <3> QED BY <1>i, <3>1, <3>2
  <2>2. AddWrite(d) \/ Die(d)
    BY <1>1, <1>3, <2>1 DEF Step
  <2>3. call' = [call EXCEPT ![d] = Idle]
    BY <2>2 DEF AddWrite, Die, Starts
  <2>4. c = d
    BY <2>3 DEF IInv, Shape
  <2> QED BY <2>2, <2>4
<1>4. ASSUME UNCHANGED vars \/ Disconnect \/ (\E n \in Names, t \in scenario.tlvs : DriverAdds(n, t))
             \/ (\E n \in Names : DriverRemoves(n))
      PROVE  FALSE
  <2>1. call' = call
    BY <1>4 DEF vars, Disconnect, DriverAdds, DriverRemoves
  <2> QED BY <2>1
<1> HIDE DEF Others
<1> QED BY <1>2, <1>3, <1>4 DEF Next

\* The step in which an add ends gives a value to no element but its own.
LEMMA FirstValueOwn ==
    ASSUME IInv, [Next]_vars, NEW c \in Clients, NEW n \in Names, call[c].op = "add",
           call[c] # call'[c], Exists(n), elem[n].val # elem'[n].val
    PROVE  elem[n].numid = call[c].numid
<1>1. AddWrite(c) \/ Die(c)
  BY AddIsOwn
<1>2. AddOK(c, call[c]) /\ call[c].name \in Names
  BY AddTyped
<1>3. CASE Die(c)
  <2>1. PICK r : r = elem[n] /\ ElemOK(r)
    BY DEF IInv, Shape
  <2>2. elem'[n] = IF r.owner = c THEN [r EXCEPT !.owner = NoOne] ELSE r
    BY <1>3, <2>1 DEF Die
  <2>3. [r EXCEPT !.owner = NoOne].val = r.val
    <3>1. [r EXCEPT !.owner = NoOne] = [numid |-> r.numid, type |-> r.type, min |-> r.min, val |-> r.val,
                                       names |-> r.names, owner |-> NoOne, tlv |-> r.tlv]
      BY <2>1 DEF ElemOK
    <3> QED BY <3>1
  <2> QED BY <2>1, <2>2, <2>3
<1>4. CASE AddWrite(c)
  <2>1. PICK m : m = call[c].name /\ (elem' = elem \/ elem' = [elem EXCEPT ![m].val = call[c].min])
    BY <1>4 DEF AddWrite
  <2>2. n # m => elem'[n] = elem[n]
    BY <2>1 DEF IInv, Shape
  <2> QED BY <1>2, <2>1, <2>2 DEF AddOK
<1> QED BY <1>1, <1>3, <1>4

\* The first value of an element is written to the element that the call has added,
\* never to one of the same name that another process has put in its place between
\* the two ioctls.
THEOREM ControlInitialOwn == Spec => InitialOwn
<1>1. IInv /\ [Next]_vars =>
          [\A c \in Clients, n \in Names :
              /\ call[c].op = "add" /\ call[c] # call'[c]
              /\ Exists(n) /\ Exists(n)' /\ elem[n].val # elem'[n].val
              => elem[n].numid = call[c].numid]_vars
  BY FirstValueOwn
<1> QED BY <1>1, ControlInvariant, PTL DEF Spec, InitialOwn
=============================================================================
