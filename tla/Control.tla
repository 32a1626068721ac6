------------------------------- MODULE Control -------------------------------
(***************************************************************************)
(* The control interface (src/control.c, src/ctl_macros.h): processes that *)
(* add, remove, lock, read and write the elements of a card, read and      *)
(* write the TLV data of elements, list them, and wait for events.  Calls  *)
(* that take two ioctls are two steps; any process may die between them,   *)
(* and the card may be unplugged.                                          *)
(***************************************************************************)
EXTENDS Integers, Sequences, SequencesExt, FiniteSets

CONSTANTS
    Clients,    \* processes, each with one handle of the card's control device
    Names,      \* the names of elements
    Mins,       \* the least values of integer elements
    Sizes,      \* the sizes, in words, of the buffers TLV data is read into
    MaxNumid,   \* bound: how many elements are ever added
    MaxSpace,   \* bound: the entries of an element list
    NamesBuf,   \* sizeof(buf) in snd_ctl_elem_add_enumerated
    Scenarios   \* what may happen: [protocol, the last digit of the kernel's
                \* version, 2.0.x, that snd_ctl_open reads; calls, client -> the
                \* kinds of call it makes; tlvs, the TLV data there is, as
                \* [type, len], len in words after the two of the header]

NoOne == "no one"

ASSUME ControlConstants ==
    /\ IsFiniteSet(Names) /\ NoOne \notin Clients
    /\ Mins \subseteq Nat /\ Sizes \subseteq Nat
    /\ MaxNumid \in Nat /\ MaxSpace \in Nat /\ NamesBuf \in Nat
    /\ \A s \in Scenarios : /\ s.protocol \in Nat
                             /\ s.tlvs \subseteq [type : STRING, len : Nat]

VARIABLES
    scenario,  \* the member of Scenarios that this behaviour is
    present,   \* whether the card is still there
    elem,      \* kernel: name -> element, or NoElem
    numids,    \* kernel: how many numids have been given out
    queue,     \* kernel: client -> numids of the events it has not read
    subscribed,\* kernel: the clients that have asked for events
    call,      \* client -> the call in progress
    ret,       \* client -> what its last call has returned
    list,      \* client -> its snd_ctl_elem_list_t
    had,       \* client -> the TLV data the element it reads from has had since the call
    half       \* numids of elements whose adder died before their first write

vars == <<scenario, present, elem, numids, queue, subscribed, call, ret, list, had, half>>
kernel == <<scenario, present, elem, numids, queue, subscribed, half>>

NoElem == [numid |-> 0]
Idle == [op |-> "none"]
NoData == [type |-> "none", len |-> 0]     \* no TLV data
Unset == [type |-> "unset", len |-> 0]     \* the type -1 that tlv_read puts there first
ENOENT == -2
EINTR == -4
EIO == -5
ENXIO == -6
EAGAIN == -11
ENOMEM == -12
EFAULT == -14
EBUSY == -16
ENODEV == -19
EINVAL == -22
EPERM == -1

protocol == scenario.protocol
Exists(n) == elem[n] # NoElem
ByNumid(k) == {n \in Names : elem[n].numid = k /\ k # 0}
Mine(c, n) == elem[n].owner \in {c, NoOne}

Init ==
    /\ scenario \in Scenarios
    /\ present = TRUE /\ numids = 0 /\ subscribed = {} /\ half = {}
    /\ elem = [n \in Names |-> NoElem]
    /\ queue = [c \in Clients |-> <<>>]
    /\ call = [c \in Clients |-> Idle] /\ ret = [c \in Clients |-> Idle]
    /\ list = [c \in Clients |-> [pids |-> 0, space |-> 0, used |-> 0]]
    /\ had = [c \in Clients |-> {}]

-----------------------------------------------------------------------------
(* The kernel. *)

\* An event for every subscriber; one about an element that has an unread event
\* is merged with it.
Notify(k) ==
    queue' = [c \in Clients |-> IF c \in subscribed /\ k \notin ToSet(queue[c])
                                THEN Append(queue[c], k) ELSE queue[c]]

\* What the calls in progress can see of a change of an element's TLV data.
Seen(n, e) ==
    had' = [c \in Clients |-> IF /\ call[c].op = "tlv" /\ call[c].cmd = "read"
                                 /\ call[c].name = n \/ call[c].numid = e.numid
                              THEN had[c] \cup {e.tlv} ELSE had[c]]

Returns(c, r) == ret' = [ret EXCEPT ![c] = r]
Starts(c, k) == call' = [call EXCEPT ![c] = k]
Result(op, err) == [op |-> op, err |-> err]

\* Why an ioctl about the element n fails, or 0.
Refusal(c, n, writes) ==
    CASE ~present -> ENODEV
      [] present /\ ~Exists(n) -> ENOENT
      [] present /\ Exists(n) -> IF writes /\ ~Mine(c, n) THEN EPERM ELSE 0

\* A card is unplugged; the calls that wait for it are woken up.
Disconnect ==
    /\ present /\ present' = FALSE
    /\ UNCHANGED <<scenario, elem, numids, queue, subscribed, call, ret, list, had, half>>

\* A process dies: the kernel releases its locks and drops its events.
Die(c) ==
    /\ elem' = [n \in Names |-> IF Exists(n) /\ elem[n].owner = c
                                THEN [elem[n] EXCEPT !.owner = NoOne] ELSE elem[n]]
    /\ half' = half \cup {elem[n].numid : n \in {x \in Names : call[c].op = "add" /\ call[c].name = x}}
    /\ call[c] # Idle \/ elem' # elem
    /\ queue' = [queue EXCEPT ![c] = <<>>] /\ subscribed' = subscribed \ {c}
    /\ Starts(c, Idle) /\ Returns(c, Idle)
    /\ list' = [list EXCEPT ![c] = [pids |-> 0, space |-> 0, used |-> 0]]
    /\ had' = [had EXCEPT ![c] = {}]
    /\ UNCHANGED <<scenario, present, numids>>

-----------------------------------------------------------------------------
(* User-defined elements.  The kernel locks a new element for the process   *)
(* that has added it.                                                       *)

\* The item names, one after the other, each with its final NUL: how much of
\* the buffer they take, or ENOMEM.
Names_flatten(lens) ==
    LET len[i \in 0..Len(lens)] ==
            IF i = 0 THEN 0
            ELSE IF len[i - 1] < 0 \/ len[i - 1] + lens[i] + 1 >= NamesBuf THEN ENOMEM
            ELSE len[i - 1] + lens[i] + 1
    IN  len[Len(lens)]

NewElem(n, type, min, names, owner, tlv) ==
    /\ numids < MaxNumid /\ numids' = numids + 1
    /\ elem' = [elem EXCEPT ![n] = [numid |-> numids + 1, type |-> type, min |-> min, val |-> 0,
                                    names |-> names, owner |-> owner, tlv |-> tlv]]
    /\ Notify(numids + 1) /\ Seen(n, elem'[n])

\* The ioctl of snd_ctl_elem_add, for a call that then goes on with next.
snd_ctl_elem_add(c, n, type, min, names, next) ==
    /\ call[c] = Idle
    /\ \/ /\ present /\ ~Exists(n)
          /\ NewElem(n, type, min, names, c, NoData)
          /\ Starts(c, next)
          /\ Returns(c, IF next = Idle THEN Result("add", 0) ELSE Idle)
       \/ /\ ~present \/ Exists(n)
          /\ Returns(c, Result("add", IF present THEN EBUSY ELSE ENODEV))
          /\ UNCHANGED <<elem, numids, queue, call, had>>
    /\ UNCHANGED <<scenario, present, subscribed, list, half>>

\* As a plausible bug would have it: the initial values are left to the kernel.
Bugsnd_ctl_elem_add_integer(c, n, min) == snd_ctl_elem_add(c, n, "integer", min, 0, Idle)

snd_ctl_elem_add_integer(c, n, min) ==
    snd_ctl_elem_add(c, n, "integer", min, 0, [op |-> "add", name |-> n, numid |-> numids + 1, min |-> min])

\* As a plausible bug would have it: the values are written whether or not the
\* element has been added.
Bugsnd_ctl_elem_add_integer64(c, n, min) ==
    /\ call[c] = Idle /\ present /\ Exists(n)
    /\ Starts(c, [op |-> "add", name |-> n, numid |-> numids + 1, min |-> min])
    /\ UNCHANGED <<kernel, ret, list, had>>

snd_ctl_elem_add_integer64(c, n, min) ==
    snd_ctl_elem_add(c, n, "integer64", min, 0, [op |-> "add", name |-> n, numid |-> numids + 1, min |-> min])

snd_ctl_elem_add_boolean(c, n) == snd_ctl_elem_add(c, n, "boolean", 0, 0, Idle)

snd_ctl_elem_add_iec958(c, n) == snd_ctl_elem_add(c, n, "iec958", 0, 0, Idle)

snd_ctl_elem_add_enumerated(c, n, lens) ==
    \/ /\ protocol < 7 \/ lens = <<>> \/ Names_flatten(lens) < 0
       /\ call[c] = Idle
       /\ Returns(c, Result("add", IF protocol < 7 THEN ENXIO ELSE IF lens = <<>> THEN EINVAL ELSE ENOMEM))
       /\ UNCHANGED <<kernel, call, list, had>>
    \/ /\ protocol >= 7 /\ lens # <<>> /\ Names_flatten(lens) >= 0
       /\ snd_ctl_elem_add(c, n, "enumerated", 0, Names_flatten(lens), Idle)

\* The second ioctl of an add: all channels get the least value.
AddWrite(c) ==
    LET n == call[c].name
        err == Refusal(c, n, TRUE)
    IN  /\ call[c].op = "add"
        /\ \/ /\ err = 0
              /\ elem' = [elem EXCEPT ![n].val = call[c].min]
              /\ Notify(elem[n].numid) /\ UNCHANGED half
           \/ /\ err < 0
              /\ half' = half \cup {call[c].numid}
              /\ UNCHANGED <<elem, queue>>
        /\ Starts(c, Idle) /\ Returns(c, Result("add", err))
        /\ UNCHANGED <<scenario, present, numids, subscribed, list, had>>

-----------------------------------------------------------------------------
(* Calls of one ioctl. *)

snd_ctl_elem_remove(c, n) ==
    LET err == IF Exists(n) /\ elem[n].type = "driver" THEN EINVAL ELSE Refusal(c, n, TRUE)
    IN  /\ call[c] = Idle /\ Returns(c, Result("remove", err))
        /\ \/ err = 0 /\ elem' = [elem EXCEPT ![n] = NoElem] /\ Notify(elem[n].numid)
           \/ err < 0 /\ UNCHANGED <<elem, queue>>
        /\ UNCHANGED <<scenario, present, numids, subscribed, call, list, had, half>>

\* Applications write values in the range of the element.
snd_ctl_elem_write(c, n, d) ==
    LET err == Refusal(c, n, TRUE)
    IN  /\ call[c] = Idle /\ Returns(c, Result("write", err))
        /\ \/ /\ err = 0
              /\ elem' = [elem EXCEPT ![n].val = elem[n].min + d]
              /\ IF elem' = elem THEN UNCHANGED queue ELSE Notify(elem[n].numid)
           \/ err < 0 /\ UNCHANGED <<elem, queue>>
        /\ UNCHANGED <<scenario, present, numids, subscribed, call, list, had, half>>

snd_ctl_elem_read(c, n) ==
    LET err == Refusal(c, n, FALSE)
    IN  /\ call[c] = Idle
        /\ Returns(c, IF err = 0 THEN [op |-> "read", err |-> 0, val |-> elem[n].val] ELSE Result("error", err))
        /\ UNCHANGED <<kernel, call, list, had>>

\* snd_ctl_elem_lock and snd_ctl_elem_unlock.
snd_ctl_elem_lock(c, n, lock) ==
    LET err == IF Refusal(c, n, FALSE) < 0 THEN Refusal(c, n, FALSE)
               ELSE IF lock /\ elem[n].owner # NoOne THEN EBUSY
               ELSE IF ~lock /\ elem[n].owner # c THEN EPERM ELSE 0
    IN  /\ call[c] = Idle /\ Returns(c, Result("lock", err))
        /\ elem' = IF err = 0 THEN [elem EXCEPT ![n].owner = IF lock THEN c ELSE NoOne] ELSE elem
        /\ UNCHANGED <<scenario, present, numids, queue, subscribed, call, list, had, half>>

\* A driver adds or removes one of its own elements.
DriverAdds(n, tlv) ==
    /\ present /\ ~Exists(n) /\ NewElem(n, "driver", 0, 0, NoOne, tlv)
    /\ UNCHANGED <<scenario, present, subscribed, call, ret, list, half>>

DriverRemoves(n) ==
    /\ present /\ Exists(n) /\ elem[n].type = "driver"
    /\ elem' = [elem EXCEPT ![n] = NoElem] /\ Notify(elem[n].numid)
    /\ UNCHANGED <<scenario, present, numids, subscribed, call, ret, list, had, half>>

-----------------------------------------------------------------------------
(* TLV data. *)

\* As a plausible bug would have it: the buffer is not prepared, and a driver
\* that answers with nothing leaves what the caller had there.
BugUntouched == [type |-> "db", len |-> 0]

\* What a read finds in the buffer if the driver has not put anything there.
Untouched == Unset

\* snd_ctl_elem_tlv_read, _write and _command up to the first ioctl.  The
\* application gives the numid, perhaps one it learned long ago, or 0 and the name.
snd_ctl_elem_tlv(c, cmd, n, k, tlv, size) ==
    /\ call[c] = Idle
    /\ \/ /\ cmd = "read" /\ size < 2
          /\ Returns(c, Result("tlv", EINVAL)) /\ UNCHANGED <<call, had>>
       \/ /\ cmd # "read" \/ size >= 2
          /\ Starts(c, [op |-> "tlv", cmd |-> cmd, name |-> IF k = 0 THEN n ELSE NoOne, numid |-> k,
                        tlv |-> tlv, size |-> IF cmd = "read" THEN size ELSE tlv.len + 2])
          /\ had' = [had EXCEPT ![c] = IF cmd # "read" THEN {}
                       ELSE {elem[x].tlv : x \in IF k = 0 THEN {y \in {n} : Exists(y)} ELSE ByNumid(k)}]
          /\ Returns(c, Idle)
    /\ UNCHANGED <<kernel, list>>

\* snd_ctl_tlv_do: the name's numid.
TlvLookup(c) ==
    LET err == Refusal(c, call[c].name, FALSE)
    IN  /\ call[c].op = "tlv" /\ call[c].numid = 0
        /\ \/ /\ err = 0
              /\ Starts(c, [call[c] EXCEPT !.numid = elem[call[c].name].numid]) /\ UNCHANGED <<ret, had>>
           \/ /\ err < 0 /\ Starts(c, Idle) /\ Returns(c, Result("tlv", err))
              /\ had' = [had EXCEPT ![c] = {}]
        /\ UNCHANGED <<kernel, list>>

\* As a plausible bug would have it: the length in the answer is trusted.
BugCopied(data, size) == data.len + 2

\* How much of the answer goes to the caller's buffer, or EFAULT.
Copied(data, size) == IF data.len + 2 > size THEN EFAULT ELSE data.len + 2

\* hw_elem_tlv for a read.  A driver may answer with nothing, or with a length
\* greater than the buffer's.
TlvRead(c) ==
    LET k == call[c].numid
        size == call[c].size
        err(n) == IF elem[n].tlv = NoData THEN ENXIO ELSE 0
        data(n) == IF elem[n].tlv.type = "empty" THEN Untouched ELSE elem[n].tlv
    IN  /\ call[c].op = "tlv" /\ call[c].cmd = "read" /\ k # 0
        /\ \/ /\ protocol < 4 \/ ~present \/ ByNumid(k) = {}
              /\ Returns(c, Result("tlv", IF protocol < 4 THEN ENXIO ELSE IF present THEN ENOENT ELSE ENODEV))
           \/ /\ protocol >= 4 /\ Returns(c, Result("tlv", ENOMEM))
           \/ /\ protocol >= 4 /\ present
              /\ \E n \in ByNumid(k) :
                    LET len == Copied(data(n), size)
                    IN  Returns(c, CASE err(n) < 0 -> Result("tlv", err(n))
                                     [] err(n) = 0 /\ len < 0 -> Result("tlv", len)
                                     [] err(n) = 0 /\ len >= 0 /\ data(n) = Unset -> Result("tlv", ENXIO)
                                     [] OTHER -> [op |-> "data", data |-> data(n), len |-> len, size |-> size,
                                                    had |-> had[c]])
        /\ Starts(c, Idle) /\ had' = [had EXCEPT ![c] = {}]
        /\ UNCHANGED <<kernel, list>>

\* hw_elem_tlv for a write or a command: user elements keep what is written.
TlvWrite(c) ==
    LET k == call[c].numid
    IN  /\ call[c].op = "tlv" /\ call[c].cmd # "read" /\ k # 0
        /\ \/ /\ protocol < 4 \/ ~present \/ ByNumid(k) = {}
              /\ Returns(c, Result("tlv", IF protocol < 4 THEN ENXIO ELSE IF present THEN ENOENT ELSE ENODEV))
              /\ UNCHANGED <<elem, queue, had>>
           \/ /\ protocol >= 4 /\ Returns(c, Result("tlv", ENOMEM)) /\ UNCHANGED <<elem, queue, had>>
           \/ /\ protocol >= 4 /\ present
              /\ \E n \in ByNumid(k) :
                    \/ /\ elem[n].type \in {"integer"} /\ call[c].cmd = "write" /\ Mine(c, n)
                       /\ elem' = [elem EXCEPT ![n].tlv = call[c].tlv]
                       /\ Notify(k) /\ Seen(n, elem'[n]) /\ Returns(c, Result("tlv", 0))
                    \/ /\ elem[n].type \notin {"integer"} \/ call[c].cmd # "write" \/ ~Mine(c, n)
                       /\ Returns(c, Result("tlv", IF Mine(c, n) THEN ENXIO ELSE EPERM))
                       /\ UNCHANGED <<elem, queue, had>>
        /\ Starts(c, Idle)
        /\ UNCHANGED <<scenario, present, numids, subscribed, list, half>>

-----------------------------------------------------------------------------
(* Events. *)

\* Unsubscribing drops the events that have not been read.
snd_ctl_subscribe_events(c, on) ==
    /\ call[c] = Idle
    /\ \/ /\ present /\ Returns(c, Result("subscribe", 0))
          /\ subscribed' = IF on THEN subscribed \cup {c} ELSE subscribed \ {c}
          /\ queue' = IF on THEN queue ELSE [queue EXCEPT ![c] = <<>>]
       \/ /\ ~present /\ Returns(c, Result("subscribe", ENODEV)) /\ UNCHANGED <<subscribed, queue>>
    /\ UNCHANGED <<scenario, present, elem, numids, call, list, had, half>>

snd_ctl_wait(c, forever) ==
    /\ call[c] = Idle /\ Starts(c, [op |-> "wait", forever |-> forever]) /\ Returns(c, Idle)
    /\ UNCHANGED <<kernel, list, had>>

\* As a plausible bug would have it: only readiness and the timeout end the loop.
BugPollReturns(c) ==
    /\ call[c].op = "wait"
    /\ \/ present /\ queue[c] # <<>> /\ Returns(c, Result("wait", 1))
       \/ present /\ ~call[c].forever /\ Returns(c, Result("wait", 0))
    /\ Starts(c, Idle)
    /\ UNCHANGED <<kernel, list, had>>

\* poll() returns: the card is gone, there are events, or the time is over.
PollReturns(c) ==
    /\ call[c].op = "wait"
    /\ \/ ~present /\ Returns(c, Result("wait", EIO))
       \/ present /\ queue[c] # <<>> /\ Returns(c, Result("wait", 1))
       \/ present /\ ~call[c].forever /\ Returns(c, Result("wait", 0))
    /\ Starts(c, Idle)
    /\ UNCHANGED <<kernel, list, had>>

\* A signal ends poll(), and with it snd_ctl_wait.
PollInterrupted(c) ==
    /\ call[c].op = "wait"
    /\ Returns(c, Result("wait", EINTR)) /\ Starts(c, Idle)
    /\ UNCHANGED <<kernel, list, had>>

\* A blocking handle waits in read(), which a card that goes away ends.
snd_ctl_read(c, nonblock) ==
    /\ call[c] = Idle
    /\ \/ /\ present /\ queue[c] # <<>>
          /\ queue' = [queue EXCEPT ![c] = Tail(@)]
          /\ Returns(c, [op |-> "event", numid |-> Head(queue[c])])
       \/ /\ ~present \/ (queue[c] = <<>> /\ nonblock)
          /\ Returns(c, Result("error", IF present THEN EAGAIN ELSE ENODEV)) /\ UNCHANGED queue
    /\ UNCHANGED <<scenario, present, elem, numids, subscribed, call, list, had, half>>

-----------------------------------------------------------------------------
(* Element lists. *)

snd_ctl_elem_list_alloc_space(c, entries) ==
    /\ call[c] = Idle
    /\ \/ list' = [list EXCEPT ![c].pids = entries, ![c].space = entries] /\ Returns(c, Result("alloc", 0))
       \/ list' = [list EXCEPT ![c].pids = 0, ![c].space = 0] /\ Returns(c, Result("alloc", ENOMEM))
    /\ UNCHANGED <<kernel, call, had>>

snd_ctl_elem_list_free_space(c) ==
    /\ call[c] = Idle /\ list' = [list EXCEPT ![c].pids = 0, ![c].space = 0]
    /\ Returns(c, Idle)
    /\ UNCHANGED <<kernel, call, had>>

\* The kernel fills in as many ids as there are, or as there is space for.
snd_ctl_elem_list(c) ==
    LET count == Cardinality({n \in Names : Exists(n)})
    IN  /\ call[c] = Idle
        /\ \/ /\ present /\ Returns(c, Result("list", 0))
              /\ list' = [list EXCEPT ![c].used = IF count < list[c].space THEN count ELSE list[c].space]
           \/ /\ ~present /\ Returns(c, Result("list", ENODEV)) /\ UNCHANGED list
        /\ UNCHANGED <<kernel, call, had>>

-----------------------------------------------------------------------------
\* The lengths of the item names: none, as long as fits, too long, and too many.
EnumNames == {<<>>, <<NamesBuf - 2>>, <<NamesBuf - 1>>, <<0, 0>>, <<NamesBuf - 2, NamesBuf - 2>>}

Step(c) == AddWrite(c) \/ TlvLookup(c) \/ TlvRead(c) \/ TlvWrite(c) \/ PollReturns(c)

AddCalls(c) ==
    \E n \in Names :
        \/ \E x \in Mins : snd_ctl_elem_add_integer(c, n, x) \/ snd_ctl_elem_add_integer64(c, n, x)
        \/ snd_ctl_elem_add_boolean(c, n) \/ snd_ctl_elem_add_iec958(c, n)
        \/ \E lens \in EnumNames : snd_ctl_elem_add_enumerated(c, n, lens)
        \/ snd_ctl_elem_remove(c, n)

ValueCalls(c) ==
    \E n \in Names :
        \/ snd_ctl_elem_read(c, n)
        \/ \E d \in 0..1 : snd_ctl_elem_write(c, n, d)
        \/ \E b \in BOOLEAN : snd_ctl_elem_lock(c, n, b)

TlvCalls(c) ==
    \E n \in Names, k \in 0..MaxNumid :
        \/ \E s \in Sizes : snd_ctl_elem_tlv(c, "read", n, k, NoData, s)
        \/ \E t \in scenario.tlvs, cmd \in {"write", "command"} : snd_ctl_elem_tlv(c, cmd, n, k, t, 0)

EventCalls(c) ==
    \E b \in BOOLEAN : snd_ctl_subscribe_events(c, b) \/ snd_ctl_wait(c, b) \/ snd_ctl_read(c, b)

ListCalls(c) ==
    \/ \E e \in 0..MaxSpace : snd_ctl_elem_list_alloc_space(c, e)
    \/ snd_ctl_elem_list_free_space(c)
    \/ snd_ctl_elem_list(c)

Next ==
    \/ Disconnect
    \/ \E n \in Names, t \in scenario.tlvs : DriverAdds(n, t)
    \/ \E n \in Names : DriverRemoves(n)
    \/ \E c \in Clients :
        \/ Step(c) \/ PollInterrupted(c) \/ Die(c)
        \/ "add" \in scenario.calls[c] /\ AddCalls(c)
        \/ "value" \in scenario.calls[c] /\ ValueCalls(c)
        \/ "tlv" \in scenario.calls[c] /\ TlvCalls(c)
        \/ "event" \in scenario.calls[c] /\ EventCalls(c)
        \/ "list" \in scenario.calls[c] /\ ListCalls(c)

Spec == Init /\ [][Next]_vars

\* A process goes on with the call it is in, and poll() returns when it can.
FairSpec == Spec /\ \A c \in Clients : WF_vars(Step(c))

-----------------------------------------------------------------------------
(* Properties. *)

\* snd_ctl_elem_add_integer and _integer64 leave no element whose value is out of
\* its range: a new element gets its least value before the call returns, unless
\* its process dies or the card goes away between the two ioctls.
InRange ==
    \A n \in Names :
        /\ Exists(n) /\ elem[n].type \in {"integer", "integer64"}
        /\ elem[n].numid \notin half
        /\ \A c \in Clients : call[c].op = "add" => call[c].numid # elem[n].numid
        => elem[n].val >= elem[n].min

\* The initial value of an element is written to the element the call has added,
\* never to one of the same name that somebody else has added.
InitialOwn ==
    [][\A c \in Clients, n \in Names :
          /\ call[c].op = "add" /\ call[c] # call'[c]
          /\ Exists(n) /\ Exists(n)' /\ elem[n].val # elem'[n].val
          => elem[n].numid = call[c].numid]_vars

\* TLV data that snd_ctl_elem_tlv_read returns is data that the element of that
\* name, or numid, had while the call was running, not what was in the buffer, and
\* not another element's.
TlvTrue == \A c \in Clients : ret[c].op = "data" => ret[c].data \in ret[c].had

\* The data of a TLV read fits the caller's buffer, whatever length the driver's
\* answer claims.
TlvFits == \A c \in Clients : ret[c].op = "data" => ret[c].len <= ret[c].size

\* The ids of a list fit its array, after any sequence of
\* snd_ctl_elem_list_alloc_space and _free_space.
ListFits == \A c \in Clients : ret[c] = Result("list", 0) => list[c].used <= list[c].pids

\* The names of all items fit the buffer of snd_ctl_elem_add_enumerated.
NamesFit == \A n \in Names : Exists(n) => elem[n].names <= NamesBuf

\* No buffer is written or read past its end.
BuffersFit == TlvFits /\ ListFits /\ NamesFit

\* snd_ctl_wait returns when there is an event, when the time is over and when the
\* card is unplugged.
WaitEnds ==
    \A c \in Clients :
        (call[c].op = "wait" /\ (~present \/ queue[c] # <<>> \/ ~call[c].forever)) ~> call[c].op # "wait"
=============================================================================
