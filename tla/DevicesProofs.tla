--------------------------- MODULE DevicesProofs ---------------------------
(***************************************************************************)
(* Proofs about Devices, for any number of threads, handles and            *)
(* descriptors: the open and close functions implement the promise of      *)
(* Handles, keep the files of the rest of the program, and requests reach  *)
(* the stream they are meant for.                                          *)
(***************************************************************************)
EXTENDS Devices, FiniteSetTheorems, TLAPS

\* What the theorems need of a scenario.  errno is not zero when no call has
\* failed (CloseControl), and where the second allocation of snd_rawmidi_open may
\* fail, nobody else opens files between the two closes of its error path.
Orderly ==
    /\ 0 \notin scenario.errnos
    /\ "second" \in scenario.failing =>
           ~scenario.others /\ \A t, u \in scenario.threads : t = u

-----------------------------------------------------------------------------
(* Types. *)

Kinds == {"pcm", "ctl", "rawmidi", "hwdep", "timer"}
Streams == {"one", "in", "out"}
Params == (UNION {s.params : s \in Scenarios}) \cup {Default}
Scratch == [kind |-> "scratch"]
Device == [kind : Kinds, subdev : {0, 1}, nonblock : BOOLEAN,
           params : SUBSET (Streams \X Params), active : SUBSET Streams]
Memory == [kind : Kinds, stream : Streams, fd : Fds, params : Params, known : BOOLEAN,
           active : BOOLEAN]
Wants == {{"one"}, {"in"}, {"out"}, {"in", "out"}}
Call == [pc : {"control", "prefer", "unprefer", "open", "control done", "subdev",
               "version", "memory", "error", "mmap"},
         kind : Kinds, want : Wants, subdev : {-1, 0, 1}, granted : BOOLEAN,
         fd : Fds \cup {NULL}, ctl : Fds \cup {NULL}, made : SUBSET Handle]

\* The kernel's files, the handles and the calls in progress.
TypeOK ==
    /\ scenario \in Scenarios
    /\ file \in [Fds -> Device \cup {Free, Foreign, Scratch}]
    /\ theirs \subseteq Fds
    /\ hw \in [Fds -> Nat]
    /\ handle \in [Handle -> Memory \cup {None}]
    /\ maps \subseteq Handle \X {"status", "control"}
    /\ call \in [Threads -> Call \cup {Idle}]
    /\ done \in [Threads -> {"none", "refused", "opened"}]

-----------------------------------------------------------------------------
(* The inductive invariant. *)

Active == {t \in Threads : call[t] # Idle}
Live == {h \in Handle : handle[h] # None}

\* The descriptors a call has.
Own(t) == IF call[t] = Idle THEN {} ELSE {call[t].fd, call[t].ctl}

\* How far a call has come: which descriptors it has, and what they are.
StepOK(t) == LET c == call[t] IN
    /\ t \in scenario.threads
    /\ c.fd = NULL <=> c.pc \in {"control", "prefer", "unprefer", "open"}
    /\ c.pc \in {"prefer", "unprefer", "control done"} => c.ctl # NULL
    /\ c.pc \notin {"prefer", "unprefer", "control done", "open"} => c.ctl = NULL
    /\ c.ctl # NULL => file[c.ctl] = Scratch
    /\ c.fd # NULL /\ c.pc # "error" =>
         file[c.fd] \in Device /\ file[c.fd].kind = c.kind /\ file[c.fd].active = {}
    /\ c.pc = "error" => file[c.fd] = Free /\ "second" \in scenario.failing
    /\ c.kind = "rawmidi" <=> c.want # {"one"}
StepInv == \A t \in Active : StepOK(t)

\* The handles a call has made and not handed out yet.
MadeOK(t) == LET c == call[t] IN
    /\ c.pc = "mmap" => c.made # {}
    /\ c.made # {} =>
         \/ c.pc = "memory" /\ c.want = {"in", "out"}
         \/ c.pc = "mmap" /\ c.kind = "pcm"
    /\ \A g \in c.made :
         /\ c.made = {g} /\ g \in Live
         /\ handle[g].fd = c.fd /\ handle[g].kind = c.kind
         /\ c.kind = "rawmidi" => handle[g].stream = "in"
MadeInv == \A t \in Active : MadeOK(t)

\* A handle's file is of its kind, and its stream is as the handle says.
LiveOK(g) ==
    /\ file[handle[g].fd] \in Device
    /\ file[handle[g].fd].kind = handle[g].kind
    /\ handle[g].kind = "rawmidi" <=> handle[g].stream # "one"
    /\ handle[g].active <=> handle[g].stream \in file[handle[g].fd].active
    /\ handle[g].kind = "rawmidi" /\ handle[g].known =>
         <<handle[g].stream, handle[g].params>> \in file[handle[g].fd].params
LiveInv == \A g \in Live : LiveOK(g)

\* Nobody has a descriptor of another: two calls, two handles (unless they are
\* the two of one raw MIDI device), a call and a handle it has not made.
ApartInv ==
    /\ \A t, u \in Active : t # u =>
         /\ call[t].fd # NULL => call[t].fd # call[u].fd
         /\ call[t].ctl # NULL => call[t].ctl # call[u].ctl
    /\ \A g, h \in Live : g # h /\ handle[g].fd = handle[h].fd =>
         handle[g].kind = "rawmidi" /\ handle[g].stream # handle[h].stream
    /\ \A g \in Live, t \in Active : handle[g].fd = call[t].fd => g \in call[t].made

\* hw->opened is the number of raw MIDI handles of a file.
UsersInv ==
    \A fd \in Fds :
        /\ hw[fd] = 0 <=> \A g \in Live : handle[g].fd = fd => handle[g].kind # "rawmidi"
        /\ \A g \in Live : handle[g].fd = fd /\ handle[g].kind = "rawmidi" =>
             /\ hw[fd] \in {1, 2}
             /\ hw[fd] = 1 <=> \A h \in Live : handle[h].fd = fd => h = g

\* Both pages are mapped or none, for a PCM handle that was handed out.
MapsInv ==
    \A h \in Handle : \A p \in {"status", "control"} : <<h, p>> \in maps =>
        /\ h \in Given /\ handle[h].kind = "pcm"
        /\ \A q \in {"status", "control"} : <<h, q>> \in maps

IInv == /\ TypeOK /\ Orderly /\ OthersKept
        /\ StepInv /\ MadeInv /\ LiveInv /\ ApartInv /\ UsersInv /\ MapsInv

\* The variables of Handles: what is handed out, and the open files that are no
\* call's.  Most steps leave both alone.
Held == [h \in Given |-> handle[h].fd]
Files == {fd \in Fds : file[fd] \notin {Free, Foreign}} \ Busy
Unseen == Held' = Held /\ Files' = Files

-----------------------------------------------------------------------------
(* One lemma per action. *)

\* Descriptors are never NULL.
LEMMA FdsNotNull == NULL \notin Fds
BY DevicesConstants DEF DevicesConstants, NULL

\* The shapes of files, of memory and of calls are told apart.
LEMMA Shapes ==
    /\ Free \notin Device /\ Foreign \notin Device /\ Scratch \notin Device
    /\ Free # Foreign /\ Free # Scratch /\ Foreign # Scratch
    /\ None \notin Memory /\ Idle \notin Call
BY DEF Free, Foreign, Scratch, None, Idle, Device, Memory, Call, Kinds

\* What a call that is not at the end of an error path has is open.
LEMMA OwnFiles ==
    ASSUME TypeOK, StepInv, NEW u \in Active
    PROVE  /\ call[u] \in Call /\ Own(u) = {call[u].fd, call[u].ctl}
           /\ Own(u) \subseteq Fds \cup {NULL}
           /\ call[u].ctl # NULL => file[call[u].ctl] = Scratch
           /\ call[u].fd # NULL => 
                IF call[u].pc = "error" THEN file[call[u].fd] = Free ELSE file[call[u].fd] \in Device
<1>1. u \in Threads /\ call[u] # Idle /\ call[u] \in Call /\ Own(u) = {call[u].fd, call[u].ctl}
  BY DEF Active, TypeOK, Own
<1>2. call[u].fd \in Fds \cup {NULL} /\ call[u].ctl \in Fds \cup {NULL}
  BY <1>1 DEF Call
<1>. QED
  BY <1>1, <1>2 DEF StepInv, StepOK

\* What is handed out, in terms of the live handles.
LEMMA GivenIs ==
    /\ \A h : h \in Given <=> h \in Live /\ \A u \in Active : h \notin call[u].made
    /\ \A h : h \in Given' <=> h \in Live' /\ \A u \in Active' : h \notin call'[u].made
BY DEF Given, Making, Live, Active

\* The open files that are no call's.
LEMMA FilesIs ==
    /\ Files = {fd \in Fds : file[fd] \notin {Free, Foreign} /\ \A u \in Active : fd \notin Own(u)}
    /\ Files' = {fd \in Fds : file'[fd] \notin {Free, Foreign} /\ \A u \in Active' : fd \notin Own(u)'}
<1>1. \A fd : fd \in Busy <=> \E u \in Active : fd \in Own(u)
  BY DEF Busy, Own, Active
<1>2. \A fd : fd \in Busy' <=> \E u \in Active' : fd \in Own(u)'
  BY DEF Busy, Own, Active
<1>. QED
  BY <1>1, <1>2 DEF Files

\* A step of a call that has made no handles, and touches no file but its own
\* and ones that nobody has.
LEMMA CallStep ==
    ASSUME IInv, NEW t \in scenario.threads, t \in Threads, TypeOK',
           UNCHANGED <<scenario, theirs, hw, handle, maps>>,
           \A u \in Threads : u # t => call'[u] = call[u],
           \A d \in Fds : file'[d] = file[d] \/ (file[d] = Free /\ d \in Own(t)') \/ d \in Own(t),
           \A d \in Own(t) : d = NULL \/ d \in Own(t)' \/ file'[d] = Free,
           t \in Active => call[t].made = {},
           t \in Active' => /\ StepOK(t)'
                            /\ call'[t].made = {} /\ call'[t].pc # "mmap"
                            /\ \A d \in Own(t)' : d = NULL \/ d \in Own(t) \/ file[d] = Free
    PROVE  IInv' /\ Unseen
<1>. USE FdsNotNull
<1>1. /\ \A u \in Active : u # t => u \in Active' /\ call'[u] = call[u]
      /\ \A u \in Active' : u # t => u \in Active /\ call'[u] = call[u]
      /\ Live' = Live /\ Live \subseteq Handle
  BY DEF Active, Live
<1>2. Given' = Given
  BY <1>1 DEF Given, Making, Active, Live
<1>3. \A u \in Active : u # t => call[u].pc # "error"
  BY DEF IInv, StepInv, StepOK, Orderly, Active
<1>4. Orderly'
  BY DEF IInv, Orderly
<1>5. \A u \in Active : call[u] \in Call
  BY DEF IInv, TypeOK, Active
<1>6. \A g \in Live : handle[g] \in Memory
  BY DEF IInv, TypeOK, Live
<1>7. \A u \in Active : u # t => \A d \in Own(u) : d # NULL =>
         d \in Fds /\ file[d] # Free /\ d \notin Own(t) /\ file'[d] = file[d]
  <2>. SUFFICES ASSUME NEW u \in Active, u # t, NEW d \in Own(u), d # NULL
                PROVE  d \in Fds /\ file[d] # Free /\ d \notin Own(t)
    OBVIOUS
  <2>1. d \in Fds /\ file[d] # Free
    BY <1>3, OwnFiles, Shapes DEF IInv
  <2>2. ASSUME t \in Active PROVE d \notin Own(t)
    BY <2>1, <2>2, OwnFiles, Shapes DEF IInv, ApartInv
  <2>. QED
    BY <2>1, <2>2 DEF Own, Active
<1>8. \A g \in Live : file'[handle[g].fd] = file[handle[g].fd]
  <2>. SUFFICES ASSUME NEW g \in Live PROVE file'[handle[g].fd] = file[handle[g].fd]
    OBVIOUS
  <2>1. handle[g].fd \in Fds /\ file[handle[g].fd] \in Device
    BY <1>6 DEF IInv, LiveInv, LiveOK, Memory
  <2>2. ASSUME t \in Active PROVE handle[g].fd \notin Own(t)
    BY <2>1, <2>2, OwnFiles, Shapes DEF IInv, ApartInv
  <2>. QED
    BY <2>1, <2>2, Shapes DEF Own, Active
<1>9. OthersKept'
  <2>. SUFFICES ASSUME NEW d \in theirs PROVE file'[d] = Foreign
    BY DEF OthersKept
  <2>1. d \in Fds /\ file[d] = Foreign /\ Foreign # Free /\ Foreign # Scratch /\ Foreign \notin Device
    BY DEF IInv, OthersKept, TypeOK, Foreign, Free, Scratch, Device, Kinds
  <2>2. ASSUME t \in Active PROVE d \notin Own(t)
    BY <2>1, <2>2 DEF IInv, StepInv, StepOK, Own, Active
  <2>. QED
    BY <2>1, <2>2 DEF Own, Active
<1>10. StepInv'
  <2>. SUFFICES ASSUME NEW u \in Active', u # t PROVE StepOK(u)'
    BY DEF StepInv
  <2>1. u \in Active /\ call'[u] = call[u] /\ StepOK(u)
    BY <1>1 DEF IInv, StepInv
  <2>2. \A d \in {call[u].fd, call[u].ctl} : d # NULL => file'[d] = file[d]
    BY <1>7, <2>1 DEF Own, Active
  <2>. QED
    BY <2>1, <2>2 DEF StepOK
<1>11. MadeInv'
  BY <1>1 DEF IInv, MadeInv, MadeOK
<1>12. LiveInv'
  BY <1>1, <1>8 DEF IInv, LiveInv, LiveOK
<1>13. ApartInv'
  <2>1. \A u \in Active : u # t /\ t \in Active' => \A d \in Own(t)' : d # NULL => d \notin Own(u)
    BY <1>7
  <2>2. t \in Active' => Own(t)' = {call'[t].fd, call'[t].ctl}
    BY DEF Own, Active
  <2>3. \A u \in Active : u # t => Own(u) = {call[u].fd, call[u].ctl}
    BY DEF Own, Active
  <2>4. \A u, v \in Active' : u # v =>
         /\ call'[u].fd # NULL => call'[u].fd # call'[v].fd
         /\ call'[u].ctl # NULL => call'[u].ctl # call'[v].ctl
    <3>. SUFFICES ASSUME NEW u \in Active', NEW v \in Active', u # v
                  PROVE  /\ call'[u].fd # NULL => call'[u].fd # call'[v].fd
                         /\ call'[u].ctl # NULL => call'[u].ctl # call'[v].ctl
      OBVIOUS
    <3>1. CASE u = t
      <4>1. v \in Active /\ call'[v] = call[v] /\ Own(v) = {call[v].fd, call[v].ctl}
        BY <3>1, <1>1, <2>3
      <4>. QED
        BY <3>1, <4>1, <2>1, <2>2
    <3>2. CASE v = t
      <4>1. u \in Active /\ call'[u] = call[u] /\ Own(u) = {call[u].fd, call[u].ctl}
        BY <3>2, <1>1, <2>3
      <4>. QED
        BY <3>2, <4>1, <2>1, <2>2
    <3>3. CASE u # t /\ v # t
      <4>1. u \in Active /\ call'[u] = call[u] /\ v \in Active /\ call'[v] = call[v]
        BY <3>3, <1>1
      <4>. QED
        BY <4>1 DEF IInv, ApartInv
    <3>. QED
      BY <3>1, <3>2, <3>3
  <2>5. \A g \in Live : t \in Active' => handle[g].fd # call'[t].fd
    <3>. SUFFICES ASSUME NEW g \in Live, t \in Active', call'[t].fd = handle[g].fd PROVE FALSE
      OBVIOUS
    <3>1. handle[g].fd \in Fds /\ file[handle[g].fd] \in Device
      BY <1>6 DEF IInv, LiveInv, LiveOK, Memory
    <3>2. handle[g].fd \in Own(t) /\ t \in Active
      BY <3>1, <2>2, Shapes DEF Own, Active
    <3>. QED
      BY <3>1, <3>2, OwnFiles, Shapes DEF IInv, ApartInv
  <2>. QED
    BY <1>1, <2>4, <2>5 DEF IInv, ApartInv
<1>14. UsersInv' /\ MapsInv'
  BY <1>1, <1>2 DEF IInv, UsersInv, MapsInv
<1>15. Unseen
  <2>1. \A u : u \in Active /\ u # t => Own(u)' = Own(u)
    BY <1>1 DEF Own, Active
  <2>2. \A d \in Fds : d \in Files <=> d \in Files'
    <3>. SUFFICES ASSUME NEW d \in Fds PROVE d \in Files <=> d \in Files'
      OBVIOUS
    <3>1. t \notin Active => d \notin Own(t)
      BY DEF Own, Active
    <3>2. t \notin Active' => d \notin Own(t)'
      BY DEF Own, Active
    <3>3. CASE d \in Own(t) \/ d \in Own(t)'
      <4>1. d \notin Files
        BY <3>1, <3>2, <3>3, FilesIs
      <4>2. d \notin Files'
        BY <3>1, <3>2, <3>3, FilesIs
      <4>. QED
        BY <4>1, <4>2
    <3>4. CASE d \notin Own(t) /\ d \notin Own(t)'
      <4>1. file'[d] = file[d]
        BY <3>4
      <4>2. (\E u \in Active : d \in Own(u)) <=> (\E u \in Active' : d \in Own(u)')
        BY <1>1, <2>1, <3>4
      <4>. QED
        BY <4>1, <4>2, FilesIs
    <3>. QED
      BY <3>3, <3>4
  <2>3. Files' = Files
    BY <2>2, FilesIs
  <2>. QED
    BY <1>2, <2>3 DEF Unseen, Held
<1>. QED
  BY <1>4, <1>9, <1>10, <1>11, <1>12, <1>13, <1>14, <1>15 DEF IInv

\* The state of a call, spelt out.
LEMMA CallTypes ==
    ASSUME IInv, NEW t \in scenario.threads
    PROVE  /\ t \in Threads /\ TypeOK
           /\ call[t].pc # "idle" => t \in Active /\ call[t] \in Call /\ StepOK(t) /\ MadeOK(t)
           /\ call[t].pc = "idle" => call[t] = Idle /\ t \notin Active
<1>1. t \in Threads
  BY DevicesConstants DEF IInv, TypeOK, DevicesConstants
<1>2. call[t] \in Call \cup {Idle}
  BY <1>1 DEF IInv, TypeOK
<1>3. Idle.pc = "idle" /\ \A c \in Call : c.pc # "idle"
  BY DEF Idle, Call
<1>. QED
  BY <1>1, <1>2, <1>3 DEF Active, IInv, StepInv, MadeInv

\* A call that ends.
LEMMA EndsTypes ==
    ASSUME TypeOK, NEW t \in Threads, NEW ret, Ends(t, ret)
    PROVE  /\ call' \in [Threads -> Call \cup {Idle}] /\ done' \in [Threads -> {"none", "refused", "opened"}]
           /\ call'[t] = Idle /\ \A u \in Threads : u # t => call'[u] = call[u]
           /\ t \notin Active'
BY DEF TypeOK, Ends, Active

\* A call that goes on.
LEMMA GoTypes ==
    ASSUME TypeOK, NEW t \in Threads, NEW c \in Call, Go(t, c)
    PROVE  /\ call' \in [Threads -> Call \cup {Idle}]
           /\ call'[t] = c /\ \A u \in Threads : u # t => call'[u] = call[u]
           /\ t \in Active' /\ Own(t)' = {c.fd, c.ctl}
BY Shapes DEF TypeOK, Go, Active, Own

\* A step that closes the call's only file, if it has one, and ends the call.
LEMMA EndStep ==
    ASSUME IInv, NEW t \in scenario.threads, t \in Active, call[t].made = {},
           NEW ret, Ends(t, ret),
           \/ UNCHANGED file /\ Own(t) = {NULL}
           \/ \E d \in Own(t) \ {NULL} : close(d) /\ Own(t) = {d, NULL},
           UNCHANGED <<scenario, theirs, hw, handle, maps>>
    PROVE  IInv' /\ Unseen
<1>1. t \in Threads /\ TypeOK
  BY CallTypes DEF IInv
<1>2. Own(t) \subseteq Fds \cup {NULL}
  BY OwnFiles DEF IInv
<1>3. /\ file' \in [Fds -> Device \cup {Free, Foreign, Scratch}]
      /\ \A d \in Fds : file'[d] = file[d] \/ d \in Own(t)
      /\ \A d \in Own(t) : d = NULL \/ file'[d] = Free
  BY <1>1, <1>2 DEF TypeOK, close
<1>4. TypeOK'
  BY <1>1, <1>3, EndsTypes DEF TypeOK
<1>5. \A d \in Fds : file'[d] = file[d] \/ (file[d] = Free /\ d \in Own(t)') \/ d \in Own(t)
  BY <1>3
<1>6. \A d \in Own(t) : d = NULL \/ d \in Own(t)' \/ file'[d] = Free
  BY <1>3
<1>7. t \notin Active' /\ \A u \in Threads : u # t => call'[u] = call[u]
  BY <1>1, EndsTypes
<1>. QED
  BY <1>1, <1>4, <1>5, <1>6, <1>7, CallStep

\* A name is resolved and a call begins.
LEMMA StartOpenInv ==
    ASSUME IInv, NEW t \in scenario.threads, NEW kind \in Kinds, NEW want \in Wants,
           NEW subdev \in {-1, 0, 1}, kind = "rawmidi" <=> want # {"one"},
           StartOpen(t, kind, want, subdev)
    PROVE  IInv' /\ Unseen
<1> DEFINE c == [pc |-> IF subdev >= 0 THEN "control" ELSE "open", kind |-> kind, want |-> want,
                 subdev |-> subdev, granted |-> FALSE, fd |-> NULL, ctl |-> NULL, made |-> {}]
<1>1. t \in Threads /\ TypeOK /\ call[t] = Idle /\ t \notin Active
  BY CallTypes DEF IInv, StartOpen, Idle, Active
<1>2. Go(t, c) /\ UNCHANGED <<scenario, file, theirs, hw, handle, maps, done>>
  BY DEF StartOpen
<1>3. c \in Call
  BY DEF Call
<1>4. TypeOK'
  BY <1>1, <1>2, <1>3, GoTypes DEF TypeOK
<1>5. /\ call'[t] = c /\ (\A u \in Threads : u # t => call'[u] = call[u]) /\ Own(t)' = {NULL}
      /\ Own(t) = {}
  BY <1>1, <1>2, <1>3, GoTypes DEF Own
<1>6. StepOK(t)'
  BY <1>2, <1>5 DEF StepOK
<1>7. /\ \A d \in Fds : file'[d] = file[d] \/ (file[d] = Free /\ d \in Own(t)') \/ d \in Own(t)
      /\ \A d \in Own(t) : d = NULL \/ d \in Own(t)' \/ file'[d] = Free
      /\ \A d \in Own(t)' : d = NULL \/ d \in Own(t) \/ file[d] = Free
  BY <1>2, <1>5
<1>8. call'[t].made = {} /\ call'[t].pc # "mmap"
  BY <1>5
<1>. QED
  BY <1>1, <1>2, <1>4, <1>5, <1>6, <1>7, <1>8, CallStep

\* A step that leads a call on.
LEMMA GoStep ==
    ASSUME IInv, NEW t \in scenario.threads, t \in Active, call[t].made = {},
           NEW c, Go(t, c), c \in Call, 
           call'[t].made = {}, call'[t].pc # "mmap", UNCHANGED done,
           file' \in [Fds -> Device \cup {Free, Foreign, Scratch}],
           \A d \in Fds :
               \/ file'[d] = file[d] \/ d \in {call[t].fd, call[t].ctl}
               \/ file[d] = Free /\ d \in {call'[t].fd, call'[t].ctl},
           \A d \in {call[t].fd, call[t].ctl} :
               d = NULL \/ d \in {call'[t].fd, call'[t].ctl} \/ file'[d] = Free,
           \A d \in {call'[t].fd, call'[t].ctl} :
               d = NULL \/ d \in {call[t].fd, call[t].ctl} \/ file[d] = Free,
           StepOK(t)',
           UNCHANGED <<scenario, theirs, hw, handle, maps>>
    PROVE  IInv' /\ Unseen
<1>1. t \in Threads /\ TypeOK /\ Own(t) = {call[t].fd, call[t].ctl}
  BY CallTypes DEF Own, Active
<1>2. TypeOK'
  BY <1>1, GoTypes DEF TypeOK
<1>3. (\A u \in Threads : u # t => call'[u] = call[u]) /\ Own(t)' = {call'[t].fd, call'[t].ctl}
  BY <1>1, GoTypes
<1>4. /\ \A d \in Fds : file'[d] = file[d] \/ (file[d] = Free /\ d \in Own(t)') \/ d \in Own(t)
      /\ \A d \in Own(t) : d = NULL \/ d \in Own(t)' \/ file'[d] = Free
      /\ \A d \in Own(t)' : d = NULL \/ d \in Own(t) \/ file[d] = Free
  BY <1>1, <1>3
<1>. QED
  BY <1>1, <1>2, <1>3, <1>4, CallStep

\* The card's control file gets a number that nobody has, or the call fails.
LEMMA OpenControlInv ==
    ASSUME IInv, NEW t \in scenario.threads, OpenControl(t)
    PROVE  IInv' /\ Unseen
<1>1. /\ t \in Active /\ t \in Threads /\ call[t] \in Call /\ StepOK(t) /\ MadeOK(t)
      /\ call[t].pc = "control"
      /\ TypeOK /\ UNCHANGED <<scenario, theirs, hw, handle, maps>>
  BY CallTypes DEF OpenControl
<1>2. call[t].made = {} /\ Own(t) = {NULL}
  BY <1>1 DEF MadeOK, Own, Active, StepOK
<1>3. CASE UNCHANGED file /\ Ends(t, ENODEV)
  BY <1>1, <1>2, <1>3, EndStep
<1>4. ASSUME NEW fd \in FreeFds, Opened(fd, Scratch), UNCHANGED done,
             Go(t, [call[t] EXCEPT !.pc = "prefer", !.ctl = fd])
      PROVE  IInv' /\ Unseen
  <2>1. /\ fd \in Fds /\ file[fd] = Free /\ file'[fd] = Scratch
        /\ file' \in [Fds -> Device \cup {Free, Foreign, Scratch}]
        /\ \A d \in Fds : d # fd => file'[d] = file[d]
    BY <1>1, <1>4 DEF FreeFds, Opened, TypeOK
  <2>2. [call[t] EXCEPT !.pc = "prefer", !.ctl = fd] \in Call
    BY <1>1, <2>1 DEF Call
  <2>3. /\ call'[t].pc = "prefer" /\ call'[t].ctl = fd /\ call'[t].fd = call[t].fd
        /\ call'[t].kind = call[t].kind /\ call'[t].want = call[t].want /\ call'[t].made = {}
    BY <1>1, <1>2, <1>4 DEF Call, Go, TypeOK
  <2>4. StepOK(t)'
    BY <1>1, <2>1, <2>3, FdsNotNull DEF StepOK
  <2>. QED
    BY <1>1, <1>2, <1>4, <2>1, <2>2, <2>3, <2>4, GoStep DEF StepOK
<1>. QED
  BY <1>3, <1>4 DEF OpenControl, Scratch

\* The preference is stated, or refused.
LEMMA PreferSubdevInv ==
    ASSUME IInv, NEW t \in scenario.threads, PreferSubdev(t)
    PROVE  IInv' /\ Unseen
<1>1. /\ t \in Active /\ t \in Threads /\ call[t] \in Call /\ StepOK(t) /\ MadeOK(t)
      /\ call[t].pc = "prefer"
      /\ TypeOK /\ UNCHANGED <<scenario, theirs, hw, handle, maps>>
  BY CallTypes DEF PreferSubdev
<1>2. call[t].made = {} /\ Own(t) = {call[t].fd, call[t].ctl}
  BY <1>1 DEF MadeOK, Own, Active
<1>3. file' \in [Fds -> Device \cup {Free, Foreign, Scratch}] /\ file' = file /\ done' = done
  BY <1>1 DEF PreferSubdev, TypeOK
<1>4. CASE Go(t, [call[t] EXCEPT !.pc = "unprefer", !.granted = TRUE])
  <2>1. [call[t] EXCEPT !.pc = "unprefer", !.granted = TRUE] \in Call
    BY <1>1 DEF Call
  <2>2. /\ call'[t].pc = "unprefer" /\ call'[t].ctl = call[t].ctl /\ call'[t].fd = call[t].fd
        /\ call'[t].kind = call[t].kind /\ call'[t].want = call[t].want /\ call'[t].made = {}
    BY <1>1, <1>2, <1>4 DEF Call, Go, TypeOK
  <2>3. StepOK(t)'
    BY <1>1, <1>3, <2>2 DEF StepOK
  <2>. QED
    BY <1>1, <1>2, <1>3, <1>4, <2>1, <2>2, <2>3, GoStep
<1>5. CASE Go(t, [call[t] EXCEPT !.pc = "open"])
  <2>1. [call[t] EXCEPT !.pc = "open"] \in Call
    BY <1>1 DEF Call
  <2>2. /\ call'[t].pc = "open" /\ call'[t].ctl = call[t].ctl /\ call'[t].fd = call[t].fd
        /\ call'[t].kind = call[t].kind /\ call'[t].want = call[t].want /\ call'[t].made = {}
    BY <1>1, <1>2, <1>5 DEF Call, Go, TypeOK
  <2>3. StepOK(t)'
    BY <1>1, <1>3, <2>2 DEF StepOK
  <2>. QED
    BY <1>1, <1>2, <1>3, <1>5, <2>1, <2>2, <2>3, GoStep
<1>. QED
  BY <1>4, <1>5 DEF PreferSubdev

\* With the preference stated the control file is closed and the call fails.
LEMMA CloseControlInv ==
    ASSUME IInv, NEW t \in scenario.threads, CloseControl(t)
    PROVE  IInv' /\ Unseen
<1>1. /\ t \in Active /\ t \in Threads /\ call[t] \in Call /\ StepOK(t) /\ MadeOK(t)
      /\ call[t].pc = "unprefer"
      /\ TypeOK /\ UNCHANGED <<scenario, theirs, hw, handle, maps>>
  BY CallTypes DEF CloseControl
<1>2. call[t].made = {} /\ Own(t) = {call[t].fd, call[t].ctl}
  BY <1>1 DEF MadeOK, Own, Active
<1>3. PICK errno \in scenario.errnos : errno # 0 /\ Ends(t, -errno)
  BY DEF CloseControl, IInv, Orderly
<1>4. close(call[t].ctl) /\ call[t].ctl # NULL /\ Own(t) = {call[t].ctl, NULL}
  BY <1>1, <1>2 DEF CloseControl, StepOK
<1>. QED
  BY <1>1, <1>2, <1>3, <1>4, EndStep

\* The device file gets a number that nobody has.
LEMMA OpenDeviceInv ==
    ASSUME IInv, NEW t \in scenario.threads, OpenDevice(t)
    PROVE  IInv' /\ Unseen
<1>1. /\ t \in Active /\ t \in Threads /\ call[t] \in Call /\ StepOK(t) /\ MadeOK(t)
      /\ call[t].pc = "open"
      /\ TypeOK /\ UNCHANGED <<scenario, theirs, hw, handle, maps>>
  BY CallTypes DEF OpenDevice
<1>2. call[t].made = {} /\ Own(t) = {call[t].fd, call[t].ctl}
  BY <1>1 DEF MadeOK, Own, Active
<1>3. PICK fd \in FreeFds, subdev \in {0, 1} :
         /\ Opened(fd, [kind |-> call[t].kind, subdev |-> subdev, nonblock |-> FALSE,
                        params |-> {}, active |-> {}])
         /\ Go(t, [call[t] EXCEPT !.fd = fd,
                                  !.pc = IF call[t].ctl # NULL THEN "control done" ELSE "subdev"])
  BY DEF OpenDevice
<1>4. done' = done
  BY DEF OpenDevice
<1>5. /\ fd \in Fds /\ file[fd] = Free
      /\ file'[fd] \in Device /\ file'[fd].kind = call[t].kind /\ file'[fd].active = {}
      /\ file' \in [Fds -> Device \cup {Free, Foreign, Scratch}]
      /\ \A d \in Fds : d # fd => file'[d] = file[d]
  BY <1>1, <1>3 DEF FreeFds, Opened, TypeOK, Device, Call
<1>6. [call[t] EXCEPT !.fd = fd, !.pc = IF call[t].ctl # NULL THEN "control done" ELSE "subdev"] \in Call
  BY <1>1, <1>5 DEF Call
<1>7. /\ call'[t].pc = IF call[t].ctl # NULL THEN "control done" ELSE "subdev"
      /\ call'[t].ctl = call[t].ctl /\ call'[t].fd = fd
      /\ call'[t].kind = call[t].kind /\ call'[t].want = call[t].want /\ call'[t].made = {}
  BY <1>1, <1>2, <1>3 DEF Call, Go, TypeOK
<1>8. call[t].ctl # NULL => call[t].ctl \in Fds /\ call[t].ctl # fd
  BY <1>1, <1>5, Shapes DEF StepOK, Call
<1>9. StepOK(t)'
  BY <1>1, <1>5, <1>7, <1>8, FdsNotNull DEF StepOK
<1>10. call[t].fd = NULL
  BY <1>1 DEF StepOK
<1>. QED
  BY <1>1, <1>2, <1>3, <1>4, <1>5, <1>6, <1>7, <1>9, <1>10, GoStep

\* The device file cannot be opened.
LEMMA OpenFailsInv ==
    ASSUME IInv, NEW t \in scenario.threads, OpenFails(t)
    PROVE  IInv' /\ Unseen
<1>1. /\ t \in Active /\ t \in Threads /\ call[t] \in Call /\ StepOK(t) /\ MadeOK(t)
      /\ call[t].pc = "open"
      /\ TypeOK /\ UNCHANGED <<scenario, theirs, hw, handle, maps>>
  BY CallTypes DEF OpenFails
<1>2. call[t].made = {} /\ Own(t) = {call[t].fd, call[t].ctl}
  BY <1>1 DEF MadeOK, Own, Active
<1>3. \/ UNCHANGED file /\ Own(t) = {NULL}
      \/ \E d \in Own(t) \ {NULL} : close(d) /\ Own(t) = {d, NULL}
  BY <1>1, <1>2 DEF OpenFails, StepOK
<1>4. PICK ret : Ends(t, ret)
  BY DEF OpenFails
<1>. QED
  BY <1>1, <1>2, <1>3, <1>4, EndStep

\* The control file is closed when the device file is open.
LEMMA DropControlInv ==
    ASSUME IInv, NEW t \in scenario.threads, DropControl(t)
    PROVE  IInv' /\ Unseen
<1>1. /\ t \in Active /\ t \in Threads /\ call[t] \in Call /\ StepOK(t) /\ MadeOK(t)
      /\ call[t].pc = "control done"
      /\ TypeOK /\ UNCHANGED <<scenario, theirs, hw, handle, maps>>
  BY CallTypes DEF DropControl
<1>2. call[t].made = {} /\ Own(t) = {call[t].fd, call[t].ctl}
  BY <1>1 DEF MadeOK, Own, Active
<1>3. /\ call[t].ctl \in Fds /\ call[t].fd \in Fds /\ call[t].fd # call[t].ctl
  BY <1>1, Shapes DEF StepOK, Call
<1>4. /\ file' \in [Fds -> Device \cup {Free, Foreign, Scratch}]
      /\ file'[call[t].ctl] = Free /\ \A d \in Fds : d # call[t].ctl => file'[d] = file[d]
  BY <1>1, <1>3 DEF DropControl, close, TypeOK
<1>5. Go(t, [call[t] EXCEPT !.pc = "subdev", !.ctl = NULL]) /\ done' = done
  BY DEF DropControl
<1>6. [call[t] EXCEPT !.pc = "subdev", !.ctl = NULL] \in Call
  BY <1>1 DEF Call
<1>7. /\ call'[t].pc = "subdev" /\ call'[t].ctl = NULL /\ call'[t].fd = call[t].fd
      /\ call'[t].kind = call[t].kind /\ call'[t].want = call[t].want /\ call'[t].made = {}
  BY <1>1, <1>2, <1>5 DEF Call, Go, TypeOK
<1>8. StepOK(t)'
  BY <1>1, <1>3, <1>4, <1>7 DEF StepOK
<1>. QED
  BY <1>1, <1>2, <1>4, <1>5, <1>6, <1>7, <1>8, GoStep

\* A subdevice that is not the one asked for is closed again.
LEMMA CheckSubdevInv ==
    ASSUME IInv, NEW t \in scenario.threads, CheckSubdev(t)
    PROVE  IInv' /\ Unseen
<1>1. /\ t \in Active /\ t \in Threads /\ call[t] \in Call /\ StepOK(t) /\ MadeOK(t)
      /\ call[t].pc = "subdev"
      /\ TypeOK /\ UNCHANGED <<scenario, theirs, hw, handle, maps>>
  BY CallTypes DEF CheckSubdev
<1>2. call[t].made = {} /\ Own(t) = {call[t].fd, call[t].ctl}
  BY <1>1 DEF MadeOK, Own, Active
<1>3. CASE \E ret : close(call[t].fd) /\ Ends(t, ret)
  <2>1. call[t].fd # NULL /\ Own(t) = {call[t].fd, NULL}
    BY <1>1, <1>2 DEF StepOK
  <2>. QED
    BY <1>1, <1>2, <1>3, <2>1, EndStep
<1>4. CASE Go(t, [call[t] EXCEPT !.pc = "version"]) /\ UNCHANGED <<file, done>>
  <2>1. [call[t] EXCEPT !.pc = "version"] \in Call
    BY <1>1 DEF Call
  <2>2. /\ call'[t].pc = "version" /\ call'[t].ctl = call[t].ctl /\ call'[t].fd = call[t].fd
        /\ call'[t].kind = call[t].kind /\ call'[t].want = call[t].want /\ call'[t].made = {}
    BY <1>1, <1>2, <1>4 DEF Call, Go, TypeOK
  <2>3. StepOK(t)'
    BY <1>1, <1>4, <2>2 DEF StepOK
  <2>4. file' \in [Fds -> Device \cup {Free, Foreign, Scratch}] /\ file' = file
    BY <1>1, <1>4 DEF TypeOK
  <2>. QED
    BY <1>1, <1>2, <1>4, <2>1, <2>2, <2>3, <2>4, GoStep
<1>. QED
  BY <1>3, <1>4 DEF CheckSubdev

\* The version is right, or the file is closed.
LEMMA AskVersionInv ==
    ASSUME IInv, NEW t \in scenario.threads, AskVersion(t)
    PROVE  IInv' /\ Unseen
<1>1. /\ t \in Active /\ t \in Threads /\ call[t] \in Call /\ StepOK(t) /\ MadeOK(t)
      /\ call[t].pc = "version"
      /\ TypeOK /\ UNCHANGED <<scenario, theirs, hw, handle, maps>>
  BY CallTypes DEF AskVersion
<1>2. call[t].made = {} /\ Own(t) = {call[t].fd, call[t].ctl}
  BY <1>1 DEF MadeOK, Own, Active
<1>3. CASE \E ret : close(call[t].fd) /\ Ends(t, ret)
  <2>1. call[t].fd # NULL /\ Own(t) = {call[t].fd, NULL}
    BY <1>1, <1>2 DEF StepOK
  <2>. QED
    BY <1>1, <1>2, <1>3, <2>1, EndStep
<1>4. CASE Go(t, [call[t] EXCEPT !.pc = "memory"]) /\ UNCHANGED <<file, done>>
  <2>1. [call[t] EXCEPT !.pc = "memory"] \in Call
    BY <1>1 DEF Call
  <2>2. /\ call'[t].pc = "memory" /\ call'[t].ctl = call[t].ctl /\ call'[t].fd = call[t].fd
        /\ call'[t].kind = call[t].kind /\ call'[t].want = call[t].want /\ call'[t].made = {}
    BY <1>1, <1>2, <1>4 DEF Call, Go, TypeOK
  <2>3. StepOK(t)'
    BY <1>1, <1>4, <2>2 DEF StepOK
  <2>4. file' \in [Fds -> Device \cup {Free, Foreign, Scratch}] /\ file' = file
    BY <1>1, <1>4 DEF TypeOK
  <2>. QED
    BY <1>1, <1>2, <1>4, <2>1, <2>2, <2>3, <2>4, GoStep
<1>. QED
  BY <1>3, <1>4 DEF AskVersion

\* The second close of the error path: nobody has opened a file since the first.
LEMMA CloseAgainInv ==
    ASSUME IInv, NEW t \in scenario.threads, CloseAgain(t)
    PROVE  IInv' /\ Unseen
<1>1. /\ t \in Active /\ t \in Threads /\ call[t] \in Call /\ StepOK(t) /\ MadeOK(t)
      /\ call[t].pc = "error"
      /\ TypeOK /\ UNCHANGED <<scenario, theirs, hw, handle, maps>>
  BY CallTypes DEF CloseAgain
<1>2. call[t].made = {} /\ Own(t) = {call[t].fd, call[t].ctl}
  BY <1>1 DEF MadeOK, Own, Active
<1>3. close(call[t].fd) /\ Ends(t, ENOMEM)
  BY DEF CloseAgain
<1>4. call[t].fd # NULL /\ Own(t) = {call[t].fd, NULL}
  BY <1>1, <1>2 DEF StepOK
<1>. QED
  BY <1>1, <1>2, <1>3, <1>4, EndStep
-----------------------------------------------------------------------------
(* Steps that make handles or free them. *)

\* The file a call is about to hand out belongs to no other call, and to the
\* handles it has made only.
LEMMA CallHasFile ==
    ASSUME IInv, NEW t \in Active, call[t].fd # NULL, call[t].pc # "error"
    PROVE  /\ call[t].fd \in Fds /\ file[call[t].fd] \in Device
           /\ \A u \in Active : u # t => call[t].fd \notin Own(u)
           /\ \A g \in Live : handle[g].fd = call[t].fd <=> g \in call[t].made
<1>1. /\ call[t].fd \in Fds /\ file[call[t].fd] \in Device /\ StepOK(t) /\ MadeOK(t)
  BY OwnFiles DEF IInv, StepInv, MadeInv, Call
<1>2. \A u \in Active : u # t => call[t].fd \notin Own(u)
  BY <1>1, OwnFiles, Shapes DEF IInv, ApartInv
<1>3. \A g \in Live : handle[g].fd = call[t].fd <=> g \in call[t].made
  BY <1>1 DEF IInv, ApartInv, MadeOK
<1>. QED
  BY <1>1, <1>2, <1>3

\* The file of a handle that was handed out belongs to no call.
LEMMA GivenHasFile ==
    ASSUME IInv, NEW h \in Given
    PROVE  /\ h \in Live /\ handle[h] \in Memory /\ handle[h].fd \in Fds
           /\ file[handle[h].fd] \in Device
           /\ \A u \in Active : h \notin call[u].made /\ handle[h].fd \notin Own(u)
<1>1. h \in Live /\ \A u \in Active : h \notin call[u].made
  BY DEF Given, Making, Live, Active
<1>2. handle[h] \in Memory /\ handle[h].fd \in Fds /\ file[handle[h].fd] \in Device
  BY <1>1 DEF IInv, TypeOK, Live, Memory, LiveInv, LiveOK
<1>3. \A u \in Active : handle[h].fd \notin Own(u)
  BY <1>1, <1>2, OwnFiles, Shapes, FdsNotNull DEF IInv, ApartInv
<1>. QED
  BY <1>1, <1>2, <1>3

\* Calls whose files are left alone.
LEMMA OtherCalls ==
    ASSUME IInv, NEW u \in Active, call'[u] = call[u], UNCHANGED scenario,
           \A d \in Own(u) : d # NULL => file'[d] = file[d]
    PROVE  StepOK(u)'
<1>1. StepOK(u) /\ Own(u) = {call[u].fd, call[u].ctl}
  BY OwnFiles DEF IInv, StepInv
<1>. QED
  BY <1>1 DEF StepOK

\* A page that is mapped is a PCM handle's.
LEMMA PageOwner ==
    ASSUME TypeOK, MapsInv, NEW m \in maps
    PROVE  m[1] \in Given /\ handle[m[1]].kind = "pcm"
<1>1. PICK g \in Handle, p \in {"status", "control"} : m = <<g, p>>
  BY DEF TypeOK
<1>2. m[1] = g
  BY <1>1
<1>. QED
  BY <1>1, <1>2 DEF MapsInv

\* Every handle with a file of its own, and the last one of a raw MIDI file, is
\* freed with the file; the first one of two is freed alone.
LEMMA FreeStep ==
    ASSUME IInv, NEW h \in Live, TypeOK', NEW closed \in BOOLEAN,
           UNCHANGED <<scenario, theirs>>,
           handle' = [handle EXCEPT ![h] = None],
           closed <=> \A g \in Live : handle[g].fd = handle[h].fd => g = h,
           file' = IF closed THEN [file EXCEPT ![handle[h].fd] = Free] ELSE file,
           handle[h].kind = "rawmidi" => hw' = [hw EXCEPT ![handle[h].fd] = @ - 1],
           handle[h].kind # "rawmidi" => hw' = hw,
           Active' \subseteq Active,
           \A u \in Active' :
             \/ call'[u] = call[u] /\ handle[h].fd \notin Own(u) /\ h \notin call[u].made
             \/ /\ StepOK(u)' /\ call'[u].fd = call[u].fd /\ call'[u].ctl = call[u].ctl
                /\ call[u].made = {h} /\ call'[u].made = {} /\ call'[u].pc = "error",
           \A u \in Active : u \notin Active' => call[u].made = {h} /\ Own(u) = {handle[h].fd, NULL},
           maps' = {m \in maps : m[1] # h}
    PROVE  /\ IInv'
           /\ h \in Given => H!Close(h)
           /\ h \notin Given => Unseen
<1> DEFINE fd == handle[h].fd
<1>1. /\ Live' = Live \ {h} /\ \A g \in Live' : handle'[g] = handle[g]
      /\ h \in Handle /\ handle[h] \in Memory /\ fd \in Fds /\ file[fd] \in Device
      /\ \A g \in Live : handle[g] \in Memory /\ handle[g].fd \in Fds
  <2>1. \A g \in Live : g \in Handle /\ handle[g] \in Memory /\ handle[g].fd \in Fds
    BY DEF Live, IInv, TypeOK, Memory
  <2>2. Live' = Live \ {h} /\ \A g \in Live' : handle'[g] = handle[g]
    BY DEF Live, IInv, TypeOK
  <2>. QED
    BY <2>1, <2>2 DEF IInv, LiveInv, LiveOK
<1>2. \A d \in Fds : d # fd => file'[d] = file[d]
  BY <1>1 DEF IInv, TypeOK
<1>3. \A g \in Live' : file'[handle[g].fd] = file[handle[g].fd]
  <2>. SUFFICES ASSUME NEW g \in Live' PROVE file'[handle[g].fd] = file[handle[g].fd]
    OBVIOUS
  <2>1. handle[g].fd = fd => ~closed
    BY <1>1
  <2>. QED
    BY <1>1, <1>2, <2>1
<1>4. OthersKept' /\ Orderly'
  BY <1>1, <1>2, Shapes DEF IInv, OthersKept, Orderly, TypeOK
<1>5. StepInv'
  BY <1>2, OtherCalls, OwnFiles DEF IInv, StepInv
<1>6. MadeInv'
  <2>. SUFFICES ASSUME NEW u \in Active' PROVE MadeOK(u)'
    BY DEF MadeInv
  <2>1. u \in Active /\ MadeOK(u)
    BY DEF IInv, MadeInv
  <2>. QED
    BY <1>1, <2>1 DEF MadeOK
<1>7. LiveInv'
  BY <1>1, <1>3 DEF IInv, LiveInv, LiveOK
<1>8. ApartInv'
  BY <1>1 DEF IInv, ApartInv
<1>9. UsersInv'
  <2>. SUFFICES ASSUME NEW d \in Fds
                PROVE /\ hw'[d] = 0 <=> \A g \in Live' : handle'[g].fd = d => handle'[g].kind # "rawmidi"
                      /\ \A g \in Live' : handle'[g].fd = d /\ handle'[g].kind = "rawmidi" =>
                           /\ hw'[d] \in {1, 2}
                           /\ hw'[d] = 1 <=> \A k \in Live' : handle'[k].fd = d => k = g
    BY DEF UsersInv
  <2>1. /\ hw[d] = 0 <=> \A g \in Live : handle[g].fd = d => handle[g].kind # "rawmidi"
        /\ \A g \in Live : handle[g].fd = d /\ handle[g].kind = "rawmidi" =>
             /\ hw[d] \in {1, 2}
             /\ hw[d] = 1 <=> \A k \in Live : handle[k].fd = d => k = g
    BY DEF IInv, UsersInv
  <2>2. CASE d # fd \/ handle[h].kind # "rawmidi"
    <3>1. hw'[d] = hw[d]
      BY <1>1, <2>2 DEF IInv, TypeOK
    <3>2. \A g \in Live : handle[g].fd = d /\ handle[g].kind = "rawmidi" => g # h /\ handle[h].fd # d
      BY <1>1, <2>2 DEF IInv, ApartInv
    <3>. QED
      BY <1>1, <2>1, <3>1, <3>2
  <2>3. CASE d = fd /\ handle[h].kind = "rawmidi"
    <3>1. hw'[d] = hw[d] - 1 /\ hw[d] \in {1, 2}
      BY <1>1, <2>1, <2>3 DEF IInv, TypeOK
    <3>2. \A g \in Live : handle[g].fd = d => handle[g].kind = "rawmidi"
      BY <1>1, <2>3 DEF IInv, ApartInv
    <3>3. \A g, k \in Live' : handle[g].fd = d /\ handle[k].fd = d => g = k
      <4>1. \A g \in Live : handle[g].fd = d => handle[g].stream \in {"in", "out"}
        BY <1>1, <3>2 DEF IInv, LiveInv, LiveOK, Memory, Streams
      <4>. QED
        BY <1>1, <4>1, <2>3 DEF IInv, ApartInv
    <3>. QED
      BY <1>1, <2>1, <2>3, <3>1, <3>2, <3>3
  <2>. QED
    BY <2>2, <2>3
<1>10. MapsInv'
  <2>. SUFFICES ASSUME NEW g \in Handle, NEW p \in {"status", "control"}, <<g, p>> \in maps'
                PROVE  /\ g \in Given' /\ handle'[g].kind = "pcm"
                       /\ \A q \in {"status", "control"} : <<g, q>> \in maps'
    BY DEF MapsInv
  <2>1. g # h /\ <<g, p>> \in maps
    OBVIOUS
  <2>2. g \in Given /\ handle[g].kind = "pcm" /\ \A q \in {"status", "control"} : <<g, q>> \in maps
    BY <2>1 DEF IInv, MapsInv
  <2>3. \A q \in {"status", "control"} : <<g, q>> \in maps'
    BY <2>1, <2>2
  <2>. QED
    BY <1>1, <2>1, <2>2, <2>3, GivenIs
<1>11. \A g : g \in Given' <=> g \in Given /\ g # h
  <2>1. \A u \in Active : \A g : g # h =>
          (g \in call[u].made <=> u \in Active' /\ g \in call'[u].made)
    OBVIOUS
  <2>. QED
    BY <1>1, <2>1, GivenIs
<1>12. \A u \in Active' : Own(u)' = Own(u)
  <2>. SUFFICES ASSUME NEW u \in Active' PROVE Own(u)' = Own(u)
    OBVIOUS
  <2>1. call[u] # Idle /\ call'[u] # Idle
    BY DEF Active
  <2>. QED
    BY <2>1 DEF Own
<1>13. ASSUME h \in Given PROVE H!Close(h)
  <2>1. \A u \in Active : h \notin call[u].made /\ fd \notin Own(u)
    BY <1>13, GivenHasFile
  <2>2. Active' = Active
    BY <2>1
  <2>3. closed <=> ~ \E g \in Given \ {h} : handle[g].fd = fd
    <3>1. \A g \in Live : handle[g].fd = fd => g \in Given
      <4>. SUFFICES ASSUME NEW g \in Live, handle[g].fd = fd, NEW u \in Active, g \in call[u].made PROVE FALSE
        BY GivenIs
      <4>1. handle[g].fd = call[u].fd /\ Own(u) = {call[u].fd, call[u].ctl}
        BY OwnFiles DEF IInv, MadeInv, MadeOK
      <4>. QED
        BY <2>1, <4>1
    <3>2. Given \subseteq Live
      BY GivenIs
    <3>. QED
      BY <3>1, <3>2
  <2>4. (closed => Files' = Files \ {fd}) /\ (~closed => Files' = Files)
    <3>1. \A d \in Fds : d # fd => (d \in Files' <=> d \in Files)
      BY <1>2, <1>12, <2>2, FilesIs
    <3>2. closed => fd \notin Files'
      BY <1>1, FilesIs DEF IInv, TypeOK
    <3>3. ~closed => (fd \in Files' <=> fd \in Files)
      BY <1>1, <1>12, <2>2, FilesIs
    <3>4. Files \subseteq Fds /\ Files' \subseteq Fds
      BY FilesIs
    <3>5. CASE closed
      BY <3>1, <3>2, <3>4, <3>5
    <3>6. CASE ~closed
      <4>1. \A d : d \in Files' <=> d \in Files
        BY <1>1, <3>1, <3>3, <3>4, <3>6
      <4>2. Files' = Files
        BY <4>1
      <4>. QED
        BY <3>6, <4>2
    <3>. QED
      BY <3>5, <3>6
  <2>5. Held' = [g \in Given \ {h} |-> Held[g]]
    <3>1. Given' = Given \ {h}
      BY <1>11
    <3>2. \A g \in Given \ {h} : handle'[g].fd = handle[g].fd /\ Held[g] = handle[g].fd
      BY <1>1, GivenIs DEF Held
    <3>. QED
      BY <3>1, <3>2 DEF Held
  <2>6. DOMAIN Held = Given /\ \A g \in Given : Held[g] = handle[g].fd
    BY DEF Held
  <2>7. Files' = IF \E g \in DOMAIN Held \ {h} : Held[g] = Held[h] THEN Files ELSE Files \ {Held[h]}
    <3>1. (\E g \in DOMAIN Held \ {h} : Held[g] = Held[h]) <=> ~closed
      BY <1>13, <2>3, <2>6
    <3>2. Held[h] = fd
      BY <1>13, <2>6
    <3>. QED
      BY <2>4, <3>1, <3>2
  <2>. QED
    BY <1>13, <2>5, <2>6, <2>7 DEF H!Close, Held, Files
<1>14. ASSUME h \notin Given PROVE Unseen
  <2>1. Given' = Given
    BY <1>11, <1>14
  <2>2. Held' = Held
    BY <1>1, <1>14, <2>1, GivenIs DEF Held
  <2>3. PICK u \in Active : h \in call[u].made
    BY <1>14, GivenIs
  <2>4. /\ call[u].fd = fd /\ call[u].made = {h} /\ Own(u) = {call[u].fd, call[u].ctl}
        /\ fd # NULL /\ call[u].pc # "error"
    BY <1>1, <2>3, OwnFiles, FdsNotNull DEF IInv, MadeInv, MadeOK
  <2>5. closed
    BY <2>4, CallHasFile
  <2>6. file'[fd] = Free /\ fd \notin Files' /\ fd \notin Files
    BY <1>1, <2>3, <2>4, <2>5, FilesIs DEF IInv, TypeOK
  <2>7. \A d \in Fds : d # fd => ((\E v \in Active : d \in Own(v)) <=> (\E v \in Active' : d \in Own(v)'))
    BY <1>12, FdsNotNull
  <2>8. \A d \in Fds : d # fd => (d \in Files' <=> d \in Files)
    BY <1>2, <2>7, FilesIs
  <2>9. Files' = Files
    BY <2>6, <2>8, FilesIs
  <2>. QED
    BY <2>2, <2>9 DEF Unseen
<1>. QED
  BY <1>4, <1>5, <1>6, <1>7, <1>8, <1>9, <1>10, <1>13, <1>14 DEF IInv

\* Closing a handle with a file of its own.
LEMMA CloseSingleInv ==
    ASSUME IInv, NEW h \in Handle, NEW kind \in Kinds \ {"rawmidi"}, CloseSingle(h, kind),
           maps' = {m \in maps : m[1] # h} \/ (UNCHANGED maps /\ kind # "pcm")
    PROVE  IInv' /\ H!Close(h)
<1>1. /\ h \in Given /\ handle[h].kind = kind /\ UNCHANGED <<scenario, theirs, hw, call, done>>
      /\ handle' = [handle EXCEPT ![h] = None] /\ file' = [file EXCEPT ![handle[h].fd] = Free]
  BY DEF CloseSingle, close
<1>2. /\ h \in Live /\ handle[h].fd \in Fds /\ handle[h].kind # "rawmidi"
      /\ \A u \in Active : h \notin call[u].made /\ handle[h].fd \notin Own(u)
  BY <1>1, GivenHasFile
<1>3. \A g \in Live : handle[g].fd = handle[h].fd => g = h
  BY <1>2 DEF IInv, ApartInv
<1>4. maps' = {m \in maps : m[1] # h}
  <2>1. \A m \in maps : m[1] = h => handle[h].kind = "pcm"
    BY PageOwner DEF IInv
  <2>. QED
    BY <1>1, <2>1
<1>5. TypeOK'
  BY <1>1, <1>2, <1>4 DEF IInv, TypeOK
<1>6. Active' = Active
  BY <1>1 DEF Active
<1>. QED
  BY <1>1, <1>2, <1>3, <1>4, <1>5, <1>6, FreeStep

\* Closing a raw MIDI handle: the last user closes the file.
LEMMA RawmidiCloseInv ==
    ASSUME IInv, NEW h \in Handle, snd_rawmidi_close(h)
    PROVE  IInv' /\ H!Close(h)
<1>1. /\ h \in Given /\ handle[h].kind = "rawmidi" /\ UNCHANGED <<scenario, theirs, maps, call, done>>
      /\ handle' = [handle EXCEPT ![h] = None]
      /\ hw' = [hw EXCEPT ![handle[h].fd] = @ - 1]
      /\ file' = IF hw[handle[h].fd] = 1 THEN [file EXCEPT ![handle[h].fd] = Free] ELSE file
  BY DEF snd_rawmidi_close, close
<1>2. /\ h \in Live /\ handle[h].fd \in Fds
      /\ \A u \in Active : h \notin call[u].made /\ handle[h].fd \notin Own(u)
  BY <1>1, GivenHasFile
<1>3. /\ hw[handle[h].fd] \in {1, 2}
      /\ hw[handle[h].fd] = 1 <=> \A g \in Live : handle[g].fd = handle[h].fd => g = h
  BY <1>1, <1>2 DEF IInv, UsersInv
<1>4. maps' = {m \in maps : m[1] # h}
  <2>1. \A m \in maps : m[1] = h => handle[h].kind = "pcm"
    BY PageOwner DEF IInv
  <2>. QED
    BY <1>1, <2>1
<1>5. hw' \in [Fds -> Nat]
  BY <1>1, <1>2, <1>3 DEF IInv, TypeOK
<1>6. TypeOK'
  BY <1>1, <1>2, <1>4, <1>5 DEF IInv, TypeOK
<1>7. Active' = Active
  BY <1>1 DEF Active
<1> DEFINE closed == hw[handle[h].fd] = 1
<1>8. closed \in BOOLEAN /\ (closed <=> \A g \in Live : handle[g].fd = handle[h].fd => g = h)
  BY <1>3
<1>9. file' = IF closed THEN [file EXCEPT ![handle[h].fd] = Free] ELSE file
  BY <1>1
<1>. HIDE DEF closed
<1>. QED
  BY <1>1, <1>2, <1>4, <1>6, <1>7, <1>8, <1>9, FreeStep

\* The error path of snd_rawmidi_open with a handle made frees it and closes the
\* file; without one it closes the file and ends.
LEMMA NewHandleFailsInv ==
    ASSUME IInv, NEW t \in scenario.threads, NewHandleFails(t)
    PROVE  IInv' /\ Unseen
<1>1. /\ t \in Active /\ t \in Threads /\ call[t] \in Call /\ StepOK(t) /\ MadeOK(t)
      /\ call[t].pc = "memory" /\ call[t].fd # NULL
      /\ TypeOK /\ UNCHANGED <<scenario, theirs, maps>>
  BY CallTypes DEF NewHandleFails, StepOK
<1>2. /\ call[t].fd \in Fds /\ file[call[t].fd] \in Device
      /\ \A u \in Active : u # t => call[t].fd \notin Own(u)
      /\ \A g \in Live : handle[g].fd = call[t].fd <=> g \in call[t].made
  BY <1>1, CallHasFile
<1>3. CASE call[t].made = {} /\ close(call[t].fd) /\ Ends(t, ENOMEM) /\ UNCHANGED <<hw, handle>>
  <2>1. Own(t) = {call[t].fd, NULL}
    BY <1>1 DEF Own, Active, StepOK
  <2>. QED
    BY <1>1, <1>3, <2>1, EndStep
<1>4. CASE /\ call[t].made # {} /\ "second" \in scenario.failing
           /\ close(call[t].fd)
           /\ handle' = [h \in Handle |-> IF h \in call[t].made THEN None ELSE handle[h]]
           /\ hw' = [hw EXCEPT ![call[t].fd] = 0]
           /\ Go(t, [call[t] EXCEPT !.made = {}, !.pc = "error"])
           /\ UNCHANGED done
  <2>1. PICK h \in Live : call[t].made = {h} /\ handle[h].fd = call[t].fd /\ handle[h].kind = "rawmidi"
    BY <1>1, <1>4 DEF MadeOK, StepOK
  <2>2. h \in Handle /\ handle' = [handle EXCEPT ![h] = None]
    BY <1>1, <1>4, <2>1 DEF Live, TypeOK
  <2>3. /\ [call[t] EXCEPT !.made = {}, !.pc = "error"] \in Call
        /\ call'[t].made = {} /\ call'[t].pc = "error" /\ call'[t].fd = call[t].fd
        /\ call'[t].ctl = call[t].ctl /\ call'[t].kind = call[t].kind /\ call'[t].want = call[t].want
    BY <1>1, <1>4 DEF Call, Go, TypeOK
  <2>4. /\ call' \in [Threads -> Call \cup {Idle}]
        /\ \A u \in Threads : u # t => call'[u] = call[u]
    BY <1>1, <1>4, <2>3, GoTypes
  <2>5. file' = [file EXCEPT ![call[t].fd] = Free] /\ file'[call[t].fd] = Free
    BY <1>1, <1>2, <1>4 DEF close, TypeOK
  <2>6. TypeOK'
    BY <1>1, <1>2, <1>4, <2>2, <2>4, <2>5 DEF TypeOK
  <2>7. StepOK(t)'
    BY <1>1, <1>4, <2>3, <2>5 DEF StepOK
  <2>8. hw' = [hw EXCEPT ![handle[h].fd] = @ - 1]
    <3>1. hw[handle[h].fd] = 1
      BY <1>2, <2>1 DEF IInv, UsersInv
    <3>. QED
      BY <1>1, <1>2, <1>4, <2>1, <3>1 DEF TypeOK
  <2>9. maps' = {m \in maps : m[1] # h}
    <3>1. h \notin Given
      BY <1>1, <2>1, GivenIs
    <3>2. \A m \in maps : m[1] = h => h \in Given
      BY PageOwner DEF IInv
    <3>. QED
      BY <1>1, <3>1, <3>2
  <2>10. Active' = Active /\ h \notin Given
    <3>1. t \in Active'
      BY <1>1, <1>4, <2>3, GoTypes
    <3>. QED
      BY <1>1, <2>1, <2>4, <3>1, GivenIs DEF Active
  <2>11. \A u \in Active' : u # t => call'[u] = call[u] /\ handle[h].fd \notin Own(u) /\ h \notin call[u].made
    <3>1. \A u \in Active : u # t => h \notin call[u].made
      BY <1>1, <1>2, <2>1, OwnFiles DEF IInv, MadeInv, MadeOK
    <3>. QED
      BY <1>2, <2>1, <2>4, <2>10, <3>1 DEF Active
  <2>12. \A g \in Live : handle[g].fd = handle[h].fd => g = h
    BY <1>2, <2>1
  <2>. QED
    BY <1>1, <2>1, <2>2, <2>3, <2>5, <2>6, <2>7, <2>8, <2>9, <2>10, <2>11, <2>12, FreeStep
<1>. QED
  BY <1>3, <1>4 DEF NewHandleFails

\* The status and control pages: both are mapped, or a copy is kept, or the
\* handle is freed and its file closed.
LEMMA MapStatusInv ==
    ASSUME IInv, NEW t \in scenario.threads, MapStatus(t)
    PROVE  IInv' /\ (Unseen \/ \E S \in SUBSET Handle, f \in Fds : H!Open(S, f))
<1>1. /\ t \in Active /\ t \in Threads /\ call[t] \in Call /\ StepOK(t) /\ MadeOK(t)
      /\ call[t].pc = "mmap" /\ call[t].fd # NULL
      /\ TypeOK /\ UNCHANGED <<scenario, theirs, hw>>
  BY CallTypes DEF MapStatus, StepOK
<1>2. /\ call[t].fd \in Fds /\ file[call[t].fd] \in Device
      /\ \A u \in Active : u # t => call[t].fd \notin Own(u)
      /\ \A g \in Live : handle[g].fd = call[t].fd <=> g \in call[t].made
  BY <1>1, CallHasFile
<1>3. PICK h \in call[t].made :
        \/ maps' = maps \cup {<<h, "status">>, <<h, "control">>} /\ Ends(t, 0)
                /\ UNCHANGED <<file, handle>>
        \/ "mmap" \in scenario.failing /\ Ends(t, 0) /\ UNCHANGED <<file, handle, maps>>
        \/ /\ "mmap" \in scenario.failing
           /\ close(call[t].fd)
           /\ handle' = [handle EXCEPT ![h] = None]
           /\ Ends(t, ENOMEM)
           /\ UNCHANGED maps
  BY DEF MapStatus
<1>4. /\ call[t].made = {h} /\ h \in Live /\ h \in Handle /\ handle[h].fd = call[t].fd
      /\ handle[h].kind = "pcm" /\ h \notin Given
  BY <1>1, <1>3, GivenIs DEF MadeOK, Live
<1>5. /\ call' \in [Threads -> Call \cup {Idle}] /\ done' \in [Threads -> {"none", "refused", "opened"}]
      /\ Active' = Active \ {t} /\ \A u \in Active' : call'[u] = call[u]
  <2>1. \E ret : Ends(t, ret)
    BY <1>3
  <2>. QED
    BY <1>1, <2>1, EndsTypes DEF Active
<1>6. \A u \in Active' : handle[h].fd \notin Own(u) /\ h \notin call[u].made
  <2>1. \A u \in Active : u # t => h \notin call[u].made
    BY <1>1, <1>2, <1>4, OwnFiles DEF IInv, MadeInv, MadeOK
  <2>. QED
    BY <1>2, <1>4, <1>5, <2>1
<1>7. CASE UNCHANGED <<file, handle>> /\ maps' \in {maps, maps \cup {<<h, "status">>, <<h, "control">>}}
  <2>1. TypeOK'
    BY <1>1, <1>4, <1>5, <1>7 DEF TypeOK
  <2>2. Live' = Live
    BY <1>7 DEF Live
  <2>3. StepInv'
    BY <1>1, <1>5, <1>7, OtherCalls DEF StepInv
  <2>4. MadeInv' /\ LiveInv' /\ ApartInv' /\ UsersInv' /\ OthersKept' /\ Orderly'
    BY <1>1, <1>5, <1>7, <2>2
       DEF IInv, MadeInv, MadeOK, LiveInv, LiveOK, ApartInv, UsersInv, OthersKept, Orderly
  <2>5. \A g : g \in Given' <=> g \in Given \/ g = h
    BY <1>1, <1>4, <1>5, <1>6, <2>2, GivenIs
  <2>7. \E f \in Fds : H!Open({h}, f)
    <3>. PICK fd \in Fds : fd = call[t].fd
      BY <1>2
    <3>1. Held' = [g \in Given \cup {h} |-> IF g \in {h} THEN call[t].fd ELSE Held[g]]
      <4>1. Given' = Given \cup {h}
        BY <2>5
      <4>2. \A g \in Given' : handle'[g].fd = IF g \in {h} THEN call[t].fd ELSE Held[g]
        BY <1>4, <1>7, <2>5 DEF Held
      <4>. QED
        BY <4>1, <4>2 DEF Held
    <3>2. \A d \in Fds : d \in Files' <=> d \in Files \/ d = call[t].fd
      <4>1. call[t].fd \in Files'
        BY <1>2, <1>5, <1>7, FilesIs, Shapes DEF Own, Active
      <4>2. \A d \in Fds : d # call[t].fd =>
              ((\E v \in Active : d \in Own(v)) <=> (\E v \in Active' : d \in Own(v)'))
        <5>1. \A u \in Active' : Own(u)' = Own(u)
          BY <1>5 DEF Own, Active
        <5>2. Own(t) = {call[t].fd, NULL}
          BY <1>1 DEF Own, Active, StepOK
        <5>. QED
          BY <1>5, <5>1, <5>2, FdsNotNull
      <4>. QED
        BY <1>7, <4>1, <4>2, FilesIs
    <3>3. Files' = Files \cup {call[t].fd}
      BY <1>2, <3>2, FilesIs
    <3>4. call[t].fd \notin Files
      BY <1>1, <1>2, FilesIs, OwnFiles DEF IInv
    <3>5. DOMAIN Held = Given /\ {h} \cap Given = {}
      BY <1>4 DEF Held
    <3>6. H!Open({h}, fd)
      BY <3>1, <3>3, <3>4, <3>5 DEF H!Open, Held, Files
    <3>. QED
      BY <3>6
  <2>6. MapsInv'
    <3>. SUFFICES ASSUME NEW g \in Handle, NEW p \in {"status", "control"}, <<g, p>> \in maps'
                  PROVE  /\ g \in Given' /\ handle'[g].kind = "pcm"
                         /\ \A q \in {"status", "control"} : <<g, q>> \in maps'
      BY DEF MapsInv
    <3>1. CASE <<g, p>> \in maps
      BY <3>1, <1>7, <2>5 DEF IInv, MapsInv
    <3>2. CASE <<g, p>> \notin maps
      <4>1. g = h /\ maps' = maps \cup {<<h, "status">>, <<h, "control">>}
        BY <3>2, <1>7
      <4>. QED
        BY <4>1, <1>4, <1>7, <2>5
    <3>. QED
      BY <3>1, <3>2
  <2>. QED
    <3>1. IInv'
      BY <2>1, <2>3, <2>4, <2>6 DEF IInv
    <3>2. {h} \in SUBSET Handle
      BY <1>4
    <3>. QED
      BY <2>7, <3>1, <3>2
<1>8. CASE close(call[t].fd) /\ handle' = [handle EXCEPT ![h] = None] /\ UNCHANGED maps
  <2>1. file' = [file EXCEPT ![handle[h].fd] = Free]
    BY <1>4, <1>8 DEF close
  <2>2. TypeOK'
    BY <1>1, <1>2, <1>4, <1>5, <1>8, <2>1 DEF TypeOK
  <2>3. maps' = {m \in maps : m[1] # h}
    <3>1. \A m \in maps : m[1] = h => h \in Given
      BY PageOwner DEF IInv
    <3>. QED
      BY <1>4, <1>8, <3>1
  <2>4. \A g \in Live : handle[g].fd = handle[h].fd => g = h
    BY <1>2, <1>4
  <2>5. Own(t) = {handle[h].fd, NULL}
    BY <1>1, <1>4 DEF Own, Active, StepOK
  <2>. QED
    BY <1>1, <1>4, <1>5, <1>6, <1>8, <2>1, <2>2, <2>3, <2>4, <2>5, FreeStep
<1>. QED
  BY <1>3, <1>7, <1>8

\* A request changes the handle and its file, and neither the kind nor the stream.
LEMMA RequestStep ==
    ASSUME IInv, NEW h \in Given, TypeOK',
           UNCHANGED <<scenario, theirs, hw, maps, call>>,
           \A g \in Handle : g # h => handle'[g] = handle[g],
           h \in Live', handle'[h].fd = handle[h].fd, handle'[h].kind = handle[h].kind,
           handle'[h].stream = handle[h].stream,
           \A d \in Fds : d # handle[h].fd => file'[d] = file[d],
           LiveOK(h)',
           \A g \in Live : g # h /\ handle[g].fd = handle[h].fd /\ LiveOK(g) => LiveOK(g)'
    PROVE  IInv' /\ Unseen
<1>1. /\ h \in Live /\ handle[h] \in Memory /\ handle[h].fd \in Fds
      /\ file[handle[h].fd] \in Device
      /\ \A u \in Active : h \notin call[u].made /\ handle[h].fd \notin Own(u)
  BY GivenHasFile
<1>2. Active' = Active /\ \A u \in Active : call'[u] = call[u]
  BY DEF Active
<1>3. /\ Live' = Live
      /\ \A g \in Live : /\ handle'[g].fd = handle[g].fd /\ handle'[g].kind = handle[g].kind
                         /\ handle'[g].stream = handle[g].stream
  BY <1>1 DEF Live
<1>4. Given' = Given
  BY <1>2, <1>3, GivenIs
<1>5. \A g \in Live : handle[g].fd \in Fds
  BY DEF IInv, TypeOK, Live, Memory
<1>6. OthersKept' /\ Orderly'
  BY <1>1, Shapes DEF IInv, OthersKept, Orderly, TypeOK
<1>7. StepInv'
  BY <1>1, <1>2, OtherCalls, OwnFiles DEF IInv, StepInv
<1>8. MadeInv'
  BY <1>2, <1>3 DEF IInv, MadeInv, MadeOK
<1>9. LiveInv'
  <2>. SUFFICES ASSUME NEW g \in Live, g # h, handle[g].fd # handle[h].fd PROVE LiveOK(g)'
    BY <1>3 DEF IInv, LiveInv
  <2>1. handle'[g] = handle[g] /\ file'[handle[g].fd] = file[handle[g].fd] /\ LiveOK(g)
    BY <1>5 DEF IInv, LiveInv, Live
  <2>. QED
    BY <2>1 DEF LiveOK
<1>10. ApartInv'
  BY <1>2, <1>3 DEF IInv, ApartInv
<1>11. UsersInv' /\ MapsInv'
  BY <1>1, <1>3, <1>4 DEF IInv, UsersInv, MapsInv, Given
<1>12. Unseen
  <2>1. \A g \in Given : handle'[g].fd = handle[g].fd
    BY <1>3, GivenIs
  <2>2. \A d \in Fds : file'[d] \notin {Free, Foreign} <=> file[d] \notin {Free, Foreign}
    BY <1>1, <1>3, Shapes DEF LiveOK
  <2>3. \A u : Own(u)' = Own(u)
    BY DEF Own
  <2>. QED
    BY <1>2, <1>4, <2>1, <2>2, <2>3, FilesIs DEF Unseen, Held
<1>. QED
  BY <1>6, <1>7, <1>8, <1>9, <1>10, <1>11, <1>12 DEF IInv

\* What new_rmidi asks for is among the params.
LEMMA DefaultParams == Default \in Params
BY DEF Params

\* What the params of one stream become, and that those of another stay.
LEMMA ParamsOf ==
    ASSUME NEW Q \in SUBSET (Streams \X Params), NEW s \in Streams, NEW p \in Params
    PROVE  LET R == {q \in Q : q[1] # s} \cup {<<s, p>>}
           IN  /\ R \in SUBSET (Streams \X Params) /\ <<s, p>> \in R
               /\ \A r \in Streams, x \in Params : r # s /\ <<r, x>> \in Q => <<r, x>> \in R
<1> DEFINE R == {q \in Q : q[1] # s} \cup {<<s, p>>}
<1>1. \A q \in R : q \in Streams \X Params
  OBVIOUS
<1>2. \A r \in Streams, x \in Params : r # s /\ <<r, x>> \in Q => <<r, x>> \in R
  OBVIOUS
<1>. QED
  BY <1>1, <1>2

\* The params of one stream are accepted: those of the other stay.
LEMMA ParamsInv ==
    ASSUME IInv, NEW h \in Handle, NEW p \in scenario.params, snd_rawmidi_params(h, p)
    PROVE  IInv' /\ Unseen
<1> DEFINE fd == handle[h].fd
           Q == {q \in file[fd].params : q[1] # handle[h].stream} \cup {<<handle[h].stream, p>>}
<1>1. /\ h \in Given /\ handle[h].kind = "rawmidi" /\ UNCHANGED <<scenario, theirs, hw, maps, call, done>>
      /\ file' = [file EXCEPT ![fd] = [file[fd] EXCEPT !.params = Q]]
      /\ handle' = [handle EXCEPT ![h] = [handle[h] EXCEPT !.params = p, !.known = TRUE]]
  BY DEF snd_rawmidi_params
<1>2. /\ h \in Live /\ handle[h] \in Memory /\ fd \in Fds /\ file[fd] \in Device /\ LiveOK(h)
      /\ handle[h].stream \in Streams /\ file[fd].params \in SUBSET (Streams \X Params)
      /\ p \in Params /\ TypeOK
  BY <1>1, GivenHasFile DEF Device, Memory, IInv, TypeOK, Params, LiveInv
<1>3. /\ Q \in SUBSET (Streams \X Params) /\ <<handle[h].stream, p>> \in Q
      /\ \A r \in Streams, x \in Params :
           r # handle[h].stream /\ <<r, x>> \in file[fd].params => <<r, x>> \in Q
  BY <1>2, ParamsOf
<1>. HIDE DEF Q
<1>4. /\ file'[fd] = [file[fd] EXCEPT !.params = Q] /\ \A d \in Fds : d # fd => file'[d] = file[d]
  BY <1>1, <1>2 DEF TypeOK
<1>5. /\ file'[fd] \in Device /\ file'[fd].kind = file[fd].kind /\ file'[fd].params = Q
      /\ file'[fd].active = file[fd].active
  BY <1>2, <1>3, <1>4 DEF Device
<1>6. /\ handle'[h] \in Memory /\ handle'[h].fd = fd /\ handle'[h].kind = handle[h].kind
      /\ handle'[h].stream = handle[h].stream /\ handle'[h].active = handle[h].active
      /\ handle'[h].params = p
      /\ \A g \in Handle : g # h => handle'[g] = handle[g]
  BY <1>1, <1>2 DEF TypeOK, Memory
<1>7. TypeOK'
  BY <1>1, <1>2, <1>5, <1>6 DEF TypeOK
<1>8. h \in Live' /\ LiveOK(h)'
  BY <1>1, <1>2, <1>3, <1>5, <1>6, Shapes DEF Live, LiveOK
<1>9. ASSUME NEW g \in Live, g # h, handle[g].fd = handle[h].fd, LiveOK(g) PROVE LiveOK(g)'
  <2>1. handle[g].stream \in Streams /\ handle[g].params \in Params /\ handle[g].stream # handle[h].stream
    BY <1>2, <1>9 DEF TypeOK, Live, Memory, IInv, ApartInv
  <2>2. handle'[g] = handle[g]
    BY <1>6, <1>9 DEF Live
  <2>. QED
    BY <1>3, <1>5, <1>9, <2>1, <2>2 DEF LiveOK
<1>. QED
  BY <1>1, <1>4, <1>6, <1>7, <1>8, <1>9, RequestStep

\* A request on one stream leaves the other alone.
LEMMA RequestInv ==
    ASSUME IInv, NEW h \in Given, NEW on \in BOOLEAN, Request(h, on, handle[h].stream)
    PROVE  IInv' /\ Unseen
<1> DEFINE fd == handle[h].fd
           A == IF on THEN file[fd].active \cup {handle[h].stream} ELSE file[fd].active \ {handle[h].stream}
<1>1. /\ UNCHANGED <<scenario, theirs, hw, maps, call, done>>
      /\ file' = [file EXCEPT ![fd] = [file[fd] EXCEPT !.active = A]]
      /\ handle' = [handle EXCEPT ![h] = [handle[h] EXCEPT !.active = on]]
  BY DEF Request
<1>2. /\ h \in Handle /\ h \in Live /\ handle[h] \in Memory /\ fd \in Fds /\ file[fd] \in Device /\ LiveOK(h)
      /\ handle[h].stream \in Streams /\ A \in SUBSET Streams /\ TypeOK
  BY <1>1, GivenHasFile DEF Device, Memory, IInv, LiveInv, Live
<1>3. /\ handle[h].stream \in A <=> on
      /\ \A r : r # handle[h].stream => (r \in A <=> r \in file[fd].active)
  OBVIOUS
<1>. HIDE DEF A
<1>4. /\ file'[fd] = [file[fd] EXCEPT !.active = A] /\ \A d \in Fds : d # fd => file'[d] = file[d]
  BY <1>1, <1>2 DEF TypeOK
<1>5. /\ file'[fd] \in Device /\ file'[fd].kind = file[fd].kind /\ file'[fd].active = A
      /\ file'[fd].params = file[fd].params
  BY <1>2, <1>3, <1>4 DEF Device
<1>6. /\ handle'[h] \in Memory /\ handle'[h].fd = fd /\ handle'[h].kind = handle[h].kind
      /\ handle'[h].stream = handle[h].stream /\ handle'[h].active = on
      /\ handle'[h].params = handle[h].params /\ handle'[h].known = handle[h].known
      /\ \A g \in Handle : g # h => handle'[g] = handle[g]
  BY <1>1, <1>2 DEF TypeOK, Memory
<1>7. TypeOK'
  BY <1>1, <1>2, <1>5, <1>6 DEF TypeOK
<1>8. h \in Live' /\ LiveOK(h)'
  BY <1>1, <1>2, <1>3, <1>5, <1>6, Shapes DEF Live, LiveOK
<1>9. ASSUME NEW g \in Live, g # h, handle[g].fd = handle[h].fd, LiveOK(g) PROVE LiveOK(g)'
  <2>1. handle[g].stream # handle[h].stream
    BY <1>2, <1>9 DEF IInv, ApartInv
  <2>2. handle'[g] = handle[g]
    BY <1>6, <1>9 DEF Live
  <2>. QED
    BY <1>3, <1>5, <1>9, <2>1, <2>2 DEF LiveOK
<1>. QED
  BY <1>1, <1>4, <1>6, <1>7, <1>8, <1>9, RequestStep

\* The blocking mode of a file is no stream's.
LEMMA NonblockInv ==
    ASSUME IInv, NEW h \in Handle, NEW mode \in BOOLEAN, snd_nonblock(h, mode)
    PROVE  IInv' /\ Unseen
<1> DEFINE fd == handle[h].fd
<1>1. /\ h \in Given /\ UNCHANGED <<scenario, theirs, hw, maps, call, done, handle>>
      /\ file' = [file EXCEPT ![fd] = [file[fd] EXCEPT !.nonblock = mode]]
  BY DEF snd_nonblock
<1>2. /\ h \in Live /\ fd \in Fds /\ file[fd] \in Device /\ LiveOK(h) /\ TypeOK
  BY <1>1, GivenHasFile DEF IInv, LiveInv
<1>3. /\ file'[fd] = [file[fd] EXCEPT !.nonblock = mode] /\ \A d \in Fds : d # fd => file'[d] = file[d]
  BY <1>1, <1>2 DEF TypeOK
<1>4. /\ file'[fd] \in Device /\ file'[fd].kind = file[fd].kind /\ file'[fd].active = file[fd].active
      /\ file'[fd].params = file[fd].params
  BY <1>2, <1>3 DEF Device
<1>5. TypeOK'
  BY <1>1, <1>2, <1>4 DEF TypeOK
<1>6. h \in Live' /\ \A g \in Live : handle[g].fd = fd /\ LiveOK(g) => LiveOK(g)'
  BY <1>1, <1>2, <1>4 DEF Live, LiveOK
<1>. QED
  BY <1>1, <1>2, <1>3, <1>5, <1>6, RequestStep

\* The rest of the program opens and closes files of its own.
LEMMA OthersInv ==
    ASSUME IInv, OtherOpens \/ OtherCloses
    PROVE  IInv' /\ Unseen
<1>1. PICK fd \in Fds :
        /\ UNCHANGED <<scenario, hw, handle, maps, call, done>> /\ scenario.others
        /\ \/ file[fd] = Free /\ file' = [file EXCEPT ![fd] = Foreign] /\ theirs' = theirs \cup {fd}
           \/ file[fd] = Foreign /\ file' = [file EXCEPT ![fd] = Free] /\ theirs' = theirs \ {fd}
  BY DEF OtherOpens, OtherCloses, Opened, close, FreeFds, IInv, OthersKept, TypeOK
<1>2. Active' = Active /\ Live' = Live /\ Given' = Given
  BY <1>1 DEF Active, Live, Given, Making
<1>3. /\ \A d \in Fds : d # fd => file'[d] = file[d] 
      /\ file'[fd] \in {Free, Foreign} /\ file[fd] \notin Device /\ file[fd] # Scratch
  BY <1>1, Shapes DEF IInv, TypeOK
<1>4. TypeOK' /\ Orderly'
  BY <1>1 DEF IInv, TypeOK, Orderly
<1>5. OthersKept'
  BY <1>1, <1>3 DEF IInv, OthersKept, TypeOK
<1>6. \A u \in Active : \A d \in Own(u) : d # NULL => file'[d] = file[d]
  <2>1. \A u \in Active : call[u].pc # "error"
    BY <1>1 DEF IInv, StepInv, StepOK, Orderly
  <2>. QED
    BY <1>3, <2>1, OwnFiles DEF IInv
<1>7. \A g \in Live : file'[handle[g].fd] = file[handle[g].fd]
  <2>1. \A g \in Live : handle[g].fd \in Fds /\ file[handle[g].fd] \in Device
    BY DEF IInv, TypeOK, LiveInv, LiveOK, Live, Memory
  <2>. QED
    BY <1>3, <2>1
<1>8. StepInv'
  BY <1>1, <1>2, <1>6, OtherCalls DEF StepInv
<1>9. MadeInv' /\ LiveInv' /\ ApartInv' /\ UsersInv' /\ MapsInv'
  BY <1>1, <1>2, <1>7 DEF IInv, MadeInv, MadeOK, LiveInv, LiveOK, ApartInv, UsersInv, MapsInv
<1>10. Unseen
  <2>1. \A d \in Fds : file'[d] \notin {Free, Foreign} <=> file[d] \notin {Free, Foreign}
    BY <1>1, <1>3
  <2>2. \A u : Own(u)' = Own(u)
    BY <1>1 DEF Own
  <2>. QED
    BY <1>1, <1>2, <2>1, <2>2, FilesIs DEF Unseen, Held
<1>. QED
  BY <1>4, <1>5, <1>8, <1>9, <1>10 DEF IInv

\* Which stream the next handle is for, and whether it is the last one to make.
LEMMA NextIs ==
    ASSUME IInv, NEW t \in Active, call[t].pc = "memory", NEW h \in Handle, handle[h] = None
    PROVE  /\ NextStream(call[t]) \in Streams
           /\ call[t].kind = "rawmidi" <=> NextStream(call[t]) # "one"
           /\ call[t].made = {} /\ call[t].want = {"in", "out"} => NextStream(call[t]) = "in"
           /\ call[t].made # {} => NextStream(call[t]) = "out"
           /\ Cardinality(call[t].made \cup {h}) = Cardinality(call[t].want) <=>
                call[t].made # {} \/ call[t].want # {"in", "out"}
<1> DEFINE c == call[t]
<1>1. c \in Call /\ StepOK(t) /\ MadeOK(t) /\ c.want \in Wants /\ c.made \subseteq Handle
  BY OwnFiles DEF IInv, StepInv, MadeInv, Call
<1>2. /\ Cardinality({"one"}) = 1 /\ Cardinality({"in"}) = 1 /\ Cardinality({"out"}) = 1
      /\ Cardinality({h}) = 1
  BY FS_Singleton
<1>3. Cardinality({"in", "out"}) = 2
  <2>1. Cardinality({"in"} \cup {"out"}) = Cardinality({"in"}) + 1
    BY FS_AddElement, FS_Singleton
  <2>2. {"in"} \cup {"out"} = {"in", "out"}
    OBVIOUS
  <2>. QED
    BY <1>2, <2>1, <2>2
<1>4. CASE c.made = {}
  <2>1. {handle[g].stream : g \in c.made} = {}
    BY <1>4
  <2>2. NextStream(c) = IF "in" \in c.want THEN "in" ELSE CHOOSE x \in c.want : x # "in"
    BY <2>1 DEF NextStream
  <2>3. c.made \cup {h} = {h}
    BY <1>4
  <2>4. /\ c.want = {"one"} => NextStream(c) = "one"
        /\ c.want = {"in"} => NextStream(c) = "in"
        /\ c.want = {"out"} => NextStream(c) = "out"
        /\ c.want = {"in", "out"} => NextStream(c) = "in"
    BY <2>2
  <2>5. Cardinality(c.made \cup {h}) = Cardinality(c.want) <=> c.want # {"in", "out"}
    <3>1. Cardinality(c.want) = IF c.want = {"in", "out"} THEN 2 ELSE 1
      BY <1>1, <1>2, <1>3 DEF Wants
    <3>. QED
      BY <1>2, <2>3, <3>1
  <2>. QED
    BY <1>1, <1>4, <2>4, <2>5 DEF StepOK, Wants, Streams
<1>5. CASE c.made # {}
  <2>1. PICK g \in c.made : c.made = {g}
    BY <1>1, <1>5 DEF MadeOK
  <2>2. c.want = {"in", "out"} /\ c.kind = "rawmidi" /\ handle[g].stream = "in" /\ g # h
    BY <1>1, <1>5, <2>1 DEF MadeOK, StepOK, Live
  <2>3. {handle[k].stream : k \in c.made} = {"in"}
    BY <2>1, <2>2
  <2>4. NextStream(c) = "out"
    BY <2>2, <2>3 DEF NextStream
  <2>5. Cardinality({g} \cup {h}) = 2
    <3>1. IsFiniteSet({g}) /\ Cardinality({g}) = 1
      BY FS_Singleton
    <3>2. Cardinality({g} \cup {h}) = Cardinality({g}) + 1
      BY <2>2, <3>1, FS_AddElement
    <3>. QED
      BY <3>1, <3>2
  <2>6. c.made \cup {h} = {g} \cup {h}
    BY <2>1
  <2>. QED
    BY <1>3, <1>5, <2>2, <2>4, <2>5, <2>6 DEF Streams
<1>. QED
  BY <1>4, <1>5

\* A handle is made: the next of the call's, or the last, and then it is handed out.
LEMMA NewHandleInv ==
    ASSUME IInv, NEW t \in scenario.threads, NewHandle(t)
    PROVE  IInv' /\ (Unseen \/ \E S \in SUBSET Handle, f \in Fds : H!Open(S, f))
<1> DEFINE c == call[t]
           s == NextStream(c)
           fd == c.fd
           rawmidi == c.kind = "rawmidi"
           complete == c.made # {} \/ c.want # {"in", "out"}
           ended == complete /\ c.kind # "pcm"
<1>1. /\ t \in Active /\ t \in Threads /\ c \in Call /\ StepOK(t) /\ MadeOK(t)
      /\ c.pc = "memory" /\ fd # NULL /\ TypeOK /\ UNCHANGED <<scenario, theirs, maps>>
  BY CallTypes DEF NewHandle, StepOK
<1>2. /\ fd \in Fds /\ file[fd] \in Device /\ file[fd].kind = c.kind /\ file[fd].active = {}
      /\ \A u \in Active : u # t => fd \notin Own(u)
      /\ \A g \in Live : handle[g].fd = fd <=> g \in c.made
  BY <1>1, CallHasFile DEF StepOK
<1>3. PICK h \in Handle, known \in BOOLEAN :
        /\ handle[h] = None
        /\ handle' = [handle EXCEPT ![h] =
              [kind |-> c.kind, stream |-> s, fd |-> c.fd, params |-> Default, known |-> known,
               active |-> FALSE]]
        /\ file' = IF rawmidi /\ known
                   THEN [file EXCEPT ![fd].params = {p \in @ : p[1] # s} \cup {<<s, Default>>}]
                   ELSE file
        /\ hw' = IF rawmidi THEN [hw EXCEPT ![fd] = @ + 1] ELSE hw
        /\ IF Cardinality(c.made \cup {h}) = Cardinality(c.want) /\ c.kind # "pcm"
           THEN Ends(t, 0)
           ELSE /\ Go(t, [c EXCEPT !.made = c.made \cup {h},
                                   !.pc = IF Cardinality(c.made \cup {h}) = Cardinality(c.want)
                                          THEN "mmap" ELSE "memory"])
                /\ UNCHANGED done
  BY DEF NewHandle
<1>4. /\ s \in Streams
      /\ rawmidi <=> s # "one"
      /\ c.made = {} /\ c.want = {"in", "out"} => s = "in"
      /\ c.made # {} => s = "out"
      /\ complete <=> Cardinality(c.made \cup {h}) = Cardinality(c.want)
  BY <1>1, <1>3, NextIs
<1>5. /\ ended => Ends(t, 0)
      /\ ~ended => /\ UNCHANGED done
                   /\ Go(t, [c EXCEPT !.made = c.made \cup {h},
                                      !.pc = IF complete THEN "mmap" ELSE "memory"])
  BY <1>3, <1>4
<1>. HIDE DEF s, complete
<1>6. /\ handle'[h] \in Memory /\ handle'[h].kind = c.kind /\ handle'[h].stream = s
      /\ handle'[h].fd = fd /\ handle'[h].params = Default /\ handle'[h].active = FALSE
      /\ handle'[h].known = known /\ handle'[h] # None
      /\ \A g \in Handle : g # h => handle'[g] = handle[g]
      /\ handle' \in [Handle -> Memory \cup {None}]
  <2>1. [kind |-> c.kind, stream |-> s, fd |-> c.fd, params |-> Default, known |-> known,
         active |-> FALSE] \in Memory
    <3>1. c.kind \in Kinds
      BY <1>1 DEF Call
    <3>. QED
      BY <1>2, <1>4, <3>1, DefaultParams DEF Memory
  <2>. QED
    BY <1>1, <1>3, <2>1, Shapes DEF TypeOK
<1>7. /\ Live' = Live \cup {h} /\ h \notin Live /\ \A g \in Live : handle'[g] = handle[g]
      /\ \A g \in Live : handle[g] \in Memory /\ handle[g].fd \in Fds
  BY <1>1, <1>3, <1>6 DEF Live, TypeOK, Memory
<1>8. /\ file'[fd] \in Device /\ file'[fd].kind = c.kind /\ file'[fd].active = {}
      /\ rawmidi /\ known => <<s, Default>> \in file'[fd].params
      /\ \A r \in Streams, x \in Params : r # s /\ <<r, x>> \in file[fd].params => <<r, x>> \in file'[fd].params
      /\ \A d \in Fds : d # fd => file'[d] = file[d]
      /\ file' \in [Fds -> Device \cup {Free, Foreign, Scratch}]
  <2>1. CASE rawmidi /\ known
    <3> DEFINE Q == {p \in file[fd].params : p[1] # s} \cup {<<s, Default>>}
    <3>1. /\ Q \in SUBSET (Streams \X Params) /\ <<s, Default>> \in Q
          /\ \A r \in Streams, x \in Params : r # s /\ <<r, x>> \in file[fd].params => <<r, x>> \in Q
      <4>1. file[fd].params \in SUBSET (Streams \X Params)
        BY <1>2 DEF Device
      <4>. QED
        BY <1>4, <4>1, ParamsOf, DefaultParams
    <3>2. file' = [file EXCEPT ![fd] = [file[fd] EXCEPT !.params = Q]]
      BY <1>3, <2>1
    <3>. HIDE DEF Q
    <3>3. file'[fd] = [file[fd] EXCEPT !.params = Q] /\ \A d \in Fds : d # fd => file'[d] = file[d]
      BY <1>1, <1>2, <3>2 DEF TypeOK
    <3>4. /\ file'[fd] \in Device /\ file'[fd].kind = file[fd].kind /\ file'[fd].active = file[fd].active
          /\ file'[fd].params = Q
      BY <1>2, <3>1, <3>3 DEF Device
    <3>5. file' \in [Fds -> Device \cup {Free, Foreign, Scratch}]
      BY <1>1, <1>2, <3>2, <3>3, <3>4 DEF TypeOK
    <3>. QED
      BY <1>2, <3>1, <3>3, <3>4, <3>5
  <2>2. CASE ~(rawmidi /\ known)
    BY <1>1, <1>2, <1>3, <2>2 DEF TypeOK
  <2>. QED
    BY <2>1, <2>2
<1>9. hw' \in [Fds -> Nat] /\ hw'[fd] = (IF rawmidi THEN hw[fd] + 1 ELSE hw[fd])
      /\ \A d \in Fds : d # fd => hw'[d] = hw[d]
  BY <1>1, <1>2, <1>3 DEF TypeOK
<1>10. ended => /\ call' \in [Threads -> Call \cup {Idle}] /\ done' \in [Threads -> {"none", "refused", "opened"}]
                /\ Active' = Active \ {t} /\ \A u \in Active : u # t => call'[u] = call[u]
  BY <1>1, <1>5, EndsTypes DEF Active
<1>11. ~ended => /\ call'[t] \in Call /\ call'[t].fd = fd /\ call'[t].ctl = c.ctl /\ call'[t].kind = c.kind
                 /\ call'[t].want = c.want /\ call'[t].made = c.made \cup {h}
                 /\ call'[t].pc = IF complete THEN "mmap" ELSE "memory"
  <2>. SUFFICES ASSUME ~ended
                PROVE  /\ call'[t] \in Call /\ call'[t].fd = fd /\ call'[t].ctl = c.ctl /\ call'[t].kind = c.kind
                       /\ call'[t].want = c.want /\ call'[t].made = c.made \cup {h}
                       /\ call'[t].pc = IF complete THEN "mmap" ELSE "memory"
    OBVIOUS
  <2>1. call'[t] = [c EXCEPT !.made = c.made \cup {h}, !.pc = IF complete THEN "mmap" ELSE "memory"]
    BY <1>1, <1>5 DEF Go, TypeOK
  <2>. HIDE DEF c
  <2>2. c.made \cup {h} \in SUBSET Handle
    BY <1>1, <1>3 DEF Call
  <2>. QED
    BY <1>1, <2>1, <2>2 DEF Call
<1>12. ~ended => /\ call' \in [Threads -> Call \cup {Idle}]
                 /\ Active' = Active /\ \A u \in Active : u # t => call'[u] = call[u]
  BY <1>1, <1>5, <1>11, Shapes DEF TypeOK, Go, Active
<1>13. TypeOK'
  BY <1>1, <1>5, <1>6, <1>8, <1>9, <1>10, <1>12 DEF TypeOK
<1>14. /\ Active' \subseteq Active
       /\ t \in Active' <=> ~ended
       /\ \A u \in Active' : u # t => u \in Active /\ call'[u] = call[u]
  BY <1>1, <1>10, <1>12
<1>. HIDE DEF ended
<1>15. OthersKept' /\ Orderly'
  BY <1>1, <1>2, <1>8, Shapes DEF IInv, OthersKept, Orderly, TypeOK
<1>16. StepInv'
  <2>1. \A u \in Active' : u # t => StepOK(u)'
    BY <1>1, <1>2, <1>8, <1>14, OtherCalls, OwnFiles DEF IInv
  <2>2. ~ended => StepOK(t)'
    BY <1>1, <1>8, <1>11 DEF StepOK
  <2>. QED
    BY <1>14, <2>1, <2>2 DEF StepInv
<1>17. MadeInv'
  <2>1. \A u \in Active' : u # t => MadeOK(u)'
    BY <1>7, <1>14 DEF IInv, MadeInv, MadeOK
  <2>2. ~ended => MadeOK(t)'
    <3>1. ~ended => c.made = {}
      BY <1>1 DEF ended, complete, MadeOK, StepOK
    <3>. QED
      BY <1>1, <1>4, <1>6, <1>7, <1>11, <3>1 DEF ended, complete, MadeOK
  <2>. QED
    BY <1>14, <2>1, <2>2 DEF MadeInv
<1>18. LiveInv'
  <2>1. LiveOK(h)'
    BY <1>4, <1>6, <1>8 DEF LiveOK
  <2>2. ASSUME NEW g \in Live PROVE LiveOK(g)'
    <3>1. CASE handle[g].fd = fd
      <4>1. g \in c.made /\ s = "out" /\ handle[g].stream = "in" /\ LiveOK(g) /\ handle[g].kind = "rawmidi"
        BY <1>1, <1>2, <1>4, <2>2, <3>1 DEF MadeOK, IInv, LiveInv, StepOK
      <4>2. handle[g].stream \in Streams /\ handle[g].params \in Params
        BY <1>7 DEF Memory
      <4>. QED
        BY <1>2, <1>7, <1>8, <3>1, <4>1, <4>2 DEF LiveOK
    <3>2. CASE handle[g].fd # fd
      BY <1>7, <1>8, <3>2 DEF IInv, LiveInv, LiveOK
    <3>. QED
      BY <3>1, <3>2
  <2>. QED
    BY <1>7, <2>1, <2>2 DEF LiveInv
<1>19. \A g \in Live : handle[g].fd = fd => g \in c.made /\ handle[g].kind = "rawmidi" /\ rawmidi
                                             /\ handle[g].stream = "in" /\ s = "out" /\ c.made = {g}
  BY <1>1, <1>2, <1>4 DEF MadeOK, StepOK
<1>20. ApartInv'
  <2>1. \A u, v \in Active' : u # v =>
         /\ call'[u].fd # NULL => call'[u].fd # call'[v].fd
         /\ call'[u].ctl # NULL => call'[u].ctl # call'[v].ctl
    BY <1>11, <1>14 DEF IInv, ApartInv
  <2>2. \A g, k \in Live' : g # k /\ handle'[g].fd = handle'[k].fd =>
         handle'[g].kind = "rawmidi" /\ handle'[g].stream # handle'[k].stream
    BY <1>6, <1>7, <1>19 DEF IInv, ApartInv
  <2>3. \A g \in Live', u \in Active' : handle'[g].fd = call'[u].fd => g \in call'[u].made
    <3>. SUFFICES ASSUME NEW g \in Live', NEW u \in Active', handle'[g].fd = call'[u].fd
                  PROVE  g \in call'[u].made
      OBVIOUS
    <3>1. CASE u = t
      BY <3>1, <1>2, <1>6, <1>7, <1>11, <1>14
    <3>2. CASE u # t
      <4>1. u \in Active /\ call'[u] = call[u] /\ call[u].fd # fd
        BY <3>2, <1>2, <1>14 DEF Own, Active
      <4>. QED
        BY <4>1, <1>6, <1>7 DEF IInv, ApartInv
    <3>. QED
      BY <3>1, <3>2
  <2>. QED
    BY <2>1, <2>2, <2>3 DEF ApartInv
<1>21. UsersInv'
  <2>. SUFFICES ASSUME NEW d \in Fds
                PROVE /\ hw'[d] = 0 <=> \A g \in Live' : handle'[g].fd = d => handle'[g].kind # "rawmidi"
                      /\ \A g \in Live' : handle'[g].fd = d /\ handle'[g].kind = "rawmidi" =>
                           /\ hw'[d] \in {1, 2}
                           /\ hw'[d] = 1 <=> \A k \in Live' : handle'[k].fd = d => k = g
    BY DEF UsersInv
  <2>1. /\ hw[d] = 0 <=> \A g \in Live : handle[g].fd = d => handle[g].kind # "rawmidi"
        /\ \A g \in Live : handle[g].fd = d /\ handle[g].kind = "rawmidi" =>
             /\ hw[d] \in {1, 2}
             /\ hw[d] = 1 <=> \A k \in Live : handle[k].fd = d => k = g
        /\ hw[d] \in Nat
    BY <1>1 DEF IInv, UsersInv, TypeOK
  <2>2. CASE d # fd
    BY <1>6, <1>7, <1>9, <2>1, <2>2
  <2>3. CASE d = fd /\ c.made = {}
    <3>1. \A g \in Live : handle[g].fd # d
      BY <1>2, <2>3
    <3>. QED
      BY <1>6, <1>7, <1>9, <2>1, <2>3, <3>1
  <2>4. CASE d = fd /\ c.made # {}
    <3>1. PICK k \in Live : c.made = {k} /\ handle[k].fd = fd /\ handle[k].kind = "rawmidi" /\ rawmidi
      BY <1>1, <1>19, <2>4 DEF MadeOK
    <3>2. hw[d] = 1
      BY <1>19, <2>1, <2>4, <3>1
    <3>. QED
      BY <1>6, <1>7, <1>9, <1>19, <2>1, <2>4, <3>1, <3>2
  <2>. QED
    BY <2>2, <2>3, <2>4
<1>22. MapsInv'
  <2>1. \A g \in Given : g \in Given' /\ handle'[g].kind = handle[g].kind
    <3>. SUFFICES ASSUME NEW g \in Given PROVE g \in Given' /\ handle'[g].kind = handle[g].kind
      OBVIOUS
    <3>1. g \in Live /\ \A u \in Active : g \notin call[u].made
      BY GivenIs
    <3>2. g \in Live' /\ \A u \in Active' : g \notin call'[u].made
      BY <1>1, <1>7, <1>11, <1>14, <3>1
    <3>. QED
      BY <1>7, <3>1, <3>2, GivenIs
  <2>. QED
    BY <1>1, <2>1 DEF IInv, MapsInv
<1>23. /\ Own(t) = {fd, NULL} /\ \A u \in Active' : u # t => Own(u)' = Own(u)
       /\ ~ended => Own(t)' = {fd, NULL}
       /\ \A u \in Active : u # t => u \in Active'
  BY <1>1, <1>10, <1>11, <1>12, <1>14 DEF Own, Active, StepOK
<1>24. \A d \in Fds : d # fd =>
         ((\E v \in Active : d \in Own(v)) <=> (\E v \in Active' : d \in Own(v)'))
  BY <1>1, <1>14, <1>23, FdsNotNull
<1>25. /\ \A d \in Fds : d # fd => (d \in Files' <=> d \in Files)
       /\ fd \notin Files /\ Files \subseteq Fds /\ Files' \subseteq Fds
  BY <1>1, <1>8, <1>23, <1>24, FilesIs
<1>26. ASSUME ~ended PROVE Unseen
  <2>1. Files' = Files
    <3>1. fd \notin Files'
      BY <1>14, <1>23, <1>26, FilesIs
    <3>. QED
      BY <1>25, <3>1
  <2>2. \A g : g \in Given' <=> g \in Given
    <3>1. \A g : (\E u \in Active : g \in call[u].made) \/ g = h <=> \E u \in Active' : g \in call'[u].made
      BY <1>1, <1>11, <1>14, <1>23, <1>26
    <3>. QED
      BY <1>7, <3>1, GivenIs
  <2>3. Given' = Given /\ \A g \in Given : handle'[g].fd = handle[g].fd
    BY <1>7, <2>2, GivenIs
  <2>. QED
    BY <2>1, <2>3 DEF Unseen, Held
<1>27. ASSUME ended PROVE \E S \in SUBSET Handle, f \in Fds : H!Open(S, f)
  <2>1. PICK f \in Fds : f = fd
    BY <1>2
  <2>2. PICK S \in SUBSET Handle : S = c.made \cup {h}
    BY <1>1, <1>3 DEF Call
  <2>3. Files' = Files \cup {f}
    <3>1. fd \in Files'
      BY <1>2, <1>8, <1>14, <1>23, <1>27, FilesIs, Shapes
    <3>. QED
      BY <1>2, <1>25, <2>1, <3>1
  <2>4. \A g : g \in Given' <=> g \in Given \/ g \in S
    <3>1. \A g : (\E u \in Active : g \in call[u].made) <=>
                 (\E u \in Active' : g \in call'[u].made) \/ g \in c.made
      BY <1>1, <1>14, <1>23, <1>27
    <3>2. \A g \in S : g \in Live' /\ \A u \in Active' : g \notin call'[u].made
      <4>1. \A u \in Active : u # t => c.made \cap call[u].made = {}
        BY <1>1, <1>2, OwnFiles DEF IInv, MadeInv, MadeOK
      <4>2. \A u \in Active : call[u].made \subseteq Live
        BY DEF IInv, MadeInv, MadeOK
      <4>. QED
        BY <1>1, <1>7, <1>14, <1>27, <2>2, <4>1, <4>2
    <3>. QED
      BY <1>7, <2>2, <3>1, <3>2, GivenIs
  <2>5. S # {} /\ S \cap Given = {} /\ f \notin Files
    BY <1>1, <1>7, <1>25, <2>1, <2>2, GivenIs
  <2>6. \A g \in Given' : handle'[g].fd = IF g \in S THEN f ELSE Held[g]
    <3>1. \A g \in S : handle'[g].fd = f
      BY <1>1, <1>6, <1>7, <2>1, <2>2 DEF MadeOK
    <3>2. \A g \in Given : handle'[g].fd = Held[g]
      BY <1>7, GivenIs DEF Held
    <3>. QED
      BY <2>4, <3>1, <3>2
  <2>7. Held' = [g \in Given \cup S |-> IF g \in S THEN f ELSE Held[g]]
    <3>1. Given' = Given \cup S
      BY <2>4
    <3>. QED
      BY <2>6, <3>1 DEF Held
  <2>8. DOMAIN Held = Given
    BY DEF Held
  <2>9. H!Open(S, f)
    BY <2>3, <2>5, <2>7, <2>8 DEF H!Open, Held, Files
  <2>. QED
    BY <2>9
<1>28. Unseen \/ \E S \in SUBSET Handle, f \in Fds : H!Open(S, f)
  BY <1>26, <1>27
<1>. QED
  BY <1>13, <1>15, <1>16, <1>17, <1>18, <1>20, <1>21, <1>22, <1>28 DEF IInv
-----------------------------------------------------------------------------
(* The theorems. *)

\* Nothing is open, and only descriptor 0 is the program's own.
LEMMA InitInv == Init /\ Orderly => IInv
<1>. SUFFICES ASSUME Init, Orderly PROVE IInv
  OBVIOUS
<1>1. TypeOK
  BY DevicesConstants DEF Init, TypeOK, DevicesConstants
<1>2. OthersKept
  BY DevicesConstants DEF Init, OthersKept, DevicesConstants
<1>3. Active = {} /\ Live = {} /\ maps = {} /\ \A fd \in Fds : hw[fd] = 0
  BY DEF Init, Active, Live
<1>. QED
  BY <1>1, <1>2, <1>3 DEF IInv, StepInv, MadeInv, LiveInv, ApartInv, UsersInv, MapsInv

\* A step of an open call.
LEMMA OpenStepInv ==
    ASSUME IInv, NEW t \in scenario.threads, OpenStep(t)
    PROVE  IInv' /\ (Unseen \/ \E S \in SUBSET Handle, f \in Fds : H!Open(S, f))
<1>1. scenario.subdevs \subseteq {-1, 0, 1}
  BY DevicesConstants DEF IInv, TypeOK, DevicesConstants
<1>2. CASE snd_pcm_open(t)
  BY <1>1, <1>2, StartOpenInv DEF snd_pcm_open, Kinds, Wants
<1>3. CASE snd_rawmidi_open(t)
  BY <1>1, <1>3, StartOpenInv DEF snd_rawmidi_open, Kinds, Wants
<1>4. CASE snd_ctl_open(t) \/ snd_hwdep_open(t) \/ snd_timer_open(t)
  BY <1>4, StartOpenInv DEF snd_ctl_open, snd_hwdep_open, snd_timer_open, Kinds, Wants
<1>. QED
  BY <1>2, <1>3, <1>4, OpenControlInv, PreferSubdevInv, CloseControlInv, OpenDeviceInv,
     OpenFailsInv, DropControlInv, CheckSubdevInv, AskVersionInv, NewHandleInv,
     NewHandleFailsInv, CloseAgainInv, MapStatusInv DEF OpenStep

\* A request on a handle: the stream of a timer or of a hardware-dependent device
\* is the only one it has.
LEMMA RequestsInv ==
    ASSUME IInv, NEW h \in Handle, NEW on \in BOOLEAN,
           snd_rawmidi_request(h, on) \/ snd_timer_request(h, on) \/ snd_hwdep_request(h, on)
    PROVE  IInv' /\ Unseen
<1>1. h \in Given
  BY DEF snd_rawmidi_request, snd_timer_request, snd_hwdep_request
<1>2. LiveOK(h)
  BY <1>1, GivenIs DEF IInv, LiveInv
<1>3. Request(h, on, handle[h].stream)
  BY <1>2 DEF snd_rawmidi_request, snd_timer_request, snd_hwdep_request, LiveOK
<1>. QED
  BY <1>1, <1>3, RequestInv

\* Every step preserves the invariant, and is a step of Handles or none.
LEMMA NextInv ==
    ASSUME IInv, [Next]_vars
    PROVE  IInv' /\ (Unseen \/ H!Next)
<1>1. CASE UNCHANGED vars
  <2>1. IInv'
    <3>1. Active' = Active /\ Live' = Live /\ Given' = Given
      BY <1>1 DEF vars, Active, Live, Given, Making
    <3>2. TypeOK' /\ Orderly' /\ OthersKept'
      BY <1>1 DEF vars, IInv, TypeOK, Orderly, OthersKept
    <3>3. StepInv' /\ MadeInv'
      BY <1>1, <3>1 DEF vars, IInv, StepInv, StepOK, MadeInv, MadeOK
    <3>4. LiveInv' /\ ApartInv' /\ UsersInv' /\ MapsInv'
      BY <1>1, <3>1 DEF vars, IInv, LiveInv, LiveOK, ApartInv, UsersInv, MapsInv
    <3>. QED
      BY <3>2, <3>3, <3>4 DEF IInv
  <2>2. Unseen
    BY <1>1 DEF vars, Unseen, Held, Files, Busy, Given, Making
  <2>. QED
    BY <2>1, <2>2
<1>2. ASSUME NEW t \in scenario.threads, OpenStep(t) PROVE IInv' /\ (Unseen \/ H!Next)
  BY <1>2, OpenStepInv DEF H!Next
<1>3. ASSUME NEW h \in Handle,
             \/ snd_pcm_close(h) \/ snd_rawmidi_close(h) \/ snd_ctl_close(h)
             \/ snd_hwdep_close(h) \/ snd_timer_close(h)
      PROVE  IInv' /\ (Unseen \/ H!Next)
  <2>1. IInv' /\ H!Close(h)
    BY <1>3, CloseSingleInv, RawmidiCloseInv
       DEF snd_pcm_close, snd_ctl_close, snd_hwdep_close, snd_timer_close, Kinds
  <2>. QED
    BY <2>1 DEF H!Next
<1>4. ASSUME NEW h \in Handle, NEW p \in scenario.params, snd_rawmidi_params(h, p)
      PROVE  IInv' /\ Unseen
  BY <1>4, ParamsInv
<1>5. ASSUME NEW h \in Handle, NEW mode \in scenario.modes,
             \/ snd_nonblock(h, mode)
             \/ snd_rawmidi_request(h, mode) \/ snd_timer_request(h, mode) \/ snd_hwdep_request(h, mode)
      PROVE  IInv' /\ Unseen
  <2>1. mode \in BOOLEAN
    BY DevicesConstants DEF IInv, TypeOK, DevicesConstants
  <2>. QED
    BY <1>5, <2>1, NonblockInv, RequestsInv
<1>. QED
  BY <1>1, <1>2, <1>3, <1>4, <1>5, OthersInv DEF Next

\* The inductive invariant, for every scenario that Orderly describes.
THEOREM DevicesInvariant == Spec /\ Orderly => []IInv
<1>1. IInv /\ [Next]_vars => IInv'
  BY NextInv
<1>. QED
  BY InitInv, <1>1, PTL DEF Spec

\* Files, handles and calls keep their types through every open and close path.
THEOREM DevicesTypeOK == Spec /\ Orderly => []TypeOK
<1>1. IInv => TypeOK
  BY DEF IInv
<1>. QED
  BY <1>1, DevicesInvariant, PTL

\* No open or close function of the library closes a file of the rest of the
\* program, however many threads open and close at once.
THEOREM DevicesOthersKept == Spec /\ Orderly => []OthersKept
<1>1. IInv => OthersKept
  BY DEF IInv
<1>. QED
  BY <1>1, DevicesInvariant, PTL

\* Requests have reached the stream of the handle they were made on, and pages
\* are mapped for PCM handles that are there.
THEOREM DevicesHandlesTrue == Spec /\ Orderly => []HandlesTrue
<1>1. IInv => HandlesTrue
  <2>. SUFFICES ASSUME IInv PROVE HandlesTrue
    OBVIOUS
  <2>1. ASSUME NEW h \in Given
        PROVE  /\ file[handle[h].fd].kind = handle[h].kind
               /\ handle[h].active <=> handle[h].stream \in file[handle[h].fd].active
               /\ handle[h].kind = "rawmidi" /\ handle[h].known =>
                    <<handle[h].stream, handle[h].params>> \in file[handle[h].fd].params
    BY <2>1, GivenIs DEF IInv, LiveInv, LiveOK
  <2>2. ASSUME NEW h \in Handle, NEW pages, pages = {m \in maps : m[1] = h}, pages # {}
        PROVE  Cardinality(pages) = 2 /\ h \in Given /\ handle[h].kind = "pcm"
    <3>1. PICK m \in maps : m[1] = h
      BY <2>2
    <3>2. h \in Given /\ handle[h].kind = "pcm"
      BY <3>1, PageOwner DEF IInv
    <3>3. pages = {<<h, "status">>} \cup {<<h, "control">>}
      <4>1. ASSUME NEW n \in maps PROVE \E g \in Handle, q \in {"status", "control"} : n = <<g, q>>
        BY <4>1 DEF IInv, TypeOK
      <4>2. PICK p \in {"status", "control"} : m = <<h, p>>
        BY <3>1, <4>1
      <4>3. <<h, "status">> \in maps /\ <<h, "control">> \in maps
        BY <4>2 DEF IInv, MapsInv
      <4>4. \A n \in pages : n \in {<<h, "status">>} \cup {<<h, "control">>}
        BY <2>2, <4>1
      <4>. QED
        BY <2>2, <4>3, <4>4
    <3>4. IsFiniteSet({<<h, "status">>}) /\ Cardinality({<<h, "status">>}) = 1
      BY FS_Singleton
    <3>5. <<h, "control">> \notin {<<h, "status">>}
      OBVIOUS
    <3>6. Cardinality(pages) = Cardinality({<<h, "status">>}) + 1
      BY <3>3, <3>4, <3>5, FS_AddElement
    <3>. QED
      BY <3>2, <3>4, <3>6
  <2>. QED
    BY <2>1, <2>2 DEF HandlesTrue
<1>. QED
  BY <1>1, DevicesInvariant, PTL

\* The open and close functions of the library implement the promise of Handles.
THEOREM DevicesPromise == Spec /\ Orderly => Promise
<1>1. Init => H!Init
  <2>. SUFFICES ASSUME Init PROVE H!Init
    OBVIOUS
  <2>1. Given = {} /\ \A fd \in Fds : file[fd] \in {Free, Foreign}
    BY DEF Init, Given
  <2>. QED
    BY <2>1 DEF H!Init
<1>2. IInv /\ [Next]_vars => [H!Next]_(H!vars)
  BY NextInv DEF Unseen, Held, Files, H!vars
<1>. QED
  BY <1>1, <1>2, DevicesInvariant, PTL DEF Spec, Promise, H!Spec

\* Nothing leaks: the files the library has open outside of its calls are those of
\* the handles it has handed out.
THEOREM DevicesNothingLeaks == Spec /\ Orderly => []H!NothingLeaks
<1> DEFINE Leakless == Files = {Held[h] : h \in DOMAIN Held}
<1>1. Init => Leakless
  <2>. SUFFICES ASSUME Init PROVE Leakless
    OBVIOUS
  <2>1. Given = {} /\ \A fd \in Fds : file[fd] \in {Free, Foreign}
    BY DEF Init, Given
  <2>. QED
    BY <2>1 DEF Held, Files
<1>2. IInv /\ Leakless /\ [Next]_vars => Leakless'
  <2>. SUFFICES ASSUME IInv, Leakless, [Next]_vars PROVE Leakless'
    OBVIOUS
  <2>1. CASE Unseen
    BY <2>1 DEF Unseen
  <2>2. ASSUME NEW S \in SUBSET Handle, NEW f \in Fds, H!Open(S, f) PROVE Leakless'
    <3>1. /\ S # {} /\ S \cap DOMAIN Held = {}
          /\ Held' = [h \in DOMAIN Held \cup S |-> IF h \in S THEN f ELSE Held[h]]
          /\ Files' = Files \cup {f}
      BY <2>2 DEF H!Open, Held, Files
    <3>2. {Held'[h] : h \in DOMAIN Held'} = {Held[h] : h \in DOMAIN Held} \cup {f}
      BY <3>1
    <3>. QED
      BY <3>1, <3>2
  <2>3. ASSUME NEW h \in Handle, H!Close(h) PROVE Leakless'
    <3>1. /\ h \in DOMAIN Held
          /\ Held' = [g \in DOMAIN Held \ {h} |-> Held[g]]
          /\ Files' = IF \E g \in DOMAIN Held \ {h} : Held[g] = Held[h]
                      THEN Files ELSE Files \ {Held[h]}
      BY <2>3 DEF H!Close, Held, Files
    <3>2. {Held'[g] : g \in DOMAIN Held'} = {Held[g] : g \in DOMAIN Held \ {h}}
      BY <3>1
    <3>3. CASE \E g \in DOMAIN Held \ {h} : Held[g] = Held[h]
      BY <3>1, <3>2, <3>3
    <3>4. CASE ~ \E g \in DOMAIN Held \ {h} : Held[g] = Held[h]
      BY <3>1, <3>2, <3>4
    <3>. QED
      BY <3>3, <3>4
  <2>. QED
    BY <2>1, <2>2, <2>3, NextInv DEF H!Next
<1>3. Leakless => H!NothingLeaks
  BY DEF H!NothingLeaks, Held, Files
<1>. QED
  BY <1>1, <1>2, <1>3, DevicesInvariant, PTL DEF Spec
=============================================================================
