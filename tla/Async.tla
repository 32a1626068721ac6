------------------------------- MODULE Async -------------------------------
(***************************************************************************)
(* The asynchronous handlers of src/async.c as PCM and control handles use *)
(* them (snd_async_add_pcm_handler, snd_async_add_ctl_handler, and the     *)
(* close functions): one process-wide list of handlers, one SIGIO          *)
(* disposition, and per file the flag O_ASYNC that makes the kernel send   *)
(* the signal.  SIGIO arrives between any two steps of the thread that     *)
(* adds, deletes or closes, and walks the list as it then is.              *)
(*                                                                         *)
(* The order of the list matters to nobody, so async_list is the set of    *)
(* the handlers reachable from it.                                         *)
(***************************************************************************)

CONSTANTS
    Fds,       \* the file descriptors handles are opened on
    PcmFds,    \* those that are PCMs; the others are control devices
    Handlers,  \* addresses calloc() may return for a snd_async_handler_t
    NULL

ASSUME AsyncConstants == PcmFds \subseteq Fds /\ NULL \notin Handlers

VARIABLES
    open,        \* the files that are open
    torn,        \* PCMs whose status pages snd_pcm_close has unmapped
    o_async,     \* files with O_ASYNC set
    owned,       \* files with an owner for the signal (F_SETOWN)
    async,       \* handle -> its handler (pcm->async, ctl->async) or NULL
    heap,        \* allocated handlers
    fd,          \* handler -> its file
    rec,         \* handlers whose rec and pointer are set
    async_list,  \* the handlers the signal handler walks
    disposition, \* what SIGIO does: "SIG_DFL" or "snd_async_handler"
    pc, self, node, tail, back,  \* the call in progress and its locals
    killed       \* SIGIO met SIG_DFL

vars == <<open, torn, o_async, owned, async, heap, fd, rec, async_list,
          disposition, pc, self, node, tail, back, killed>>

files == <<open, torn>>
flags == <<o_async, owned>>
nodes == <<async, heap, fd, rec>>
locals == <<self, node, tail, back>>

Steps == {"idle", "add.setfl", "add.setown", "add.sigaction", "add.undo",
          "add.link", "add.rec", "del.setfl", "del.free", "del.sigaction",
          "close.del", "close.fd"}

Init == /\ open = {} /\ torn = {} /\ o_async = {} /\ owned = {}
        /\ async = [f \in Fds |-> NULL]
        /\ heap = {} /\ rec = {}
        /\ fd \in [Handlers -> Fds]
        /\ async_list = {}
        /\ disposition = "SIG_DFL"
        /\ pc = "idle" /\ node = NULL /\ tail = {} /\ back = "idle"
        /\ self \in Fds
        /\ killed = FALSE

Idle == pc = "idle" /\ ~killed
At(step) == pc = step /\ ~killed

-----------------------------------------------------------------------------
(* Opening.  SND_PCM_ASYNC and SND_CTL_ASYNC open with O_ASYNC, but without *)
(* an owner the kernel sends nothing.                                       *)

Open(f) ==
    /\ Idle
    /\ f \notin open
    /\ open' = open \cup {f}
    /\ \E mode \in {{}, {f}} : o_async' = o_async \cup mode
    /\ UNCHANGED <<torn, owned, nodes, async_list, disposition, pc, locals, killed>>

-----------------------------------------------------------------------------
(* snd_async_add_pcm_handler and snd_async_add_ctl_handler; both refuse a   *)
(* second handler and both end in snd_async_add_handler.                    *)

\* What calloc() may return; AddHandler ends early on NULL.
Allocated == Handlers \ heap

AddHandler(f) ==
    /\ Idle
    /\ f \in open
    /\ async[f] = NULL
    /\ \E h \in Allocated :
           /\ heap' = heap \cup {h}
           /\ fd' = [fd EXCEPT ![h] = f]
           /\ rec' = rec \ {h}
           /\ node' = h
    /\ self' = f
    /\ tail' = async_list
    /\ pc' = "add.setfl"
    /\ UNCHANGED <<files, flags, async, async_list, disposition, back,
                   killed>>

\* snd_set_async(h, SIGIO): F_SETFL, ...
SetFl ==
    /\ At("add.setfl")
    /\ \/ /\ o_async' = o_async \cup {fd[node]}
          /\ pc' = "add.setown"
          /\ UNCHANGED heap
       \/ /\ heap' = heap \ {node}
          /\ pc' = "idle"
          /\ UNCHANGED o_async
    /\ UNCHANGED <<files, owned, async, fd, rec, async_list, disposition,
                   locals, killed>>

\* ... F_SETSIG and F_SETOWN, undone and given up if one of them fails.
SetOwn ==
    /\ At("add.setown")
    /\ \/ /\ owned' = owned \cup {fd[node]}
          /\ pc' = "add.sigaction"
          /\ UNCHANGED <<o_async, heap>>
       \/ /\ o_async' = o_async \ {fd[node]}
          /\ heap' = heap \ {node}
          /\ pc' = "idle"
          /\ UNCHANGED owned
    /\ UNCHANGED <<files, async, fd, rec, async_list, disposition, locals, killed>>

\* The first handler installs snd_async_handler for SIGIO.
Install ==
    /\ At("add.sigaction")
    /\ \/ /\ disposition' = IF async_list = {} THEN "snd_async_handler"
                            ELSE disposition
          /\ pc' = "add.link"
       \/ /\ async_list = {}
          /\ pc' = "add.undo"
          /\ UNCHANGED disposition
    /\ UNCHANGED <<files, flags, nodes, async_list, locals, killed>>

\* sigaction() failed: O_ASYNC is taken back and the handler freed.
Undo ==
    /\ At("add.undo")
    /\ o_async' = o_async \ {fd[node]}
    /\ heap' = heap \ {node}
    /\ pc' = "idle"
    /\ UNCHANGED <<files, owned, async, fd, rec, async_list, disposition,
                   locals, killed>>

\* async_list = h, whose next was read at the start; *handler = h.
Link ==
    /\ At("add.link")
    /\ async_list' = tail \cup {node}
    /\ async' = [async EXCEPT ![self] = node]
    /\ pc' = "add.rec"
    /\ UNCHANGED <<files, flags, heap, fd, rec, disposition, locals, killed>>

\* mutant: rec and pointer are forgotten
BugSetRec ==
    /\ At("add.rec")
    /\ pc' = "idle"
    /\ UNCHANGED <<files, flags, nodes, async_list, disposition, locals, killed>>

\* Back in the caller: async->rec = pcm, async->pointer = &pcm->async.
SetRec ==
    /\ At("add.rec")
    /\ rec' = rec \cup {node}
    /\ pc' = "idle"
    /\ UNCHANGED <<files, flags, async, heap, fd, async_list, disposition,
                   locals, killed>>

-----------------------------------------------------------------------------
(* snd_async_del_handler, called by the application with the handler its    *)
(* callback was given, or by a close function with the handle's own.  A     *)
(* handler that is not in the list is left alone.                           *)

\* mutant: the handler stays in the list
BugUnlink(h) ==
    /\ node' = h
    /\ pc' = IF h \in async_list THEN "del.setfl" ELSE "del.sigaction"
    /\ UNCHANGED <<flags, nodes, async_list, disposition, tail, killed>>

Unlink(h) ==
    /\ node' = h
    /\ async_list' = async_list \ {h}
    /\ pc' = IF h \in async_list THEN "del.setfl" ELSE "del.sigaction"
    /\ UNCHANGED <<flags, nodes, disposition, tail, killed>>

DelHandler(h) ==
    /\ Idle
    /\ Unlink(h)
    /\ back' = "idle"
    /\ UNCHANGED <<files, self>>

\* snd_set_async(h, -1)
\* mutant: O_ASYNC is left on
BugClearFl ==
    /\ At("del.setfl")
    /\ pc' = "del.free"
    /\ UNCHANGED <<files, flags, nodes, async_list, disposition, locals, killed>>

ClearFl ==
    /\ At("del.setfl")
    /\ o_async' = o_async \ {fd[node]}
    /\ pc' = "del.free"
    /\ UNCHANGED <<files, owned, nodes, async_list, disposition, locals, killed>>

\* if (h->pointer) *h->pointer = NULL; free(h)
\* mutant: the handle keeps its pointer
BugFree ==
    /\ At("del.free")
    /\ heap' = heap \ {node}
    /\ pc' = "del.sigaction"
    /\ UNCHANGED <<files, flags, async, fd, rec, async_list, disposition,
                   locals, killed>>

Free ==
    /\ At("del.free")
    /\ async' = IF node \in rec THEN [async EXCEPT ![fd[node]] = NULL]
                ELSE async
    /\ heap' = heap \ {node}
    /\ pc' = "del.sigaction"
    /\ UNCHANGED <<files, flags, fd, rec, async_list, disposition, locals, killed>>

\* Without handlers SIGIO gets its default action back.
\* mutant: whether handlers remain is not asked
BugUninstall ==
    /\ At("del.sigaction")
    /\ disposition' = "SIG_DFL"
    /\ pc' = back
    /\ UNCHANGED <<files, flags, nodes, async_list, locals, killed>>

Uninstall ==
    /\ At("del.sigaction")
    /\ disposition' = IF async_list = {} THEN "SIG_DFL" ELSE disposition
    /\ pc' = back
    /\ UNCHANGED <<files, flags, nodes, async_list, locals, killed>>

-----------------------------------------------------------------------------
(* snd_pcm_close and snd_ctl_close.  A PCM's status pages are unmapped      *)
(* before its handler is deleted; a control handle has none.                *)

Close(f) ==
    /\ Idle
    /\ f \in open
    /\ torn' = torn \cup ({f} \cap PcmFds)
    /\ self' = f
    /\ pc' = IF async[f] = NULL THEN "close.fd" ELSE "close.del"
    /\ UNCHANGED <<open, flags, nodes, async_list, disposition, node, tail,
                   back, killed>>

CloseDel ==
    /\ At("close.del")
    /\ Unlink(async[self])
    /\ back' = "close.fd"
    /\ UNCHANGED <<files, self>>

CloseFd ==
    /\ At("close.fd")
    /\ open' = open \ {self}
    /\ torn' = torn \ {self}
    /\ o_async' = o_async \ {self}
    /\ owned' = owned \ {self}
    /\ pc' = "idle"
    /\ UNCHANGED <<nodes, async_list, disposition, locals, killed>>

-----------------------------------------------------------------------------
(* SIGIO.  The kernel sends it for a file with O_ASYNC and an owner; the    *)
(* thread runs snd_async_handler to its end before it goes on.              *)

Signalled(f) == f \in open \cap o_async \cap owned

\* The handlers whose callbacks snd_async_handler runs for si_fd = f.
Callbacks(f) == {h \in async_list : fd[h] = f}

\* What the callbacks do with their handle is not the handlers' business.
Sigio(f) ==
    /\ ~killed
    /\ Signalled(f)
    /\ killed' = (disposition = "SIG_DFL")
    /\ UNCHANGED <<files, flags, nodes, async_list, disposition, pc, locals>>

Next ==
    \/ \E f \in Fds : Open(f) \/ AddHandler(f) \/ Close(f) \/ Sigio(f)
    \/ \E h \in Handlers : DelHandler(h)
    \/ SetFl \/ SetOwn \/ Install \/ Undo \/ Link \/ SetRec
    \/ ClearFl \/ Free \/ Uninstall \/ CloseDel \/ CloseFd

Spec == Init /\ [][Next]_vars

-----------------------------------------------------------------------------
(* Properties. *)

TypeOK ==
    /\ open \subseteq Fds /\ torn \subseteq Fds
    /\ o_async \subseteq Fds /\ owned \subseteq Fds
    /\ async \in [Fds -> Handlers \cup {NULL}]
    /\ heap \subseteq Handlers /\ rec \subseteq Handlers
    /\ fd \in [Handlers -> Fds]
    /\ async_list \subseteq Handlers /\ tail \subseteq Handlers
    /\ disposition \in {"SIG_DFL", "snd_async_handler"}
    /\ pc \in Steps /\ self \in Fds /\ node \in Handlers \cup {NULL}
    /\ back \in {"idle", "close.fd"}
    /\ killed \in BOOLEAN

\* The list snd_async_handler walks holds no freed handler at any moment a
\* signal can arrive, none is lost between add and delete, and handlers are
\* only ever kept for open files.
ListSound ==
    /\ async_list \subseteq heap
    /\ pc = "idle" => heap = async_list
    /\ \A h \in async_list : fd[h] \in open

\* A PCM or control handle has at most one asynchronous handler, and between
\* calls its async field is that handler or NULL.
OneHandler ==
    /\ \A g, h \in async_list : fd[g] = fd[h] => g = h
    /\ pc = "idle" => \A f \in Fds :
           IF async[f] = NULL THEN Callbacks(f) = {}
           ELSE Callbacks(f) = {async[f]}

\* Between calls the kernel sends SIGIO for exactly the files with a handler.
SignalsMatch ==
    pc = "idle" => \A f \in Fds :
        Signalled(f) <=> async[f] # NULL

\* SIGIO takes its default action, which ends the process, only while the very
\* first handler is being added: snd_async_add_handler sets O_ASYNC before it
\* calls sigaction().  Deleting the last handler has no such window.
DeathWindow ==
    killed => /\ async_list = {}
              /\ pc \in {"add.setown", "add.sigaction", "add.undo"}

\* Whenever SIGIO may arrive, the handlers whose callbacks it runs are complete,
\* except that snd_async_add_pcm_handler may not have set rec yet, and their
\* handles are whole, except that snd_pcm_close unmaps the status pages before
\* it deletes the handler.
CallbackTarget ==
    \A f \in Fds : Signalled(f) => \A h \in Callbacks(f) :
        /\ h \in rec \/ (pc = "add.rec" /\ h = node)
        /\ f \notin torn \/ (pc = "close.del" /\ h = async[self])
=============================================================================
