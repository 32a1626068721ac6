---------------------------- MODULE AsyncProofs ----------------------------
(***************************************************************************)
(* Proofs about Async for any number of files and handlers.                *)
(***************************************************************************)
EXTENDS Async, TLAPS

Adding == {"add.setfl", "add.setown", "add.sigaction", "add.undo", "add.link"}
Deleting == {"del.setfl", "del.free"}

\* The handlers that are allocated are those in the list and the one that is
\* being added or deleted.
HeapInv ==
    /\ pc \notin Adding \cup Deleting => heap = async_list
    /\ pc \in Adding \cup Deleting =>
           /\ node \in Handlers /\ node \notin async_list
           /\ heap = async_list \cup {node}
    /\ pc \in Adding =>
           /\ tail = async_list
           /\ fd[node] = self /\ self \in open /\ async[self] = NULL

\* The handles' async fields and the handlers' files are inverses.
FieldInv ==
    /\ \A h \in async_list : fd[h] \in open /\ async[fd[h]] = h
    /\ \A f \in Fds : async[f] # NULL =>
           \/ async[f] \in async_list /\ fd[async[f]] = f
           \/ pc \in Deleting /\ async[f] = node /\ fd[node] = f
    /\ pc \in Deleting => async[fd[node]] = node /\ fd[node] \in open

\* rec is set once the call that added the handler has returned.
RecInv ==
    /\ \A h \in heap : \/ h \in rec
                       \/ h = node /\ pc \in Adding \cup {"add.rec"}
    /\ pc = "add.rec" => node \in async_list

\* SIGIO goes to snd_async_handler as long as a handler is in the list or O_ASYNC
\* may still be set for the one that is being deleted.
DispositionInv ==
    \/ disposition = "snd_async_handler"
    \/ /\ async_list = {}
       /\ pc \notin Deleting \cup {"add.link", "add.rec"}

\* O_ASYNC and an owner are set for the files with a handler and, for a while,
\* for the file whose handler is being added.
SignalInv ==
    /\ owned \subseteq open
    /\ pc = "add.setown" => self \in o_async
    /\ \A f \in Fds : Signalled(f) =>
           \/ async[f] # NULL
           \/ pc \in Adding \ {"add.setfl"} /\ f = self
    /\ \A f \in Fds : async[f] # NULL =>
           Signalled(f) \/ (pc = "del.free" /\ f = fd[node])
    /\ pc \in {"add.sigaction", "add.link"} => Signalled(self)
    /\ pc = "del.free" => ~Signalled(fd[node])

\* A handle is torn only while it is being closed, and has lost its handler when
\* its file is closed.
CloseInv ==
    /\ \A f \in torn : /\ f = self
                       /\ \/ pc \in {"close.del", "close.fd"}
                          \/ /\ pc \in Deleting \cup {"del.sigaction"}
                             /\ back = "close.fd"
    /\ pc = "close.del" => async[self] # NULL
    /\ pc = "close.fd" => async[self] = NULL
    /\ pc \in Deleting /\ back = "close.fd" => fd[node] = self
    /\ pc = "del.sigaction" /\ back = "close.fd" => async[self] = NULL

IInv ==
    /\ TypeOK
    /\ HeapInv
    /\ FieldInv
    /\ RecInv
    /\ DispositionInv
    /\ SignalInv
    /\ CloseInv
    /\ DeathWindow

-----------------------------------------------------------------------------
(* One lemma per step: it preserves the inductive invariant. *)

\* snd_pcm_open and snd_ctl_open preserve the invariant.
LEMMA OpenIInv == ASSUME NEW f \in Fds, IInv, Open(f) PROVE IInv'
<1>1. TypeOK'
  BY DEF Open, IInv, TypeOK, nodes, locals
<1>2. HeapInv'
  BY DEF Open, IInv, HeapInv, nodes, locals
<1>3. FieldInv'
  BY DEF Open, IInv, FieldInv, nodes, locals
<1>4. RecInv'
  BY DEF Open, IInv, RecInv, nodes, locals
<1>5. DispositionInv'
  BY DEF Open, IInv, DispositionInv
<1>6. SignalInv'
  BY DEF Open, IInv, SignalInv, Signalled, nodes, locals
<1>7. CloseInv'
  BY DEF Open, IInv, CloseInv, nodes, locals
<1>8. DeathWindow'
  BY DEF Open, IInv, DeathWindow
<1> QED BY <1>1, <1>2, <1>3, <1>4, <1>5, <1>6, <1>7, <1>8 DEF IInv

\* The start of snd_async_add_handler preserves the invariant.
LEMMA AddIInv == ASSUME NEW f \in Fds, IInv, AddHandler(f) PROVE IInv'
<1>1. TypeOK'
  BY DEF AddHandler, Allocated, IInv, TypeOK, files, flags, Steps
<1>2. HeapInv'
  BY DEF AddHandler, Allocated, IInv, TypeOK, HeapInv, Adding, Deleting,
     Idle, files
<1>3. FieldInv'
  BY DEF AddHandler, Allocated, IInv, HeapInv, FieldInv, Deleting, Idle,
     files
<1>4. RecInv'
  BY DEF AddHandler, Allocated, IInv, RecInv, Adding, Idle
<1>5. DispositionInv'
  BY DEF AddHandler, Allocated, IInv, DispositionInv, Deleting
<1>6. SignalInv'
  BY DEF AddHandler, Allocated, IInv, SignalInv, Adding, Signalled, Idle,
     files, flags
<1>7. CloseInv'
  BY DEF AddHandler, Allocated, IInv, CloseInv, Deleting, Idle, files
<1>8. DeathWindow'
  BY DEF AddHandler, Allocated, IInv, DeathWindow, Idle
<1> QED BY <1>1, <1>2, <1>3, <1>4, <1>5, <1>6, <1>7, <1>8 DEF IInv

\* F_SETFL of snd_set_async preserves the invariant.
LEMMA SetFlIInv == ASSUME IInv, SetFl PROVE IInv'
<1>1. TypeOK'
  BY DEF SetFl, IInv, TypeOK, HeapInv, Adding, At, files, locals, Steps
<1>2. HeapInv'
  <2>1. CASE pc' = "idle"
    <3>1. heap' = async_list /\ async_list' = async_list
      BY <2>1 DEF SetFl, IInv, HeapInv, Adding, At
    <3> QED BY <2>1, <3>1 DEF HeapInv, Adding, Deleting
  <2>2. CASE pc' # "idle"
    BY <2>2 DEF SetFl, IInv, HeapInv, Adding, At, files, locals
  <2> QED BY <2>1, <2>2
<1>3. FieldInv'
  BY DEF SetFl, IInv, FieldInv, Deleting, At, files
<1>4. RecInv'
  BY DEF SetFl, IInv, RecInv, Adding, locals
<1>5. DispositionInv'
  BY DEF SetFl, IInv, DispositionInv, Deleting
<1>6. SignalInv'
  BY DEF SetFl, IInv, HeapInv, SignalInv, Adding, Signalled, At, files,
     locals
<1>7. CloseInv'
  BY DEF SetFl, IInv, CloseInv, Deleting, At, files
<1>8. DeathWindow'
  BY DEF SetFl, IInv, DeathWindow, At
<1> QED BY <1>1, <1>2, <1>3, <1>4, <1>5, <1>6, <1>7, <1>8 DEF IInv

\* F_SETSIG and F_SETOWN of snd_set_async preserves the invariant.
LEMMA SetOwnIInv == ASSUME IInv, SetOwn PROVE IInv'
<1>1. TypeOK'
  BY DEF SetOwn, IInv, TypeOK, HeapInv, Adding, At, files, locals, Steps
<1>2. HeapInv'
  <2>1. CASE pc' = "idle"
    <3>1. heap' = async_list /\ async_list' = async_list
      BY <2>1 DEF SetOwn, IInv, HeapInv, Adding, At
    <3> QED BY <2>1, <3>1 DEF HeapInv, Adding, Deleting
  <2>2. CASE pc' # "idle"
    BY <2>2 DEF SetOwn, IInv, HeapInv, Adding, At, files, locals
  <2> QED BY <2>1, <2>2
<1>3. FieldInv'
  BY DEF SetOwn, IInv, FieldInv, Deleting, At, files
<1>4. RecInv'
  BY DEF SetOwn, IInv, RecInv, Adding, locals
<1>5. DispositionInv'
  BY DEF SetOwn, IInv, DispositionInv, Deleting
<1>6. SignalInv'
  BY DEF SetOwn, IInv, HeapInv, SignalInv, Adding, Signalled, At, files,
     locals
<1>7. CloseInv'
  BY DEF SetOwn, IInv, CloseInv, Deleting, At, files
<1>8. DeathWindow'
  BY DEF SetOwn, IInv, DeathWindow, At
<1> QED BY <1>1, <1>2, <1>3, <1>4, <1>5, <1>6, <1>7, <1>8 DEF IInv

\* Sigaction in snd_async_add_handler preserves the invariant.
LEMMA InstallIInv == ASSUME IInv, Install PROVE IInv'
<1>1. TypeOK'
  BY DEF Install, IInv, TypeOK, files, flags, nodes, locals, Steps
<1>2. HeapInv'
  BY DEF Install, IInv, HeapInv, Adding, At, files, nodes, locals
<1>3. FieldInv'
  BY DEF Install, IInv, FieldInv, Deleting, At, files, nodes
<1>4. RecInv'
  BY DEF Install, IInv, RecInv, Adding, nodes, locals
<1>5. DispositionInv'
  BY DEF Install, IInv, DispositionInv, Deleting
<1>6. SignalInv'
  BY DEF Install, IInv, SignalInv, Adding, Signalled, At, files, flags,
     nodes, locals
<1>7. CloseInv'
  BY DEF Install, IInv, CloseInv, Deleting, At, files
<1>8. DeathWindow'
  BY DEF Install, IInv, DeathWindow, At
<1> QED BY <1>1, <1>2, <1>3, <1>4, <1>5, <1>6, <1>7, <1>8 DEF IInv

\* The error path of snd_async_add_handler preserves the invariant.
LEMMA UndoIInv == ASSUME IInv, Undo PROVE IInv'
<1>1. TypeOK'
  BY DEF Undo, IInv, TypeOK, files, locals, Steps
<1>2. HeapInv'
  BY DEF Undo, IInv, HeapInv, Adding, Deleting, At
<1>3. FieldInv'
  BY DEF Undo, IInv, FieldInv, Deleting, At, files
<1>4. RecInv'
  BY DEF Undo, IInv, RecInv
<1>5. DispositionInv'
  BY DEF Undo, IInv, DispositionInv, Deleting
<1>6. SignalInv'
  BY DEF Undo, IInv, HeapInv, SignalInv, Adding, Signalled, At, files
<1>7. CloseInv'
  BY DEF Undo, IInv, CloseInv, Deleting, At, files
<1>8. DeathWindow'
  BY DEF Undo, IInv, DeathWindow, At
<1> QED BY <1>1, <1>2, <1>3, <1>4, <1>5, <1>6, <1>7, <1>8 DEF IInv

\* The end of snd_async_add_handler preserves the invariant.
LEMMA LinkIInv == ASSUME IInv, Link PROVE IInv'
<1>1. TypeOK'
  BY DEF Link, IInv, TypeOK, HeapInv, Adding, At, files, flags, locals,
     Steps
<1>2. HeapInv'
  BY DEF Link, IInv, HeapInv, Adding, Deleting, At
<1>3. FieldInv'
  BY AsyncConstants DEF Link, IInv, TypeOK, HeapInv, FieldInv, Adding, At,
     files, locals
<1>4. RecInv'
  BY DEF Link, IInv, RecInv, locals
<1>5. DispositionInv'
  BY DEF Link, IInv, DispositionInv, At
<1>6. SignalInv'
  BY AsyncConstants DEF Link, IInv, TypeOK, HeapInv, SignalInv, Adding,
     Signalled, At, files, flags
<1>7. CloseInv'
  BY DEF Link, IInv, CloseInv, Deleting, At, files
<1>8. DeathWindow'
  BY DEF Link, IInv, DeathWindow, At
<1> QED BY <1>1, <1>2, <1>3, <1>4, <1>5, <1>6, <1>7, <1>8 DEF IInv

\* The end of snd_async_add_pcm_handler preserves the invariant.
LEMMA SetRecIInv == ASSUME IInv, SetRec PROVE IInv'
<1>1. TypeOK'
  BY DEF SetRec, IInv, TypeOK, RecInv, At, files, flags, locals, Steps
<1>2. HeapInv'
  BY DEF SetRec, IInv, HeapInv, Adding, Deleting, At
<1>3. FieldInv'
  BY DEF SetRec, IInv, FieldInv, Deleting, At, files
<1>4. RecInv'
  BY DEF SetRec, IInv, RecInv
<1>5. DispositionInv'
  BY DEF SetRec, IInv, DispositionInv, At
<1>6. SignalInv'
  BY DEF SetRec, IInv, SignalInv, Adding, Signalled, At, files, flags
<1>7. CloseInv'
  BY DEF SetRec, IInv, CloseInv, Deleting, At, files
<1>8. DeathWindow'
  BY DEF SetRec, IInv, DeathWindow, At
<1> QED BY <1>1, <1>2, <1>3, <1>4, <1>5, <1>6, <1>7, <1>8 DEF IInv

\* Snd_async_del_handler called by the application preserves the invariant.
LEMMA DelIInv == ASSUME NEW h \in Handlers, IInv, DelHandler(h) PROVE IInv'
<1>1. TypeOK'
  BY DEF DelHandler, Unlink, IInv, TypeOK, files, flags, nodes, Steps
<1>2. HeapInv'
  BY DEF DelHandler, Unlink, IInv, HeapInv, Adding, Deleting, Idle, nodes
<1>3. FieldInv'
  BY DEF DelHandler, Unlink, IInv, FieldInv, Deleting, Idle, files, nodes
<1>4. RecInv'
  BY DEF DelHandler, Unlink, IInv, RecInv, Adding, Idle, nodes
<1>5. DispositionInv'
  BY DEF DelHandler, Unlink, IInv, DispositionInv, Deleting
<1>6. SignalInv'
  BY DEF DelHandler, Unlink, IInv, SignalInv, Adding, Signalled, Idle,
     files, flags, nodes
<1>7. CloseInv'
  BY DEF DelHandler, Unlink, IInv, CloseInv, Deleting, Idle, files
<1>8. DeathWindow'
  BY DEF DelHandler, Unlink, IInv, DeathWindow, Idle
<1> QED BY <1>1, <1>2, <1>3, <1>4, <1>5, <1>6, <1>7, <1>8 DEF IInv

\* Snd_set_async in snd_async_del_handler preserves the invariant.
LEMMA ClearFlIInv == ASSUME IInv, ClearFl PROVE IInv'
<1>1. TypeOK'
  BY DEF ClearFl, IInv, TypeOK, files, nodes, locals, Steps
<1>2. HeapInv'
  BY DEF ClearFl, IInv, HeapInv, Adding, Deleting, At, nodes, locals
<1>3. FieldInv'
  BY DEF ClearFl, IInv, FieldInv, Deleting, At, files, nodes, locals
<1>4. RecInv'
  BY DEF ClearFl, IInv, RecInv, Adding, At, nodes
<1>5. DispositionInv'
  BY DEF ClearFl, IInv, DispositionInv, Deleting, At
<1>6. SignalInv'
  BY DEF ClearFl, IInv, SignalInv, Adding, Signalled, At, files, nodes,
     locals
<1>7. CloseInv'
  BY DEF ClearFl, IInv, CloseInv, Deleting, At, files, nodes, locals
<1>8. DeathWindow'
  BY DEF ClearFl, IInv, DeathWindow, At
<1> QED BY <1>1, <1>2, <1>3, <1>4, <1>5, <1>6, <1>7, <1>8 DEF IInv

\* Free in snd_async_del_handler preserves the invariant.
LEMMA FreeIInv == ASSUME IInv, Free PROVE IInv'
<1>1. TypeOK'
  BY DEF Free, IInv, TypeOK, files, flags, locals, Steps
<1>2. HeapInv'
  BY DEF Free, IInv, HeapInv, Adding, Deleting, At
<1>3. FieldInv'
  BY DEF Free, IInv, TypeOK, HeapInv, FieldInv, RecInv, Deleting, At, files
<1>4. RecInv'
  BY DEF Free, IInv, RecInv
<1>5. DispositionInv'
  BY DEF Free, IInv, DispositionInv, Deleting
<1>6. SignalInv'
  BY DEF Free, IInv, TypeOK, HeapInv, RecInv, SignalInv, Deleting,
     Signalled, At, files, flags
<1>7. CloseInv'
  BY DEF Free, IInv, TypeOK, HeapInv, RecInv, CloseInv, Deleting, At, files,
     locals
<1>8. DeathWindow'
  BY DEF Free, IInv, DeathWindow, At
<1> QED BY <1>1, <1>2, <1>3, <1>4, <1>5, <1>6, <1>7, <1>8 DEF IInv

\* Sigaction in snd_async_del_handler preserves the invariant.
LEMMA UninstallIInv == ASSUME IInv, Uninstall PROVE IInv'
<1>1. TypeOK'
  BY DEF Uninstall, IInv, TypeOK, files, flags, nodes, locals, Steps
<1>2. HeapInv'
  BY DEF Uninstall, IInv, TypeOK, HeapInv, Adding, Deleting, At, nodes
<1>3. FieldInv'
  BY DEF Uninstall, IInv, TypeOK, FieldInv, Deleting, At, files, nodes
<1>4. RecInv'
  BY DEF Uninstall, IInv, TypeOK, RecInv, Adding, At, nodes
<1>5. DispositionInv'
  BY DEF Uninstall, IInv, TypeOK, DispositionInv, Deleting
<1>6. SignalInv'
  BY DEF Uninstall, IInv, TypeOK, SignalInv, Adding, Signalled, At, files,
     flags, nodes
<1>7. CloseInv'
  BY DEF Uninstall, IInv, TypeOK, CloseInv, Deleting, At, files, nodes,
     locals
<1>8. DeathWindow'
  BY DEF Uninstall, IInv, DeathWindow, At
<1> QED BY <1>1, <1>2, <1>3, <1>4, <1>5, <1>6, <1>7, <1>8 DEF IInv

\* The start of snd_pcm_close and snd_ctl_close preserves the invariant.
LEMMA CloseIInv == ASSUME NEW f \in Fds, IInv, Close(f) PROVE IInv'
<1>1. TypeOK'
  BY DEF Close, IInv, TypeOK, flags, nodes, Steps
<1>2. HeapInv'
  BY DEF Close, IInv, HeapInv, Adding, Deleting, Idle, nodes
<1>3. FieldInv'
  BY DEF Close, IInv, FieldInv, Deleting, Idle, nodes
<1>4. RecInv'
  BY DEF Close, IInv, RecInv, Adding, Idle, nodes
<1>5. DispositionInv'
  BY DEF Close, IInv, DispositionInv, Deleting
<1>6. SignalInv'
  BY DEF Close, IInv, SignalInv, Adding, Signalled, Idle, flags, nodes
<1>7. CloseInv'
  BY DEF Close, IInv, CloseInv, Deleting, Idle, nodes
<1>8. DeathWindow'
  BY DEF Close, IInv, DeathWindow, Idle
<1> QED BY <1>1, <1>2, <1>3, <1>4, <1>5, <1>6, <1>7, <1>8 DEF IInv

\* Snd_async_del_handler called by the close functions preserves the invariant.
LEMMA CloseDelIInv == ASSUME IInv, CloseDel PROVE IInv'
<1>1. TypeOK'
  BY DEF CloseDel, Unlink, IInv, TypeOK, files, flags, nodes, Steps
<1>2. HeapInv'
  BY DEF CloseDel, Unlink, IInv, TypeOK, HeapInv, Adding, Deleting, At,
     nodes
<1>3. FieldInv'
  BY DEF CloseDel, Unlink, IInv, FieldInv, Deleting, At, files, nodes
<1>4. RecInv'
  BY DEF CloseDel, Unlink, IInv, RecInv, Adding, At, nodes
<1>5. DispositionInv'
  BY DEF CloseDel, Unlink, IInv, DispositionInv, Deleting
<1>6. SignalInv'
  BY DEF CloseDel, Unlink, IInv, SignalInv, Adding, Signalled, At, files,
     flags, nodes
<1>7. CloseInv'
  BY DEF CloseDel, Unlink, IInv, TypeOK, FieldInv, CloseInv, Deleting, At,
     files, nodes
<1>8. DeathWindow'
  BY DEF CloseDel, Unlink, IInv, DeathWindow, At
<1> QED BY <1>1, <1>2, <1>3, <1>4, <1>5, <1>6, <1>7, <1>8 DEF IInv

\* The end of snd_pcm_close and snd_ctl_close preserves the invariant.
LEMMA CloseFdIInv == ASSUME IInv, CloseFd PROVE IInv'
<1>1. TypeOK'
  BY DEF CloseFd, IInv, TypeOK, nodes, locals, Steps
<1>2. HeapInv'
  BY DEF CloseFd, IInv, HeapInv, Adding, Deleting, At, nodes
<1>3. FieldInv'
  BY AsyncConstants DEF CloseFd, IInv, TypeOK, FieldInv, CloseInv, Deleting,
     At, nodes
<1>4. RecInv'
  BY DEF CloseFd, IInv, RecInv, Adding, At, nodes
<1>5. DispositionInv'
  BY DEF CloseFd, IInv, DispositionInv, Deleting
<1>6. SignalInv'
  BY DEF CloseFd, IInv, SignalInv, CloseInv, Signalled, At, nodes
<1>7. CloseInv'
  BY DEF CloseFd, IInv, CloseInv, Deleting
<1>8. DeathWindow'
  BY DEF CloseFd, IInv, DeathWindow, At
<1> QED BY <1>1, <1>2, <1>3, <1>4, <1>5, <1>6, <1>7, <1>8 DEF IInv

\* SIGIO preserves the invariant.
LEMMA SigioIInv == ASSUME NEW f \in Fds, IInv, Sigio(f) PROVE IInv'
<1>1. TypeOK'
  BY DEF Sigio, IInv, TypeOK, files, flags, nodes, locals
<1>2. HeapInv'
  BY DEF Sigio, IInv, HeapInv, files, nodes, locals
<1>3. FieldInv'
  BY DEF Sigio, IInv, FieldInv, files, nodes, locals
<1>4. RecInv'
  BY DEF Sigio, IInv, RecInv, nodes, locals
<1>5. DispositionInv'
  BY DEF Sigio, IInv, DispositionInv
<1>6. SignalInv'
  BY DEF Sigio, IInv, SignalInv, Signalled, files, flags, nodes, locals
<1>7. CloseInv'
  BY DEF Sigio, IInv, CloseInv, files, nodes, locals
<1>8. DeathWindow'
  BY DEF Sigio, IInv, FieldInv, DispositionInv, SignalInv, DeathWindow,
     Adding
<1> QED BY <1>1, <1>2, <1>3, <1>4, <1>5, <1>6, <1>7, <1>8 DEF IInv

\* The invariant holds before anything is opened.
LEMMA InitIInv == Init => IInv
BY DEF Init, IInv, TypeOK, HeapInv, FieldInv, RecInv, DispositionInv,
   SignalInv, CloseInv, DeathWindow, Adding, Deleting, Signalled, Steps

\* Every step preserves the invariant.
LEMMA NextIInv == IInv /\ [Next]_vars => IInv'
<1> SUFFICES ASSUME IInv, [Next]_vars PROVE IInv'
  OBVIOUS
<1>1. CASE \E f \in Fds : Open(f)
  BY <1>1, OpenIInv
<1>2. CASE \E f \in Fds : AddHandler(f)
  BY <1>2, AddIInv
<1>3. CASE SetFl
  BY <1>3, SetFlIInv
<1>4. CASE SetOwn
  BY <1>4, SetOwnIInv
<1>5. CASE Install
  BY <1>5, InstallIInv
<1>6. CASE Undo
  BY <1>6, UndoIInv
<1>7. CASE Link
  BY <1>7, LinkIInv
<1>8. CASE SetRec
  BY <1>8, SetRecIInv
<1>9. CASE \E h \in Handlers : DelHandler(h)
  BY <1>9, DelIInv
<1>10. CASE ClearFl
  BY <1>10, ClearFlIInv
<1>11. CASE Free
  BY <1>11, FreeIInv
<1>12. CASE Uninstall
  BY <1>12, UninstallIInv
<1>13. CASE \E f \in Fds : Close(f)
  BY <1>13, CloseIInv
<1>14. CASE CloseDel
  BY <1>14, CloseDelIInv
<1>15. CASE CloseFd
  BY <1>15, CloseFdIInv
<1>16. CASE \E f \in Fds : Sigio(f)
  BY <1>16, SigioIInv
<1>17. CASE UNCHANGED vars
  BY <1>17 DEF vars, IInv, TypeOK, HeapInv, FieldInv, RecInv,
     DispositionInv, SignalInv, CloseInv, DeathWindow, Signalled
<1> QED BY <1>1, <1>2, <1>3, <1>4, <1>5, <1>6, <1>7, <1>8, <1>9, <1>10,
   <1>11, <1>12, <1>13, <1>14, <1>15, <1>16, <1>17 DEF Next

\* The inductive invariant holds in every reachable state.
THEOREM Invariance == Spec => []IInv
<1>1. Init => IInv
  BY InitIInv
<1>2. IInv /\ [Next]_vars => IInv'
  BY NextIInv
<1> QED BY <1>1, <1>2, PTL DEF Spec

\* Every variable keeps its type.
THEOREM TypeCorrect == Spec => []TypeOK
<1>1. IInv => TypeOK
  BY DEF IInv
<1> QED BY <1>1, Invariance, PTL

\* Whenever a signal may arrive, the list that snd_async_handler walks holds only
\* allocated handlers of open files, and between calls no handler is lost.
THEOREM ListIsSound == Spec => []ListSound
<1>1. IInv => ListSound
  BY DEF IInv, HeapInv, FieldInv, Adding, Deleting, ListSound
<1> QED BY <1>1, Invariance, PTL

\* A PCM or control handle has at most one asynchronous handler, known to it.
THEOREM OneHandlerEach == Spec => []OneHandler
<1>1. IInv => OneHandler
  BY AsyncConstants DEF IInv, TypeOK, FieldInv, Deleting, Callbacks,
     OneHandler
<1> QED BY <1>1, Invariance, PTL

\* Between calls SIGIO is sent for exactly the files with a handler.
THEOREM SignalsMatchHandlers == Spec => []SignalsMatch
<1>1. IInv => SignalsMatch
  BY DEF IInv, SignalInv, Adding, SignalsMatch
<1> QED BY <1>1, Invariance, PTL

\* SIGIO meets its default action only while the first handler is added.
THEOREM DeathOnlyWhileAdding == Spec => []DeathWindow
<1>1. IInv => DeathWindow
  BY DEF IInv
<1> QED BY <1>1, Invariance, PTL

\* Callbacks run on complete handlers and whole handles, but for the two windows
\* that CallbackTarget names.
THEOREM CallbacksAreSafe == Spec => []CallbackTarget
<1>1. IInv => CallbackTarget
  BY DEF IInv, HeapInv, FieldInv, RecInv, SignalInv, CloseInv, Adding,
     Callbacks, CallbackTarget
<1> QED BY <1>1, Invariance, PTL

=============================================================================
