------------------------------ MODULE Handles ------------------------------
(***************************************************************************)
(* What every snd_*_open and snd_*_close function of the library promises  *)
(* together: a call that succeeds hands out handles for a file of their    *)
(* own, which stays open for as long as one of them does and no longer; a  *)
(* call that fails leaves nothing behind.                                  *)
(***************************************************************************)
CONSTANTS
    Handle,  \* what handles are told apart by
    Fds      \* what open files are told apart by

VARIABLES
    held,    \* the handles handed out -> the file each one stands for
    files    \* the files the library has open

vars == <<held, files>>

Init == held = <<>> /\ files = {}

\* Raw MIDI hands out up to two handles for one file.
Open(H, f) ==
    /\ H # {} /\ H \cap DOMAIN held = {} /\ f \notin files
    /\ held' = [h \in DOMAIN held \cup H |-> IF h \in H THEN f ELSE held[h]]
    /\ files' = files \cup {f}

Close(h) ==
    /\ h \in DOMAIN held
    /\ held' = [g \in DOMAIN held \ {h} |-> held[g]]
    /\ files' = IF \E g \in DOMAIN held \ {h} : held[g] = held[h]
                THEN files ELSE files \ {held[h]}

Next ==
    \/ \E H \in SUBSET Handle, f \in Fds : Open(H, f)
    \/ \E h \in Handle : Close(h)

Spec == Init /\ [][Next]_vars

\* Every open file is some handle's, and every handle's file is open.
NothingLeaks == files = {held[h] : h \in DOMAIN held}
=============================================================================
