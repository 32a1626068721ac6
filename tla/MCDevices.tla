----------------------------- MODULE MCDevices -----------------------------
(***************************************************************************)
(* Few descriptors and handles, so that numbers and memory that have been  *)
(* given back are used again at once.                                      *)
(***************************************************************************)
EXTENDS Devices

CONSTANTS h1, h2, t1, t2
MCTwo == {h1, h2}

\* Two threads and the rest of the program open and close files at once.  The
\* failure of the second allocation of snd_rawmidi_open is left out: the file is
\* closed twice then, and the number may have been given to another thread.
MCThreads ==
    [threads |-> {t1, t2}, kinds |-> {"rawmidi", "ctl"},
     failing |-> {"version", "select", "first", "params"}, subdevs |-> {-1}, errnos |-> {1},
     params |-> {}, modes |-> {}, others |-> TRUE]

\* One thread opens devices of all other kinds, and uses them; anything may fail.
MCAlone ==
    [threads |-> {t1}, kinds |-> {"rawmidi", "pcm", "timer", "hwdep"},
     failing |-> {"version", "select", "first", "second", "mmap"}, subdevs |-> {-1, 0},
     errnos |-> {1}, params |-> {"large"}, modes |-> BOOLEAN, others |-> FALSE]

MCScenarios == {MCThreads, MCAlone}

\* A PCM's subdevice is named, and nothing fails.
MCSubdev ==
    {[MCAlone EXCEPT !.kinds = {"pcm"}, !.failing = {}, !.subdevs = {0}]}
=============================================================================
