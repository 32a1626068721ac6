------------------------------ MODULE MCMixer ------------------------------
(* Controls of an element "PCM" (two playback volumes, a capture volume and  *)
(* a volume for both directions) and a switch of its own name.               *)
EXTENDS Mixer, TLC

CONSTANTS pvol, pvol2, cvol, gvol, gsw,  \* controls
          dev1, dev2,                    \* of one identity, on two devices
          pcm, master                    \* names

Volume(dir, global) ==
    [name |-> pcm, dir |-> dir, global |-> global, kind |-> "INTEGER"]

MCDesc ==
    [c \in Ctls |->
        CASE c \in {pvol, pvol2, dev1, dev2} -> Volume(0, FALSE)
          [] c = cvol -> Volume(1, FALSE)
          [] c = gvol -> Volume(0, TRUE)
          [] c = gsw -> [name |-> master, dir |-> 0, global |-> TRUE,
                         kind |-> "BOOLEAN"]]

\* Controls that share elements come and go; or two of them change too.
MCItems == [ctls |-> {pvol, pvol2, cvol}, numids |-> 4, notes |-> {}, values |-> {0}]
MCValues == [ctls |-> {pvol, gsw}, numids |-> 2, notes |-> {"VALUE", "INFO"}, values |-> {0, 1}]

\* Two controls that differ in their device only, and one of its own identity.
MCIdent == [c \in Ctls |-> IF c = dev2 THEN dev1 ELSE c]
MCTwins == [ctls |-> {dev1, dev2, cvol}, numids |-> 3, notes |-> {}, values |-> {0}]
MCScenarios == {MCItems, MCValues, MCTwins}

\* A control for both directions beside one for capture.
MCGlobal == {[ctls |-> {cvol, gvol}, numids |-> 2, notes |-> {}, values |-> {0}]}

Symmetry == Permutations(Elems)
=============================================================================
