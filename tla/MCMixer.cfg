SPECIFICATION Spec
CONSTANTS
    pvol = pvol  pvol2 = pvol2  cvol = cvol  gvol = gvol  gsw = gsw
    dev1 = dev1  dev2 = dev2
    pcm = pcm  master = master
    NULL = NULL
    Ctls = {pvol, pvol2, cvol, gsw, dev1, dev2}
    MaxNumid = 4
    Scenarios <- MCScenarios
    Desc <- MCDesc
    Ident <- MCIdent
    Elems = {m1, m2, m3}
SYMMETRY Symmetry
INVARIANTS ListTrue PrivateLive ItemsLive SidUnique NoEmptyElem MixerTrue
