SPECIFICATION Spec
CONSTANTS
    pvol = pvol  pvol2 = pvol2  cvol = cvol  gvol = gvol  gsw = gsw
    dev1 = dev1  dev2 = dev2
    pcm = pcm  master = master
    NULL = NULL
    Ctls = {cvol, gvol}
    MaxNumid = 2
    Scenarios <- MCGlobal
    Desc <- MCDesc
    Ident <- MCIdent
    Elems = {m1, m2}
SYMMETRY Symmetry
INVARIANTS PrivateLive
