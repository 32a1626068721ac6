SPECIFICATION Spec
CONSTANTS
    Fds = {pcm1, pcm2, ctl}
    PcmFds = {pcm1, pcm2}
    Handlers = {h1, h2, h3}
    NULL = NULL
SYMMETRY Symmetry
INVARIANTS ListSound OneHandler SignalsMatch DeathWindow CallbackTarget
CHECK_DEADLOCK FALSE
