SPECIFICATION Spec
CONSTANTS
    h1 = h1  h2 = h2  t1 = t1  t2 = t2
    Threads = {t1, t2}
    Handle <- MCTwo
    Fds = {0, 1, 2}
    Scenarios <- MCSubdev
INVARIANT SubdevOpened
