SPECIFICATION FairSpec
CONSTANTS
    c1 = c1
    c2 = c2
    Clients = {c1, c2}
    Names = {"a"}
    Mins = {1}
    Sizes = {1, 3}
    MaxNumid = 2
    MaxSpace = 1
    NamesBuf = 4
    Scenarios <- MCScenarios
INVARIANTS InRange TlvTrue BuffersFit
PROPERTIES InitialOwn WaitEnds
