SPECIFICATION Spec
CONSTANTS
    format = format
    rate = rate
    time = time
    UMax = 15
    MVars = {format}
    IVars = {rate, time}
    IntegerVars = {rate}
    Bits = {0, 1}
    Device <- MCDevice
    Choice <- MCChoice
    Dirs <- MCDirs
    Kind <- MCKind
    Longs <- MCLongs
PROPERTIES SetsExactly MasksExactly NarrowsOnly KeepsSome NearestFound ChoiceSupported
