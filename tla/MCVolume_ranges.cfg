SPECIFICATION Spec
CONSTANTS
    Channels = {0}
    RawMin = 0
    RawMax = 3
    Tables <- MCRanges
    UserRanges = {}
    Gains <- MCGains
    Stack <- MCStack
INVARIANT RangesRounded
