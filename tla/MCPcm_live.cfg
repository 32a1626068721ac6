SPECIFICATION FairSpec
CONSTANTS
    Stream = "CAPTURE"
    Configs <- LiveConfigs
    SwChoices <- LiveSwChoices
    LongMax = 63
    FrameLimit = 4
INVARIANTS RingSafe
PROPERTIES CallsReturn
