SPECIFICATION Spec
CONSTANTS
    Stream = "PLAYBACK"
    Configs <- WrapConfigs
    SwChoices <- WrapSwChoices
    LongMax = 15
    FrameLimit = 12
PROPERTIES XrunJustified
