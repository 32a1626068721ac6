SPECIFICATION Spec
CONSTANTS
    Stream = "PLAYBACK"
    Configs <- MCConfigs
    SwChoices <- MCSwChoices
    LongMax = 63
    FrameLimit = 4
INVARIANTS MapCoherent ParamsCoherent ControlCoherent RingSafe GrantSafe
PROPERTIES XrunJustified ErrorTrue
