SPECIFICATION MCSpec
CONSTANTS
    Channels = {0, 1}
    RawMin = 0
    RawMax = 3
    Tables <- MCAllTables
    UserRanges <- MCUserRanges
    Gains <- MCGains
    Stack <- MCStack
    AreaFormats <- MCAreaFormats
    AreaChannels = 2
    Frames = 3
    Layouts = {"interleaved", "noninterleaved", "null"}
    MaxCards = 3
    MaxDevices = 2
    MaxChanges = 2
    Ids = {"Intel", "USB"}
    DevNames <- MCDevNames
    Positions = {0, 3, 12}
    PosNames <- MCPosNames
    MapChannels = 2
    MaxChannels = 3
    MaxParsed = 2
    Offers <- MCOffers
    Maps <- MCMaps
    MaxLens = {2, 3, 11, 12, 20}
INVARIANTS VolumesTrue GainsTrue SamplesExact FormatsTrue CardsFound MapsTrue
