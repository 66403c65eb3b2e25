SPECIFICATION FairSpec
CONSTANTS
    Channels = {0, 1}
    BlockLen = 1
    FloatSize = 1
    ReplySlack = 1
    BacklogFactor = 1
    PanelSize = 0
    MaxCaptured = 3
PROPERTIES
    RoundEnds
