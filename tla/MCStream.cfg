SPECIFICATION Spec
CONSTANTS
    Channels = {0, 1, 2}
    BlockLen = 1
    FloatSize = 1
    ReplySlack = 1
    BacklogFactor = 1
    PanelSize = 1
    MaxCaptured = 3
INVARIANTS
    TypeOK
    Lockstep
    Framing
    LabelsMatch
    UniformOutput
PROPERTIES
    ServerAudioInOrder
    ClientAudioInOrder
