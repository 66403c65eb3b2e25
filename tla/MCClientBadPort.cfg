SPECIFICATION FairSpec
CONSTANTS
    Threads = {t1, t2}
    SampleRate = 1
    Ports = {80, 5555}
    Channels = {0, 1}
    Lens = {1}
    PanelSizes <- MCPanelSizes
    MaxOut = 6
    Faults = {}
PROPERTY ConnectingResolves
