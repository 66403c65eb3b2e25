SPECIFICATION FairSpec
CONSTANTS
    Threads = {t1, t2}
    SampleRate = 1
    Ports = {80, 5555}
    Channels = {0, 1, 2}
    Lens = {1, 2}
    PanelSizes <- MCPanelSizes
    MaxOut = 6
    Faults = {"socket", "resolve", "connect", "link"}
INVARIANTS
    TypeOK
    OneClientThread
    SocketOpenInExchange
    NoUnlockedClearRace
    FlagsHaveThread
    OutputBounded
PROPERTIES
    AttemptResolves
    LeavesSilentServer
    StoreEnds
