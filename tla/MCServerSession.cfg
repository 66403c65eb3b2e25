SPECIFICATION Spec
CONSTANTS
    Threads = {t1, t2}
    SampleRate = 1
    MaxIn = 4
    AcceptsClients = TRUE
    BlockSizes <- MCBlockSizes
    Ports = {256, 5555}
    Channels = {0, 1, 2}
    Faults = {"socket", "option", "bind", "accept", "negotiate", "link"}
INVARIANTS
    TypeOK
    OneServerThread
    NoUnlockedClearRace
    AcceptsOnCleanSocket
    
    LoopRuns
PROPERTIES
    NegotiatesWithEveryClient
    LeavesNotRunning
