SPECIFICATION Spec
CONSTANTS
    Threads = {t1, t2}
    SampleRate = 1
    MaxIn = 4
    AcceptsClients = FALSE
    BlockSizes <- MCOneBlockSize
    Ports = {5555}
    Channels = {0, 1}
    Faults = {}
INVARIANT ConnectedMeansAccepted
