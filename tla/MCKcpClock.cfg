SPECIFICATION Spec
CONSTANTS
    ClockRange = 28
    SlapLimit = 4
    ProbeInit = 2
    ProbeLimit = 3
    Intervals = {1, 2}
    Nodelays = {0, 2}
    Rtos = {2}
    Segs = {s1}
    Slack = 1
    Ahead = {5}
    Back = {6}
    MaxXmit = 2
INVARIANTS
    ResentInTime
    FlushKeepsUp
    ProbeKeepsAsking
PROPERTIES
    NoEarlyTimeout
