SPECIFICATION Spec
CONSTANTS
    Stream = FALSE
    SegLen = 1
    WndRcv = 3
    SndWnd = 2
    RcvWnd = 3
    WireRange = 65536
    Mss = 16
    NoCwnd = FALSE
    FastResend = 1
    FastLimit = 0
    Duplicates = TRUE
    Lens = {2, 4}
    MaxUnits = 4
    MaxFlight = 1
INVARIANTS
    TypeOK
    AckedIsKept
    FullIsReadable
PROPERTIES
    InOrder
