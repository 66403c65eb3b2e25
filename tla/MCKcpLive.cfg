SPECIFICATION FairSpec
CONSTANTS
    Stream = TRUE
    SegLen = 2
    WndRcv = 2
    SndWnd = 1
    RcvWnd = 2
    WireRange = 65536
    Mss = 16
    NoCwnd = TRUE
    FastResend = 0
    FastLimit = 1
    Duplicates = FALSE
    Lens = {1, 4}
    MaxUnits = 3
    MaxFlight = 1
PROPERTIES
    EventuallyDelivered
    WindowReopens
