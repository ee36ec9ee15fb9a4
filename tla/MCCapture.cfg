SPECIFICATION FairSpec
CONSTANTS
    Sink = {"video", "audio"}
    Second = 12
    Rate <- Rates
    Word = 16
    Long = 256
    Running = {0, 11, 12, 35, 255}
    Offset <- Offsets
INVARIANTS ErrorKept NoUseAfterClose ReportsExact
PROPERTY CaptureCloses
CHECK_DEADLOCK FALSE
