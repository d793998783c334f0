SPECIFICATION FairSpec
CONSTANTS
    Goroutines = {reader, canceller}
    Reader = reader
    Payload = 2
INVARIANT ReportsNeverOvercount
PROPERTIES Implements EndingReported LiveSpanEnded
