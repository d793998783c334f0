SPECIFICATION Spec
CONSTANTS
    Goroutines = {reader}
    Reader = reader
    Payload = 4
INVARIANTS TypeOK ErrorFlagMatchesCause LeakOnlyIfClosedUnread
PROPERTY ReportCountsEveryByte
