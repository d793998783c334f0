SPECIFICATION Spec
CONSTANTS
    Goroutines = {reader, canceller}
    Reader = reader
    Payload = 1
INVARIANT AtMostOneReport
