SPECIFICATION Spec
CONSTANTS
    Requests = {r1}
    Codes = {"103", "200", "500"}
    Informational = {"103"}
    StaticLen = 0
    MaxHijacks = 0
INVARIANT RecordedStatusWasSent
