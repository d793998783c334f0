SPECIFICATION Spec
CONSTANTS
    Requests = {r1, r2}
    Codes = {"200", "500"}
    Informational = {}
    StaticLen = 9
    MaxHijacks = 0
PROPERTY OwnStatus
