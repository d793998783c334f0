SPECIFICATION FairSpec
CONSTANTS
    Requests = {r1}
    Codes = {"103", "200", "500"}
    Informational = {"103"}
    StaticLen = 9
    MaxHijacks = 2
INVARIANTS TypeOK SpanEndedOnce ReportsMatchHijacks SentStatusRecorded SpanAndMetricAgree
PROPERTY HijackReported
