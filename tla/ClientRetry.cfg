SPECIFICATION Spec
CONSTANTS
    Callers = {c1}
    MaxAttempts = 2
    Options <- AllOptions
INVARIANTS TypeOK OwnTraceContext SpanTellsTheSame CtxErrorsClassified SpanHasTheDetails BodyJoinsRoundTrip OutcomesAddUp
PROPERTY CountsAsLedger
CHECK_DEADLOCK FALSE
