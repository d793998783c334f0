SPECIFICATION Spec
CONSTANTS
    Proxy = proxy
    Calls = {c1, c2}
INVARIANTS TypeOK SkippedIsUntouched StageTellsTheSame CallerGoneIsNoError NoTimeoutIsCanceled MergeErrorsShow
CHECK_DEADLOCK FALSE
