SPECIFICATION Spec
CONSTANTS
    LogConfig = {l1, l2}
    Broken = Broken
    Absent = Absent
    Default = Default
    NoLog = NoLog
    NoPart = NoPart
    Fallback = Fallback
    Failed = Failed
CHECK_DEADLOCK FALSE
INVARIANT
    HttpFallback
