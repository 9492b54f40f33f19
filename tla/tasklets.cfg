CONSTANTS
    Tasklet = {t1, t2, t3}
    None = None
    Wrap = 16
    MaxDelay = 5
    MaxStale = 1
    MaxLate = 2
SPECIFICATION FairSpec
INVARIANTS
    SleepsRight
PROPERTIES
    NeverEarly
    NothingDueIsLeft
    EventuallyRuns
