SPECIFICATION FairSpec
CONSTANTS
    e1 = e1
    e2 = e2
    e3 = e3
    Event = {e1, e2}
    DayOf <- MCDayOf
    Pos <- MCPos
    PageSize = 1
    Invocation = {i1, i2}
    MaxTries = 3
    MaxDay = 1
    MaxFails = 2
INVARIANTS EventsCountedOnce WalkComplete FinalCoversOnTime
PROPERTIES FinalIsLockedIn EveryDayIsFinal
CHECK_DEADLOCK FALSE
