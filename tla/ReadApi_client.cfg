SPECIFICATION FairSpec
CONSTANTS
    Event <- MCEvent
    Ts <- MCTs
    Rank <- MCRank
    HourOf <- MCHourOf
    ValueOf <- MCValueOf
    Fits <- MCFits
    Value = {"scanner", "unknown"}
    Shown = {"scanner"}
    HoursPerDay = 2
    MaxHour = 2
    Window = 2
    Limits = {1, 2}
    PageSize = 2
    MaxPuts = 2
    MaxFails = 1
INVARIANTS TimelineHonest BreakdownLowAtWorst ListedInOrder GapsExplained SessionWhole
PROPERTIES ListingEnds
CHECK_DEADLOCK FALSE
