SPECIFICATION Spec
CONSTANTS
    a = a
    b = b
    Value <- MCValue
    Order <- MCOrder
    Invocation = {i1, i2}
    WindowHours = 2
    TopN = 1
    MaxHour = 2
    MaxAdds = 2
    MaxFails = 1
INVARIANTS RanksExact NoInventedCounts
CHECK_DEADLOCK FALSE
