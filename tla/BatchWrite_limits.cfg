SPECIFICATION FairSpec
CONSTANTS
    Line <- MCLine
    NoLine = "none"
    Key <- MCKey
    KeyOf <- MCKeyOf
    Verdict <- MCVerdict
    Object <- MCObject
    Lines <- MCLines
    Malformed = "malformed"
    Notification <- MCNotification
    ChunkSize = 2
    MaxRetries = 10
    BackoffCap = 300
    TimeLimit = 600
    MaxDeliveries = 3
INVARIANTS LastLineWins CountsAddUp DeadlineFirst AckedMeansWhole
PROPERTIES PutAllRefined NotificationSettles
CHECK_DEADLOCK FALSE
