SPECIFICATION Spec
CONSTANTS
    login = login  closed = closed  root = root  cn = cn  bye = bye
    scanner = scanner  other = other  sh1 = sh1  sh2 = sh2
    Event = {login, closed}
    Closed = {closed}
    Session = {1}
    SessionOf <- MCSessionOf
    Counter = {root, cn, bye, scanner, other}
    Technique = {scanner, other}
    Fields <- MCFields
    TechniqueOf <- MCTechniqueOf
    NoName = NoName
    Sentinel = sentinel
    Shard = {sh1, sh2}
    ShardOf <- TwoShards
    BatchSize = 2
    MaxRetries = 0
    MaxWrites = 2
    MaxResends = 0
INVARIANTS LossesExplained
CHECK_DEADLOCK FALSE
