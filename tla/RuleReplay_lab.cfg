SPECIFICATION Spec
CONSTANTS
    ca = ca  la = la  lb = lb  lc = lc  odd = odd  h1 = h1  h2 = h2  h3 = h3
    ip1 = ip1  ip2 = ip2  s1 = s1  s2 = s2  d1 = d1  d2 = d2  d3 = d3
    agg = agg  evt = evt  Garbage = Garbage  Broken = Broken  NoDoc = NoDoc
    Conn = {h1, h2, h3}
    Ip = {ip1, ip2}
    ConnIp <- MCConnIp
    ConnTime <- MCConnTime
    ConnUs <- MCConnUs
    Window = 500000
    MinDelta = 1000
    Line = {ca, la, lb, lc, odd}
    ConnectLine = {ca}
    Shapeless = {odd}
    Session = {s1, s2}
    SessionOf <- MCSessionOf
    LineTime <- MCLineTime
    LineUs <- MCLineUs
    Id = {d1, d2, d3}
    IdOf <- MCIdOf
    Archives <- MCArchives
    Batch = 2
    MaxLoads = 2
    Rules <- MCRules
    Aggregating = {agg}
    Matches <- MCMatches
    Threshold = 2
    MaxSignals = 1
    Page = 1
    Rank <- MCRank
    MaxReplays = 2
    MaxTime = 2
INVARIANTS IndexIsArchive AgreesOnline QuietAfterReplay ExportComplete SummaryHonest
PROPERTIES ResultIsFresh
CHECK_DEADLOCK FALSE
