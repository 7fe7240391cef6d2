SPECIFICATION FairSpec
CONSTANTS
    s1 = s1  s2 = s2  a1 = a1  a2 = a2  b1 = b1  h1 = h1  h2 = h2
    ip1 = ip1  ip2 = ip2  c1 = c1  c2 = c2  p1 = p1  p2 = p2
    Session = {s1, s2}
    Event = {a1, b1}
    Conn = {h1}
    Ip = {ip1, ip2}
    Loopback = Loopback
    NoGeo = NoGeo
    Geo <- MCGeo
    GeoOf <- MCGeoOf
    Shipped <- MCShipped
    SessionOf <- MCSessionOf
    EventTs <- OverlapEventTs
    EventUs <- OverlapEventUs
    SortKey <- MCSortKey
    SrcIp <- SecondDirect
    ConnTs <- OverlapConnTs
    ConnUs <- OverlapConnUs
    ConnIp <- MCConnIp
    CowrieObject = {c1}
    HaproxyObject = {p1}
    Lines <- MixedLines
    Window = 500000
    MinDelta = 1000
    SessionPage = 5
    MaxAttempts = 3
INVARIANTS DoneMeansStored
PROPERTIES EveryObjectSettles OnlyPutsReplaceMatches
CHECK_DEADLOCK FALSE
