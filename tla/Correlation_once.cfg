SPECIFICATION Spec
CONSTANTS
    s1 = s1  s2 = s2  a1 = a1  a2 = a2  b1 = b1  h1 = h1  h2 = h2
    ip1 = ip1  ip2 = ip2  c1 = c1  c2 = c2  p1 = p1  p2 = p2
    Session = {s1, s2}
    Event = {a1, a2, b1}
    Conn = {h1, h2}
    Ip = {ip1, ip2}
    Loopback = Loopback
    NoGeo = NoGeo
    Geo <- MCGeo
    GeoOf <- MCGeoOf
    Shipped <- MCShipped
    SessionOf <- MCSessionOf
    EventTs <- OverlapEventTs
    EventUs <- OverlapEventUs
    SortKey <- MCSortKey
    SrcIp <- AllTunneled
    ConnTs <- OverlapConnTs
    ConnUs <- OverlapConnUs
    ConnIp <- MCConnIp
    CowrieObject = {c1, c2}
    HaproxyObject = {p1}
    Lines <- OverlapLines
    Window = 500000
    MinDelta = 1000
    SessionPage = 5
    MaxAttempts = 1
INVARIANTS AttributionGrounded ItemCoherent AmbiguityIsReal BatchAgrees
PROPERTIES LedgerRefined
CHECK_DEADLOCK FALSE
