SPECIFICATION TunnelSpec
CONSTANTS
    h1 = h1
    h2 = h2
    d1 = d1
    gh1 = gh1
    gh2 = gh2
    gd = gd
    NoConn = NoConn
    NoGrant = NoGrant
    Attempts = {h1, h2, d1}
    Grants = {gh1, gh2, gd}
    GrantsOf <- MCGrantsOf
    Role <- MCRole
    Route <- MCRoute
    Endpoint <- MCRole
    MaxConnections = 2
    MaxRoutes = 1
    MaxDevices = 1
    MaxBuffered = 2
    Idlers = {d1}
    MaxWrites = 2
    MaxBufferedReads = 1
INVARIANTS SlotsExclusive AckedNotLost PeerEndOnItsWay
PROPERTY StreamSpec
SYMMETRY Interchangeable
CHECK_DEADLOCK FALSE
