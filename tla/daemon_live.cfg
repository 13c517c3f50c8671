SPECIFICATION FairSpec
CONSTANTS
    eth = eth
    wlan = wlan
    ma = ma
    c1 = c1
    c2 = c2
    s1 = s1
    None = None
    Devices = {eth}
    MACs = {ma}
    Conns = {c1}
    Servings = {s1}
    Requests <- MCViewRequests
    ServingDevice <- MCServingDevice
    MaxRequests = 2
    MaxReport = 2
INVARIANTS
    TypeOK
    NoDuplicateStreams
    ViewInSync
PROPERTIES
    RequestsAnswered
    LeftConnectionsReaped
    SignalEnds
