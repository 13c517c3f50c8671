SPECIFICATION Spec
CONSTANTS
    eth = eth
    wlan = wlan
    ma = ma
    c1 = c1
    c2 = c2
    s1 = s1
    None = None
    Devices = {eth}
    MACs = {ma}
    Conns = {c1}
    Servings = {s1}
    Requests <- MCOneRequests
    ServingDevice <- MCServingDevice
    MaxRequests = 1
    MaxReport = 2
INVARIANT
    SurvivesDisconnects
