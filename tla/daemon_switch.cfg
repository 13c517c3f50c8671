SPECIFICATION Spec
CONSTANTS
    eth = eth
    wlan = wlan
    ma = ma
    c1 = c1
    c2 = c2
    s1 = s1
    None = None
    Devices = {eth, wlan}
    MACs = {ma}
    Conns = {c1}
    Servings = {s1}
    Requests <- MCAnyStream
    ServingDevice <- MCServingDevice
    MaxRequests = 2
    MaxReport = 0
INVARIANT
    ClientsKnowStreams
