SPECIFICATION FairSpec
CONSTANTS
    eth = eth
    wlan = wlan
    m1 = m1
    m2 = m2
    Devices <- MCDevices
    MACs <- MCMACs
    Listener = eth
    MaxChanges = 2
    MaxReport = 2
    MaxReplies = 2
    MaxSessions = 2
    MaxToggles = 2
INVARIANTS
    ConnectionPolled
    DevicesShown
    AddressesShown
PROPERTIES
    CloseNoticed
