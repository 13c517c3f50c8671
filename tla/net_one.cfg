SPECIFICATION FairSpec
CONSTANTS
    eth = eth
    wlan = wlan
    zero = zero
    ma = ma
    mw = mw
    ip = ip
    ip2 = ip2
    mcast = mcast
    host = host
    None = None
    Devices = {eth}
    MACs = {zero, ma, mw}
    ReservedMACs = {zero}
    ZeroMAC = zero
    DeviceMAC <- MCDeviceMAC1
    IPs = {ip, mcast}
    AllowedIPs = {ip}
    Hostnames = {host}
    Patterns <- MCPatterns1
    Statuses <- MCStatuses
    MaxMACAge = 1
    PingBroadcastInterval = 2
    HostnameCheckInterval = 1
    MaxTime = 3
INVARIANTS
    TypeOK
    KeysUnique
    EntriesOnKnownDevices
    ReservedNeverSeen
    PingersHaveAddresses
    PresenceReportsMatchTable
    TimesOrdered
PROPERTIES
    NoEarlyDisappearance
    EvidenceKept
    OldAddressesGo
    DevicesFollowLinks
    ShutdownStops
