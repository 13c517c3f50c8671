SPECIFICATION Spec
CONSTANTS
    eth = eth
    wlan = wlan
    zero = zero
    ma = ma
    mw = mw
    ip = ip
    ip2 = ip2
    mcast = mcast
    host = host
    None = None
    Devices = {eth, wlan}
    MACs = {zero, ma}
    ReservedMACs = {zero}
    ZeroMAC = zero
    DeviceMAC <- MCDeviceMAC0
    IPs = {ip, ip2}
    AllowedIPs = {ip, ip2}
    Hostnames = {host}
    Patterns <- MCPatterns0
    Statuses <- MCStatus
    MaxMACAge = 0
    PingBroadcastInterval = 1
    HostnameCheckInterval = 0
    MaxTime = 1
SYMMETRY DeviceSymmetry
INVARIANTS
    LoopsCoverDevices
    DevicesTrackSystem
    EvidenceReportsMatchTable
    RemovedDeviceStaysSilent
PROPERTY
    ImplementsMonitor
