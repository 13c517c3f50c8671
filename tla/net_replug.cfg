SPECIFICATION FairSpec
CONSTANTS
    eth = eth
    wlan = wlan
    zero = zero
    ma = ma
    mw = mw
    ip = ip
    ip2 = ip2
    mcast = mcast
    host = host
    None = None
    Devices = {eth}
    MACs = {zero, ma}
    ReservedMACs = {zero}
    ZeroMAC = zero
    DeviceMAC <- MCDeviceMAC0
    IPs = {ip}
    AllowedIPs = {ip}
    Hostnames = {host}
    Patterns <- MCPatterns1
    Statuses <- MCStatus
    MaxMACAge = 0
    PingBroadcastInterval = 1
    HostnameCheckInterval = 1
    MaxTime = 1
PROPERTY
    ListensAgain
