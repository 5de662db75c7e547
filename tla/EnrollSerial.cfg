\* One operation at a time, with faults, failed repairs, crashes and reboots; DNS is automated and one device is named like the gateway.
CONSTANTS
    d1 = d1  d2 = d2  d3 = d3  k0 = k0  k1 = k1  k2 = k2  t1 = t1  t2 = t2
    NoRow = NoRow
    AnyDevice = AnyDevice
    NoOwner = NoOwner
    NoAddress = NoAddress
    NoProcess = NoProcess
    Device = {d1, d2, d3}
    Key = {k0, k1, k2}
    Token = {t1, t2}
    Address = {1, 2, 3, 4}
    GatewayAddress = 1
    Request = {r1}
    Admin = {a1}
    Scope = {AnyDevice}
    Payload <- OneOperational
    ManualBlocks <- OneManualPeer
    DnsEnabled = TRUE
    Operational = {d3}
    MaxOverlap = 1
    MaxFaults = 2
    MaxRepairFaults = 1
    MaxCrashes = 1
SPECIFICATION Spec
INVARIANTS TypeOK AddressesNotShared RevokedHaveNoPeer SettledPeers SettledHosts SettledDns
PROPERTIES AllocatesAroundConfig RollbackStaysLocal ConsumedOnlyWhenApplied
CHECK_DEADLOCK FALSE
