\* Three requests served at once; nothing fails.
CONSTANTS
    d1 = d1  d2 = d2  d3 = d3  k0 = k0  k1 = k1  k2 = k2  t1 = t1  t2 = t2
    NoRow = NoRow
    AnyDevice = AnyDevice
    NoOwner = NoOwner
    NoAddress = NoAddress
    NoProcess = NoProcess
    Device = {d1, d2}
    Key = {k0, k1, k2}
    Token = {t1, t2}
    Address = {1, 2, 3, 4}
    GatewayAddress = 1
    Request = {r1, r2, r3}
    Admin = {}
    Scope = {AnyDevice}
    Payload <- TwoDevices
    ManualBlocks <- OneManualPeer
    DnsEnabled = FALSE
    Operational = {}
    MaxOverlap = 3
    MaxFaults = 0
    MaxRepairFaults = 0
    MaxCrashes = 0
SPECIFICATION Spec
SYMMETRY RequestSymmetry
INVARIANTS EnabledHavePeers
CHECK_DEADLOCK FALSE
