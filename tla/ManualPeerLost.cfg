\* A client asks with the key of a hand-written peer; nothing overlaps.
CONSTANTS
    d1 = d1  d2 = d2  d3 = d3  k0 = k0  k1 = k1  k2 = k2  t1 = t1  t2 = t2
    NoRow = NoRow
    AnyDevice = AnyDevice
    NoOwner = NoOwner
    NoAddress = NoAddress
    NoProcess = NoProcess
    Device = {d1}
    Key = {k0}
    Token = {t1}
    Address = {1, 2, 3, 4}
    GatewayAddress = 1
    Request = {r1}
    Admin = {}
    Scope = {AnyDevice}
    Payload <- ManualKey
    ManualBlocks <- OneManualPeer
    DnsEnabled = FALSE
    Operational = {}
    MaxOverlap = 1
    MaxFaults = 0
    MaxRepairFaults = 0
    MaxCrashes = 0
SPECIFICATION Spec
INVARIANTS ManualPeersUntouched
CHECK_DEADLOCK FALSE
