\* A revocation overlaps a repeated enrollment of the device; nothing fails.
CONSTANTS
    d1 = d1  d2 = d2  d3 = d3  k0 = k0  k1 = k1  k2 = k2  t1 = t1  t2 = t2
    NoRow = NoRow
    AnyDevice = AnyDevice
    NoOwner = NoOwner
    NoAddress = NoAddress
    NoProcess = NoProcess
    Device = {d1}
    Key = {k0, k1}
    Token = {t1, t2}
    Address = {1, 2, 3, 4}
    GatewayAddress = 1
    Request = {r1}
    Admin = {a1}
    Scope = {AnyDevice}
    Payload <- SameDevice
    ManualBlocks <- OneManualPeer
    DnsEnabled = FALSE
    Operational = {}
    MaxOverlap = 2
    MaxFaults = 0
    MaxRepairFaults = 0
    MaxCrashes = 0
SPECIFICATION Spec
INVARIANTS RevokedHaveNoPeer
CHECK_DEADLOCK FALSE
