\* Two processes at once over a zone of three names, with a fault, a failed restoration and a death.
CONSTANTS
    d1 = d1  d2 = d2  n1 = n1  vpn = vpn  register = register
    Device = {d1, d2}
    Name = {n1, vpn, register}
    VpnHostname = vpn
    RegisterHostname = register
    Hostname <- HostnameOf
    Outside = Outside
    Process = {p1, p2}
    NoProcess = NoProcess
    InitialRecord <- RecordsBefore
    MaxFaults = 1
    MaxRepairFaults = 1
    MaxCrashes = 1
SPECIFICATION Spec
SYMMETRY Interchangeable
INVARIANTS TypeOK SyncReconciles DoneMeansDone FailureLeavesZone
PROPERTIES OperationalNamesKept
