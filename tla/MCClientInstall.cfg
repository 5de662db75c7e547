CONSTANTS
    c1 = c1  c2 = c2  d1 = d1  d2 = d2  t1 = t1  t2 = t2
    k1 = k1  k2 = k2  k3 = k3  a1 = a1  a2 = a2  a3 = a3
    Device = {d1, d2}
    Key = {k1, k2, k3}
    Token = {t1, t2}
    Address = {a1, a2, a3}
    GatewayAddress = a3
    NoRow = NoRow
    AnyDevice = AnyDevice
    Client = {c1, c2}
    HostnameOf <- Hostnames
    Named = {d2}
    Tokenless = {c1}
    Gateway = Gateway
    Default = Default
    Empty = Empty
    ServerHost = c2
    MaxFaults = 1
    MaxCrashes = 1
    MaxUnapplied = 1
    MaxRevocations = 1
SPECIFICATION FairSpec
INVARIANTS TypeOK RegisteredKeysHeld AddressesRegistered IdentityRegistered DoneMeansRunning LeadsToGateway ConfiguredNeverAsks
PROPERTIES RetriesConverge
