\* Three devices and keys compete for two addresses with four tokens: pool
\* exhaustion, key conflicts, repeated enrollment and revocation all occur.
CONSTANTS
    Device = {d1, d2, d3}
    Key = {k1, k2, k3}
    Token = {t1, t2, t3, t4}
    Address = {1, 2, 3}
    GatewayAddress = 1
    NoRow = NoRow
    AnyDevice = AnyDevice
SPECIFICATION Spec
SYMMETRY Interchangeable
INVARIANTS TypeOK IdentitiesDistinct DevicesPaidFor
PROPERTY HistoryIsFinal
CHECK_DEADLOCK FALSE
