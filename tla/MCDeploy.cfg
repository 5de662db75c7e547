CONSTANTS
    d1 = d1  d2 = d2  v1 = v1  r1 = r1  v2 = v2  r2 = r2  n1 = n1
    Domain = {d1, d2}
    DefaultDomain = d1
    Fqdn = {v1, r1, v2, r2, n1}
    Parent <- Parents
    Vpn <- Vpns
    Register <- Registers
    Port = {"8787", "8788", "bad"}
    DefaultPort = "8787"
    BadPort = "bad"
    Absent = Absent
    Torn = Torn
    Down = Down
    Untouched = Untouched
    Target = {r1, n1}
    Moved = {d2}
    Options <- CommandOptions
    Edits <- Lines
    InitialFile <- Files
    MaxFaults = 1
    MaxCrashes = 1
    MaxEdits = 1
SPECIFICATION FairSpec
INVARIANTS TypeOK SuccessMeansAgreement FailureRestoresFile OtherSettingsKept PublishedKeyRuns
PROPERTIES RedeployConverges
