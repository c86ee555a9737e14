\* Four connections under a limit that an administrator changes meanwhile, or
\* three bootstraps and logins, on a process that stops and is restored.
SPECIFICATION AccessSpec
CONSTANTS
    Connections = {c1, c2, c3, c4}
    Names = {n1, n2, n3}
    Managed = {n1, n2}
    Asks = {k1}
    Policies <- SomePolicies
    Lifetimes = {2}
    PairingTTL = 1
    MaxReplaced = 100
    MaxTime = 2
    Attempts = {l1, l2, l3}
    Tokens = {t1, t2}
    Required = TRUE
    IdleTTL = 1
    AbsoluteTTL = 2
CONSTRAINT OneKindOfTraffic
SYMMETRY ConnectionSymmetry
INVARIANTS
    AccessTypeOK
    PairingSound
PROPERTIES
    Handover
    AdmissionWithinLimit
    SessionsSound
