\* Retried, conflicting and reused requests; previews made, expired, committed.
SPECIFICATION Spec
CONSTANTS
    d1 = d1  d2 = d2  a1 = a1  a2 = a2  k1 = k1  k2 = k2  e1 = e1  e2 = e2
    p1 = p1  p2 = p2
    Designs = {d1, d2}
    Actors = {a1, a2}
    Keys = {k1, k2}
    Edits = {e1, e2}
    Kinds = {"ordinary", "archive"}
    PreviewIds = {p1, p2}
    RevisionIds = {1, 2, 3, 4}
    NoRevision = NoRevision
    Requests <- AllRequests
    PreviewTTL = 1
    Day = 1
    MaxTime = 2
    MaxEngine = 2
SYMMETRY PreviewSymmetry
CONSTRAINT
    OneKindOfTraffic
INVARIANTS
    TypeOK
    LinearHistory
    RequestsWorkOnce
    CommittedExactly
    ReferencesKept
PROPERTIES
    PreviewLifecycle
    ImplementsRevisionLog
