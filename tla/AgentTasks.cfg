\* Two tasks after each other, two previews, edits and upgrades meanwhile.
SPECIFICATION Spec
CONSTANTS
    Agents = {a1, a2}
    TaskIds = {t1, t2}
    PreviewIds = {p1, p2}
    None = None
    TaskTTL = 2
    PreviewTTL = 1
    MaxVersion = 3
    MaxEngine = 2
    MaxTime = 2
SYMMETRY TaskSymmetry
INVARIANTS
    TypeOK
    ProposalExact
PROPERTIES
    TaskLifecycle
