SPECIFICATION StudioSpec
CONSTANTS
    i1 = i1
    i2 = i2
    p1 = p1
    p2 = p2
    Handoffs = {h1}
    Inventories = {i1, i2}
    Assessments = {a1}
    Policies <- MCPolicies
    RepositoryOf <- MCRepositoryOf
    PolicyOf <- MCPolicyOf
    Checks = {"lint", "test"}
    Plans = {{"lint"}}
    d1 = d1
    d2 = d2
    Diffs = {d1, d2}
    None = None
    MaxHead = 2
    MaxVersion = 2
    MaxRounds = 5
    MaxDecisions = 8
    MaxRefusals = 1
CONSTRAINT OneKindOfTraffic
SYMMETRY Symmetry
INVARIANTS
    StudioTypeOK
    BuiltAsApproved
    DecidedInSight
    RedesignSound
CHECK_DEADLOCK FALSE
