\* Two products, two designs, two moves in competition; or a panel that saves the
\* specification twice while an agent proposes one; or an interview by the two.
SPECIFICATION PlanningSpec
CONSTANTS
    Products = {p1, p2}
    Designs = {d1, d2}
    Contexts = {x1}
    Clients = {c1}
    Moves = {m1, m2}
    Names = {n1}
    None = None
    MoveTTL = 1
    MaxVersion = 2
    MaxTime = 1
    Agents = {a1}
    b1 = b1
    b2 = b2
    full = full
    Briefs = {b1, b2}
    Bodies = {Blank, full}
    Blank = Blank
    Proposals <- OneProposal
    Sections = {purpose, roles}
    FirstSection = purpose
    Sessions = {i1}
    SpecTTL = 1
    MaxSaves = 2
    MaxProposals = 1
    MaxSteps = 5
SYMMETRY CatalogSymmetry
CONSTRAINT OneKindOfTraffic
INVARIANT
    PlanningTypeOK
PROPERTIES
    CatalogueKept
    PlanningSound
