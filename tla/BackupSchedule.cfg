SPECIFICATION Spec
CONSTANTS
    r1 = r1
    r2 = r2
    Requests = {r1, r2}
    None = None
    LockTicks = 1
    WindowTicks = 1
    WeekWindows = 1
    MonthWindows = 2
    Policies = {1, 2}
    MaxTime = 2
    MaxBackups = 2
SYMMETRY Symmetry
INVARIANTS
    TypeOK
    BackupsSound
PROPERTIES
    PrunedAsPreviewed
