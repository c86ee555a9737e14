\* A reader over crashes, lost connections, bounded replays and retention runs.
SPECIFICATION Spec
CONSTANTS
    reader = reader
    Kinds = {"design", "governance", "private"}
    Retained = {"governance"}
    Evidence = "governance"
    Clients = {reader}
    Visible <- OneReader
    Limit = 1
    Cutoffs = {1, 2, 3}
    MaxEvents = 4
INVARIANTS
    TypeOK
    ToldOnce
PROPERTIES
    EventuallyTold
