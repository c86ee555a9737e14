\* Pins, upgrades, migration, restores and retention of one project.
SPECIFICATION UpgradeSpec
CONSTANTS
    Contents = {x}
    Releases <- AllReleases
    Foundation <- FoundationRelease
    NoPin = NoPin
    UpgradeIds = {u1, u2}
    PreviewIds = {p1}
    TTL = 1
    Day = 1
    MaxVersion = 5
    MaxTime = 2
INVARIANTS
    UpgradeTypeOK
PROPERTIES
    UpgradeSound
