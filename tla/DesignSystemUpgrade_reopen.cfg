\* The constructor of the service over a database with an upgrade preview.
SPECIFICATION UpgradeSpec
CONSTANTS
    Contents = {x, y}
    Releases <- AllReleases
    Foundation <- FoundationRelease
    NoPin = NoPin
    UpgradeIds = {u1, u2}
    PreviewIds = {p1}
    TTL = 1
    Day = 1
    MaxVersion = 4
    MaxTime = 2
INVARIANTS
    ReopensWithUpgradePreviews
