\* One restore under any number of errors, deaths and retries.
SPECIFICATION Spec
CONSTANTS
    Entries = {"designer.sqlite", "designer.sqlite-wal", "runtime", "organization.formaspec.yaml"}
    OldEntries = {"designer.sqlite", "runtime"}
    NewEntries = {"designer.sqlite", "organization.formaspec.yaml"}
    Database = "designer.sqlite"
    Wal = "designer.sqlite-wal"
INVARIANTS
    TypeOK
    ExchangeSound
    ServedSafely
