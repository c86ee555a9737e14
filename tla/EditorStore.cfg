\* Two edits, one of them destructive, and a third beside them; others' commits,
\* lost answers, late reads.
SPECIFICATION MCSpec
CONSTANTS
    MaxEdits = 3
    Destructive = {2}
    MaxVersion = 3
    MaxKeys = 2
    MaxPages = 2
    MaxNodes = 5
    LinkIds = {"l1"}
    FirstDocuments <- MCFirstDocuments
    Styles = {"plain", "red"}
    UndoLimit = 2
    MaxGestures = 2
    MaxUndone = 2
CONSTRAINT ThirdEdit
CHECK_DEADLOCK FALSE
INVARIANTS
    EditorTypeOK
PROPERTIES
    EditsSafe
    GesturesSound
