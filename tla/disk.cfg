SPECIFICATION Spec
CONSTANTS
    PieceLength = 3
    Layouts <- SmallLayouts
    OldLengths = {0, 2}
    MayFail = TRUE
INVARIANTS
    FilesCorrect
    ReportIsExact
CHECK_DEADLOCK FALSE
