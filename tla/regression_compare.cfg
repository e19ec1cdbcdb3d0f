SPECIFICATION Spec
CONSTANTS
    Names = {"v1.9.0", "v1.10.0", "vnext"}
    Spelling <- MCSpelling
    Methods <- MCMethods
    LetterOf <- MCLetterOf
    Pieces <- MCPieces
    MethodIds <- MCMethodIds
    GroupLetters <- MCGroupLetters
    Snapshots <- MCSnapshots
    ArgLists <- MCArgLists
    MaxEdits = 2
CHECK_DEADLOCK FALSE
INVARIANTS TypeOK FailedRunWritesNothing EveryRunWritesReports NewestChosen
           FolderWithoutSnapshotSkipped RowsCompareLikeWithLike FilterNeedsBothSides SectionsHoldTheirRows
