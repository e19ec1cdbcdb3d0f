SPECIFICATION Spec
CONSTANTS
    Names = {"v1.10.0", "v1.10.0-rc1"}
    Spelling <- MCSpelling
    Methods <- MCMethods
    LetterOf <- MCLetterOf
    Pieces <- MCPieces
    MethodIds <- MCMethodIds
    GroupLetters <- MCGroupLetters
    Snapshots <- MCSnapshots
    ArgLists <- MCArgLists
    MaxEdits = 0
CHECK_DEADLOCK FALSE
INVARIANTS FasterWasMeasured
