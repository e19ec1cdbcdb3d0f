SPECIFICATION Spec
CONSTANTS
    Jobs = {j1, j2, j3}
    Tags = {v110, v120, v101}
    OnRelease = {v101}
    BaseOf <- MCBaseOf
    Shapes <- MCShapes
SYMMETRY NameSymmetry
CHECK_DEADLOCK FALSE
INVARIANTS PackageFilesAgree RerunToleratesOpenRequest SuccessSettlesTag OnlyOvertakenIsStuck
PROPERTIES MergesBringOwnFiles
