SPECIFICATION Spec
CONSTANTS
    Programs = {"tests"}
    Files = {"construction", "capacity", "eviction"}
    CategoryOf <- MCCategoryOf
    LetterOf <- MCLetterOf
    Words = {"scaling", "S2"}
    TestsIn <- MCTestsIn
    MaxChecks = 2
    Operations = {"deny", "construction"}
    Heavy = {"construction"}
    Timings <- MCTimings
    MaxCalls = 0
CHECK_DEADLOCK FALSE
INVARIANT FailuresFailTheProgram
