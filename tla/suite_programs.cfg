SPECIFICATION Spec
CONSTANTS
    Programs = {"tests", "benchmarks", "examples"}
    Files = {"construction", "capacity", "eviction"}
    CategoryOf <- MCCategoryOf
    LetterOf <- MCLetterOf
    Words = {"-h", "list", "construction", "scaling", "S2", "X9"}
    TestsIn <- MCTestsIn
    MaxChecks = 2
    Operations = {"deny", "construction"}
    Heavy = {"construction"}
    Timings <- MCTimings
    MaxCalls = 3
CHECK_DEADLOCK FALSE
INVARIANTS RequestedSuitesRun FailuresReported CountersMatchMarks TablesWellFormed ReportsAgree
