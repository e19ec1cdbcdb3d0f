----------------------------- MODULE TestCases -----------------------------
(***************************************************************************)
(* The body of a test suite: run_tests(), a sequence of RUN(test), each    *)
(* with its checks.  RUN redirects std::cout into a buffer while the test  *)
(* runs, so that the test's mark can be printed before what the test       *)
(* printed; terminal is what has reached the screen.                       *)
(***************************************************************************)
EXTENDS SuiteDriver

CONSTANTS
    TestsIn,        (* file -> how many tests its run_tests() runs         *)
    MaxChecks       (* bound on the checks of one test                     *)

VARIABLES
    total, pass, fail,
    test,           (* how many RUNs of the suite have been entered        *)
    inTest, checks,
    failBefore,     (* f: fail when the test was entered                   *)
    cout,           (* where std::cout goes: "terminal" or "capture"       *)
    capture,        (* __runBuf                                            *)
    terminal

counts   == <<total, pass, fail>>
case     == <<test, inTest, checks, failBefore>>
streams  == <<cout, capture, terminal>>
testVars == <<counts, case, streams>>

TestInit ==
    /\ total = 0 /\ pass = 0 /\ fail = 0
    /\ test = 0 /\ inTest = FALSE /\ checks = 0 /\ failBefore = 0
    /\ cout = "terminal" /\ capture = << >> /\ terminal = << >>

ThisTest == <<running.name, test>>
Title           == [kind |-> "title", suite |-> running.name]
Mark(passed)    == [kind |-> "mark", test |-> ThisTest, ok |-> passed]
Detail          == [kind |-> "detail", test |-> ThisTest]
Threw           == [kind |-> "threw", test |-> ThisTest]
Stats           == [kind |-> "stats", total |-> total, pass |-> pass, fail |-> fail]

(* std::cout << line                                                       *)
Emit(line) ==
    IF cout = "terminal" THEN terminal' = Append(terminal, line) /\ UNCHANGED <<cout, capture>>
    ELSE capture' = Append(capture, line) /\ UNCHANGED <<cout, terminal>>

(* setTitle(suite.name), before suite.run().                               *)
BeginSuite ==
    /\ pc = "begin" /\ program = "tests"
    /\ Emit(Title)
    /\ test' = 0
    /\ Goto("body")
    /\ UNCHANGED <<counts, inTest, checks, failBefore>>

EnterTest ==
    /\ pc = "body" /\ program = "tests" /\ ~inTest
    /\ test < TestsIn[running.name]
    /\ cout' = "capture" /\ capture' = << >>
    /\ test' = test + 1 /\ inTest' = TRUE /\ checks' = 0
    /\ failBefore' = fail
    /\ UNCHANGED <<driverVars, counts, terminal>>

InsideTest == pc = "body" /\ program = "tests" /\ inTest

(* CHK and CHK_THROWS count and report alike; neither ends the test.       *)
CheckPasses ==
    /\ InsideTest /\ checks < MaxChecks
    /\ pass' = pass + 1 /\ total' = total + 1
    /\ checks' = checks + 1
    /\ UNCHANGED <<driverVars, fail, test, inTest, failBefore, streams>>

CheckFails ==
    /\ InsideTest /\ checks < MaxChecks
    /\ fail' = fail + 1 /\ total' = total + 1
    /\ Emit(Detail)
    /\ checks' = checks + 1
    /\ UNCHANGED <<driverVars, pass, test, inTest, failBefore>>

(* The end of RUN: restore std::cout, then the mark, what was captured     *)
(* and the exception, if there was one.                                    *)
Conclude(passed, extra) ==
    /\ cout' = "terminal"
    /\ terminal' = terminal \o <<Mark(passed)>> \o capture \o extra
    /\ inTest' = FALSE
    /\ UNCHANGED <<driverVars, test, checks, failBefore, capture>>

TestReturns ==
    /\ InsideTest
    /\ Conclude(fail = failBefore, << >>)
    /\ UNCHANGED counts

(* Mutants: a throw leaves std::cout redirected, or is not counted.        *)
ThrowsCaptured ==
    /\ InsideTest
    /\ fail' = fail + 1
    /\ capture' = <<Mark(FALSE)>> \o capture \o <<Threw>>
    /\ inTest' = FALSE
    /\ UNCHANGED <<driverVars, total, pass, test, checks, failBefore, cout, terminal>>

ThrowsUncounted ==
    /\ InsideTest
    /\ Conclude(FALSE, <<Threw>>)
    /\ UNCHANGED counts

(* The test throws, an expression under CHK included: no check is counted. *)
TestThrows ==
    /\ InsideTest
    /\ fail' = fail + 1
    /\ Conclude(FALSE, <<Threw>>)
    /\ UNCHANGED <<total, pass>>

EndSuite ==
    /\ pc = "body" /\ program = "tests" /\ ~inTest
    /\ test = TestsIn[running.name]
    /\ Return
    /\ UNCHANGED testVars

(* stats(), and main() returns 0.                                          *)
FinishTests ==
    /\ pc = "finish" /\ program = "tests"
    /\ Emit(Stats)
    /\ Goto("exit")
    /\ UNCHANGED <<counts, case>>

TestNext == BeginSuite \/ EnterTest \/ CheckPasses \/ CheckFails \/ TestReturns \/ TestThrows
            \/ EndSuite \/ FinishTests

-----------------------------------------------------------------------------

LinesOf(kinds) == {i \in DOMAIN terminal : terminal[i].kind \in kinds}
Trouble        == {"detail", "threw"}

(* "The pass/fail mark always appears first, with any detail nested below  *)
(* it": whatever went wrong in a test is on the screen, between the cross  *)
(* of that very test and the next line of anything else, also after a test *)
(* that threw; and there is one such line for every failure counted.       *)
FailuresReported ==
    /\ \A i \in LinesOf(Trouble) :
          \E j \in 1 .. i - 1 :
             /\ terminal[j].kind = "mark" /\ ~terminal[j].ok
             /\ \A k \in j + 1 .. i : terminal[k].kind \in Trouble
             /\ terminal[j].test = terminal[i].test
    /\ \A j \in LinesOf({"mark"}) :
          ~terminal[j].ok => j + 1 \in LinesOf(Trouble)
    /\ ~inTest => fail = Cardinality(LinesOf(Trouble))

(* Between two tests the counters agree with the marks: nothing failed if  *)
(* and only if every mark is a tick, and every check is counted once as    *)
(* passed or failed; a test that threw adds one failure that is no check.  *)
CountersMatchMarks ==
    ~inTest =>
       /\ fail = 0 <=> \A j \in LinesOf({"mark"}) : terminal[j].ok
       /\ pass + fail = total + Cardinality(LinesOf({"threw"}))

(* "Reports pass/fail through CTest": CTest goes by the exit code.         *)
FailuresFailTheProgram == pc = "exit" /\ fail > 0 => exitCode # 0
=============================================================================
