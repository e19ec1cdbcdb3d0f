----------------------------- MODULE Frameworks -----------------------------
(***************************************************************************)
(* The three programs, each the driver with the suites of its own kind.    *)
(***************************************************************************)
EXTENDS TestCases, BenchTables

vars == <<driverVars, testVars, benchVars>>

Init == DriverInit /\ TestInit /\ BenchInit

Next == \/ DriverNext /\ UNCHANGED <<testVars, benchVars>>
        \/ TestNext   /\ UNCHANGED benchVars
        \/ BenchNext  /\ UNCHANGED testVars

Spec == Init /\ [][Next]_vars
=============================================================================
