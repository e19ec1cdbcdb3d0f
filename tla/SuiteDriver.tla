---------------------------- MODULE SuiteDriver ----------------------------
(***************************************************************************)
(* What the test, benchmark and example programs have in common: the       *)
(* registry that static initialization fills, and the main() that matches  *)
(* its first argument against it and calls the suites.  What a suite does  *)
(* between Call and Return belongs to TestCases and BenchTables.           *)
(*                                                                         *)
(* A suite is named by its file; words are taken in the form the programs  *)
(* compare them in (prettified, in lower case).                            *)
(***************************************************************************)
EXTENDS Integers, Sequences, FiniteSets, TLC

CONSTANTS
    Programs,       (* which of "tests", "benchmarks" and "examples"       *)
    Files,          (* the files that register a suite                     *)
    CategoryOf,     (* file -> the directory it is in                      *)
    LetterOf,       (* directory -> its first letter                       *)
    Words           (* the words the first argument may be                 *)

NoWord  == ""       \* argc == 1
Options == {"-h", "--help", "list"}

Categories == {CategoryOf[f] : f \in Files}
Id(c, n)   == LetterOf[c] \o ToString(n)

Ids        == {Id(c, n) : c \in Categories, n \in 1 .. Cardinality(Files)}

(* A word means one thing: in each of the three trees the directories      *)
(* start with different letters, so that an id names one suite, and no     *)
(* suite has the name of a directory, an id or an option.                  *)
ASSUME WordsAreUnambiguous ==
    /\ IsFiniteSet(Files)
    /\ \A c, d \in Categories, m, n \in 1 .. Cardinality(Files) :
          Id(c, m) = Id(d, n) => c = d /\ m = n
    /\ Files \cap Categories = {} /\ Ids \cap (Files \cup Categories) = {}
    /\ ({NoWord} \cup Options) \cap (Files \cup Categories \cup Ids) = {}

VARIABLES
    program, word,
    registry,       (* test_registry() and its two likes                   *)
    counters,       (* category_counters()                                 *)
    pc,
    next,           (* the loop of main() over the registry                *)
    matches,        (* the suites matched otherwise than by name or id     *)
    running, resume,(* the suite that runs and where main() goes on        *)
    ran,            (* history: the suites that were run, in order         *)
    output,         (* what main() printed besides the suites              *)
    exitCode

choice     == <<program, word>>
registered == <<registry, counters>>
driverVars == <<choice, registered, pc, next, matches, running, resume, ran, output, exitCode>>

NoSuite == [id |-> "", category |-> "", name |-> ""]

DriverInit ==
    /\ program \in Programs
    /\ word \in Words \cup {NoWord}
    /\ registry = << >>
    /\ counters = [c \in Categories |-> 0]
    /\ pc = "static_init"
    /\ next = 1
    /\ matches = << >> /\ ran = << >>
    /\ running = NoSuite /\ resume = "exit"
    /\ output = "nothing"
    /\ exitCode = 0

Unregistered == {f \in Files : \A i \in DOMAIN registry : registry[i].name # f}

(* The constructor of a registrar.  C++ leaves the order of static         *)
(* initialization across files open.                                       *)
Register ==
    /\ pc = "static_init"
    /\ \E f \in Unregistered : LET c == CategoryOf[f] IN
          /\ counters' = [counters EXCEPT ![c] = @ + 1]
          /\ registry' = Append(registry, [id |-> Id(c, counters'[c]), category |-> c, name |-> f])
    /\ UNCHANGED <<choice, pc, next, matches, running, resume, ran, output, exitCode>>

(* Out of memory there: terminate(), before main() is ever called.         *)
RegistrationFails ==
    /\ pc = "static_init" /\ Unregistered # {}
    /\ pc' = "terminated"
    /\ UNCHANGED <<choice, registered, next, matches, running, resume, ran, output, exitCode>>

(* -h, --help and list print something and run nothing.                    *)
PrintUsage ==
    /\ word \in {"-h", "--help"}
    /\ output' = "usage" /\ pc' = "exit"

PrintSuiteList ==
    /\ word = "list"
    /\ output' = "list" /\ pc' = "exit"

StartMatching ==
    /\ word \notin Options
    /\ pc' = "visit"
    /\ UNCHANGED output

Main ==
    /\ pc = "static_init" /\ Unregistered = {}
    /\ PrintUsage \/ PrintSuiteList \/ StartMatching
    /\ UNCHANGED <<choice, registered, next, matches, running, resume, ran, exitCode>>

IsExact(s)   == word \in {s.name, s.id}
IsMatched(s) == word \in {NoWord, s.category}

Call(s, back) == /\ running' = s
                 /\ resume' = back
                 /\ ran' = Append(ran, s)
                 /\ pc' = "begin"

(* One turn of the loop.  A suite matched by name or id is run alone and   *)
(* ends it; printAllTestSuite() and its likes match every suite.           *)
VisitExact ==
    LET s == registry[next] IN
    /\ IsExact(s)
    /\ Call(s, IF program = "examples" THEN "exit" ELSE "finish")
    /\ UNCHANGED matches

(* Mutant: the first match of a directory ends the loop.                   *)
VisitAndStop ==
    LET s == registry[next] IN
    /\ ~IsExact(s) /\ IsMatched(s)
    /\ program # "examples"
    /\ Call(s, "finish")
    /\ matches' = Append(matches, s)

(* The tests and the benchmarks run a match on the spot ...                *)
VisitAndRun ==
    LET s == registry[next] IN
    /\ ~IsExact(s) /\ IsMatched(s)
    /\ program # "examples"
    /\ Call(s, "visit")
    /\ matches' = Append(matches, s)

(* ... and the examples collect the matches first.                         *)
VisitAndCollect ==
    LET s == registry[next] IN
    /\ ~IsExact(s) /\ IsMatched(s)
    /\ program = "examples"
    /\ matches' = Append(matches, s)
    /\ UNCHANGED <<pc, running, resume, ran>>

VisitOther ==
    LET s == registry[next] IN
    /\ ~IsExact(s) /\ ~IsMatched(s)
    /\ UNCHANGED <<pc, matches, running, resume, ran>>

Visit ==
    /\ pc = "visit" /\ next <= Len(registry)
    /\ VisitExact \/ VisitAndRun \/ VisitAndCollect \/ VisitOther
    /\ next' = next + 1
    /\ UNCHANGED <<choice, registered, output, exitCode>>

(* The loop has ended without a match by name or id.                       *)
EndVisit ==
    /\ pc = "visit" /\ next > Len(registry)
    /\ \/ /\ matches # << >> \/ word = NoWord
          /\ pc' = IF program = "examples" THEN "replay" ELSE "finish"
          /\ UNCHANGED <<output, exitCode>>
       \/ /\ matches = << >> /\ word # NoWord
          /\ pc' = "exit"
          /\ output' = "unknown suite"
          /\ exitCode' = 1
    /\ UNCHANGED <<choice, registered, next, matches, running, resume, ran>>

(* runSuites() of the examples: the collected suites, then a summary.      *)
Replay ==
    /\ pc = "replay"
    /\ \/ /\ Len(ran) < Len(matches)
          /\ Call(matches[Len(ran) + 1], "replay")
       \/ /\ Len(ran) = Len(matches)
          /\ pc' = "finish"
          /\ UNCHANGED <<running, resume, ran>>
    /\ UNCHANGED <<choice, registered, next, matches, output, exitCode>>

Return == /\ pc' = resume
          /\ running' = NoSuite
          /\ UNCHANGED <<choice, registered, next, matches, resume, ran, output, exitCode>>

(* An example only prints and calls the limiter.                           *)
RunExample == /\ pc = "begin" /\ program = "examples"
              /\ Return

(* printRunSummary() of the examples.                                      *)
FinishExamples ==
    /\ pc = "finish" /\ program = "examples"
    /\ output' = "run summary" /\ pc' = "exit"
    /\ UNCHANGED <<choice, registered, next, matches, running, resume, ran, exitCode>>

(* A step of a suite, as the driver sees it.                               *)
Goto(label) ==
    /\ pc' = label
    /\ UNCHANGED <<choice, registered, next, matches, running, resume, ran, output, exitCode>>

DriverNext == Register \/ RegistrationFails \/ Main \/ Visit \/ EndVisit \/ Replay
              \/ RunExample \/ FinishExamples

-----------------------------------------------------------------------------

Asked(s) == word \in {NoWord, s.name, s.id, s.category}

(* suites are those at the given places of all, in the order they have     *)
(* there; no suite is registered twice, so none is listed twice.           *)
Lists(suites, all, places) ==
    /\ {suites[p] : p \in DOMAIN suites} = {all[i] : i \in places}
    /\ \A p, q \in DOMAIN suites :
          p < q => \E i, j \in places : i < j /\ suites[p] = all[i] /\ suites[q] = all[j]

(* "Run whichever suite(s) match the requested name, id, or category": of  *)
(* the registered suites exactly those, each once and in the order of the  *)
(* registry, whatever that order is; and only an unknown word is an error. *)
RequestedSuitesRun ==
    pc = "exit" =>
       LET chosen == {i \in DOMAIN registry : Asked(registry[i])} IN
       /\ Lists(ran, registry, chosen)
       /\ exitCode # 0 <=> chosen = {} /\ word \notin {NoWord} \cup Options
=============================================================================
