---------------------------- MODULE BenchTables ----------------------------
(***************************************************************************)
(* The body of a benchmark suite: calls of BENCH, BENCH_SOLO and their     *)
(* _CUSTOM forms.  A call measures three tiers; each is recorded for the   *)
(* JSON export and printed as a row, on the screen and in the markdown     *)
(* buffer, in a table that is opened lazily: the solo and the comparison   *)
(* layout differ, and a suite may mix them.                                *)
(***************************************************************************)
EXTENDS SuiteDriver

CONSTANTS
    Operations,     (* the names benchmarks are given                      *)
    Heavy,          (* those measured with a _CUSTOM macro                 *)
    Timings,        (* pairs of elapsed times: custom, reference           *)
    MaxCalls        (* bound on the BENCH calls of one run of the program  *)

(* Every benchmark of the suites has a name: the empty one is what         *)
(* lastRowGroup holds before the first row.                                *)
ASSUME BenchAssumption ==
    /\ "" \notin Operations
    /\ Timings \subseteq Nat \X Nat

VARIABLES
    bench,          (* the globals of helpers.h and registry.h, and the    *)
                    (*   screen                                            *)
    calls,          (* how many BENCH calls there have been                *)
    json, report    (* benchmark_results.json and .md                      *)

benchVars == <<bench, calls, json, report>>

(* A file is an earlier run's, if there is one at all, or this run's.      *)
Earlier        == [new |-> FALSE, lines |-> << >>]
Written(lines) == [new |-> TRUE,  lines |-> lines]

Zero == [win |-> 0, loss |-> 0, tie |-> 0]

BenchInit ==
    /\ bench = [suiteName |-> "", lastRowGroup |-> "", tableOpen |-> FALSE, tableIsSolo |-> FALSE,
                screen |-> << >>, markdown |-> << >>, results |-> << >>, tally |-> Zero]
    /\ calls = 0
    /\ json = Earlier /\ report = Earlier

Header(b, solo) == [kind |-> "header", solo |-> solo, suite |-> b.suiteName]
Border(b, kind) == [kind |-> kind, solo |-> b.tableIsSolo]
Summary(b)      == [kind |-> "summary", tally |-> b.tally]
Total(tally)    == tally.win + tally.loss + tally.tie

Draw(b, line)   == [b EXCEPT !.screen = Append(@, line)]
Write(b, line)  == [b EXCEPT !.screen = Append(@, line), !.markdown = Append(@, line)]

(* beginSuite(): the table of the suite before has been closed by then.    *)
BeginTables(b, name) ==
    [b EXCEPT !.suiteName = name, !.tableOpen = FALSE, !.lastRowGroup = ""]

CloseTable(b) ==
    IF b.tableOpen THEN [Draw(b, Border(b, "footer")) EXCEPT !.tableOpen = FALSE] ELSE b

OpenTable(b, solo) ==
    [Write(b, Header(b, solo)) EXCEPT
        !.tableOpen = TRUE, !.tableIsSolo = solo, !.lastRowGroup = ""]

(* Mutant: a row goes into whatever table is open.                         *)
EnsureAnyTable(b, solo) == IF b.tableOpen THEN b ELSE OpenTable(b, solo)

EnsureTable(b, solo) ==
    LET c == IF b.tableOpen /\ b.tableIsSolo # solo THEN CloseTable(b) ELSE b
    IN  IF c.tableOpen THEN c ELSE OpenTable(c, solo)

(* drawGroupSeparatorIfNeeded()                                            *)
Separate(b, op) ==
    LET new == b.lastRowGroup \notin {"", op}
        c   == IF new THEN Draw(b, Border(b, "separator")) ELSE b
    IN  [c EXCEPT !.lastRowGroup = op]

(* The sign of the percentage: a reference that took no measurable time    *)
(* counts as a tie.                                                        *)
Verdict(custom, reference) == IF reference = 0 \/ custom = reference THEN "tie"
                              ELSE IF custom < reference THEN "win" ELSE "loss"

(* BENCHMARK(..., true): the side that is recorded.                        *)
Record(b, op, tier, ns) ==
    [b EXCEPT !.results = Append(@, [suite |-> b.suiteName, op |-> op, tier |-> tier, ns |-> ns])]

PrintSoloRow(b, op, tier, ns) ==
    Write(Separate(EnsureTable(b, TRUE), op),
          [kind |-> "row", solo |-> TRUE, op |-> op, tier |-> tier, ns |-> <<ns>>])

PrintComparisonRow(b, op, tier, ns) ==
    LET c == Write(Separate(EnsureTable(b, FALSE), op),
                   [kind |-> "row", solo |-> FALSE, op |-> op, tier |-> tier, ns |-> ns])
    IN  [c EXCEPT !.tally[Verdict(ns[1], ns[2])] = @ + 1]

StandardTiers == <<10000, 100000, 1000000>>

(* BENCH_SOLO and BENCH_SOLO_CUSTOM                                        *)
SoloTiers(op) == IF op \in Heavy THEN <<100, 1000, 10000>> ELSE StandardTiers

SoloTier(b, op, tier, ns) == PrintSoloRow(Record(b, op, tier, ns), op, tier, ns)

BenchSolo(b, op, ns) ==
    LET t == SoloTiers(op)
    IN  SoloTier(SoloTier(SoloTier(b, op, t[1], ns), op, t[2], ns), op, t[3], ns)

(* BENCH and BENCH_CUSTOM: of the two sides the custom one is recorded.    *)
PairTiers(op) == IF op \in Heavy THEN <<1, 10, 100>> ELSE StandardTiers

(* Mutant: the reference is recorded as well.                              *)
PairTierTwice(b, op, tier, ns) ==
    PrintComparisonRow(Record(Record(b, op, tier, ns[1]), op, tier, ns[2]), op, tier, ns)

PairTier(b, op, tier, ns) == PrintComparisonRow(Record(b, op, tier, ns[1]), op, tier, ns)

BenchPair(b, op, ns) ==
    LET t == PairTiers(op)
    IN  PairTier(PairTier(PairTier(b, op, t[1], ns), op, t[2], ns), op, t[3], ns)

BeginBench ==
    /\ pc = "begin" /\ program = "benchmarks"
    /\ bench' = BeginTables(bench, running.name)
    /\ Goto("body")
    /\ UNCHANGED <<calls, json, report>>

(* One call of a macro in run_benchmarks().                                *)
Measure ==
    /\ pc = "body" /\ program = "benchmarks" /\ calls < MaxCalls
    /\ \E op \in Operations, ns \in Timings :
          \/ bench' = BenchSolo(bench, op, ns[1])
          \/ bench' = BenchPair(bench, op, ns)
    /\ calls' = calls + 1
    /\ UNCHANGED <<driverVars, json, report>>

(* run_benchmarks() returns and the driver closes the table.               *)
EndBench ==
    /\ pc = "body" /\ program = "benchmarks"
    /\ bench' = CloseTable(bench)
    /\ Return
    /\ UNCHANGED <<calls, json, report>>

PrintSummary(b) == IF Total(b.tally) = 0 THEN b ELSE Write(b, Summary(b))

(* Each export opens its own file and, when it cannot, returns in silence. *)
ExportJson(b)     == json' \in {json, Written(b.results)}
ExportMarkdown(b) == report' \in {report, Written(b.markdown)}

(* printSummary() and the two exports, after the last suite.               *)
FinishBench ==
    /\ pc = "finish" /\ program = "benchmarks"
    /\ bench' = PrintSummary(bench)
    /\ ExportJson(bench') /\ ExportMarkdown(bench')
    /\ Goto("exit")
    /\ UNCHANGED calls

BenchNext == BeginBench \/ Measure \/ EndBench \/ FinishBench

-----------------------------------------------------------------------------

(* What may come directly after line i of a screen.                        *)
Follows(screen, i) ==
    LET x == screen[i]  y == screen[i + 1] IN
    CASE x.kind = "header"    -> y.kind = "row" /\ y.solo = x.solo
      [] x.kind = "row"       -> /\ y.kind \in {"row", "separator", "footer"}
                                 /\ y.solo = x.solo
                                 /\ y.kind = "row" => y.op = x.op
      [] x.kind = "separator" -> /\ y.kind = "row" /\ y.solo = x.solo
                                 /\ y.op # screen[i - 1].op
      [] x.kind = "footer"    -> y.kind \in {"header", "summary"}
      [] OTHER                -> FALSE

(* "Two clean, separate tables back to back": every table is closed by the *)
(* border of its own layout before the next is opened, no row is printed   *)
(* in a table of the other layout, a separator stands exactly between two  *)
(* rows of a table that have different names, and nothing is left open     *)
(* when the program ends.                                                  *)
TablesWellFormed ==
    LET last == Len(bench.screen) IN
    /\ \A i \in 1 .. last - 1 : Follows(bench.screen, i)
    /\ last > 0 => bench.screen[1].kind = "header"
    /\ pc \in {"visit", "finish", "exit"} /\ last > 0 =>
          bench.screen[last].kind \in {"footer", "summary"}

RowsOf(lines)   == {i \in DOMAIN lines : lines[i].kind = "row"}
PairsOf(lines)  == {i \in RowsOf(lines) : ~lines[i].solo}
WinsOf(lines)   == {i \in PairsOf(lines) : lines[i].ns[1] < lines[i].ns[2]}
LossesOf(lines) == {i \in PairsOf(lines) : 0 < lines[i].ns[2] /\ lines[i].ns[2] < lines[i].ns[1]}

(* Line i is the place-th row.                                             *)
PlaceOf(lines, i) == Cardinality({j \in RowsOf(lines) : j <= i})

(* Line i stands under the heading at h.                                   *)
StandsUnder(lines, i, h) ==
    lines[h].kind = "header" /\ \A k \in h + 1 .. i : lines[k].kind # "header"

(* The entry of the JSON for a row of the table headed by head.            *)
EntryFor(row, head) == [suite |-> head.suite, op |-> row.op, tier |-> row.tier, ns |-> row.ns[1]]

(* The entries are exactly the rows among the lines, in their order, each  *)
(* with the suite whose heading it stands under.                           *)
SameRows(entries, lines) ==
    /\ Len(entries) = Cardinality(RowsOf(lines))
    /\ \A i \in RowsOf(lines) :
          \E h \in 1 .. i : /\ StandsUnder(lines, i, h)
                            /\ entries[PlaceOf(lines, i)] = EntryFor(lines[i], lines[h])

(* The comparison rows among the lines, counted by who was faster, are     *)
(* what the summary at their end says.                                     *)
SumsUp(lines) ==
    PairsOf(lines) # {} =>
       LET end == lines[Len(lines)] IN
       /\ end.kind = "summary"
       /\ end.tally.win = Cardinality(WinsOf(lines))
       /\ end.tally.loss = Cardinality(LossesOf(lines))
       /\ Total(end.tally) = Cardinality(PairsOf(lines))

(* The two exports, a flat list and the tables as they were printed, are   *)
(* opened one by one, and either may be left as an earlier run wrote it.   *)
(* One that was written tells this run's story, whatever became of the     *)
(* other: the JSON has exactly the rows that were printed, the markdown    *)
(* has a row for each result that was recorded and a summary that counts   *)
(* them; if both were written they list the same rows.                     *)
ReportsAgree ==
    pc = "exit" =>
       /\ json.new => SameRows(json.lines, bench.markdown)
       /\ report.new => SameRows(bench.results, report.lines) /\ SumsUp(report.lines)
       /\ json.new /\ report.new => SameRows(json.lines, report.lines)
=============================================================================
