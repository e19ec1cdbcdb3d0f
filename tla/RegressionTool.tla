--------------------------- MODULE RegressionTool ---------------------------
(***************************************************************************)
(* One run of regression/custom or regression/google: main() of the tool   *)
(* against the files it reads and writes.  A step of the tool is a read of *)
(* the disk or what it does between two reads, since other programs write  *)
(* the same files meanwhile: the benchmarks rewrite the live results, and  *)
(* the benchmark workflow adds a folder to benchmarks/baselines and copies *)
(* a snapshot into it.                                                     *)
(*                                                                         *)
(* The two tools are one program with a few functions exchanged; tool says *)
(* which one runs, and the definitions that differ carry its name.  Words  *)
(* and method names are values of the .cfg's choice; how a word is spelt   *)
(* is given by constants, what the parsers make of it is not.              *)
(***************************************************************************)
EXTENDS Integers, SequencesExt

CONSTANTS
    Spelling,       (* word -> v: it starts with a v; numbers: the three   *)
                    (*   of a version, or none; more: text after them;     *)
                    (*   rank: its place among the words as text           *)
    Methods,        (* every method name, in alphabetical order            *)
    LetterOf,       (* method -> its first letter                          *)
    Pieces,         (* Google name -> its parts between slashes, each a    *)
                    (*   sequence of pieces between underscores            *)
    MethodIds,      (* word such as "a1" -> its letter and index           *)
    GroupLetters,   (* word such as "a" -> its letter                      *)
    Names,          (* the folders there may be in benchmarks/baselines    *)
    Snapshots,      (* tool -> the result lists its benchmarks may write   *)
    ArgLists,       (* the command lines                                   *)
    MaxEdits        (* bound on what other programs do during the run      *)

Live   == "live"      \* kLiveResultsFile; a baseline's file goes by its folder
NoName == "none"

ASSUME ToolAssumption ==
    /\ Names \subseteq DOMAIN Spelling /\ {Live, NoName} \cap Names = {}
    /\ \A w \in DOMAIN Spelling : /\ Spelling[w].numbers \in Seq(Nat)
                                  /\ Len(Spelling[w].numbers) \in {0, 3}
                                  /\ Spelling[w].rank \in Nat
    /\ \A t \in {"custom", "google"} : \A s \in Snapshots[t] :
          /\ s \in Seq(ToSet(s))
          /\ \A e \in ToSet(s) : e.op \in ToSet(Methods) /\ e.iter \in Nat /\ e.ns \in Nat
    /\ Methods \in Seq(ToSet(Methods))
    /\ DOMAIN MethodIds \cap DOMAIN GroupLetters = {}
    /\ MaxEdits \in Nat

VARIABLES
    tool,           (* "custom" or "google"                                *)
    folders,        (* folder -> this tool's snapshot file in it           *)
    live,           (* the live results file                               *)
    writable,       (* the exports find regression/results and can open    *)
                    (*   files in it                                       *)
    edits,          (* what other programs have done so far                *)
    pc, args,
    left, newest,   (* folders still to visit (latestBaseline(), also      *)
                    (*   printMethods()), best so far                      *)
    opened,         (* history: the tool's baselines when the visit began  *)
    baseFile, curFile,
    wanted,         (* the methods to keep; the empty set keeps all        *)
    base, cur,      (* baselineResults, currentResults                     *)
    rows,           (* regression_results()                                *)
    markdown,       (* markdown_buffer()                                   *)
    printed,        (* the tables on the screen, line by line              *)
    json, md        (* the two report files                                *)

disk    == <<tool, folders, live, edits>>
search  == <<left, newest, opened>>
request == <<args, baseFile, curFile, wanted>>
tables  == <<rows, markdown, printed>>
data    == <<base, cur, tables>>
reports == <<writable, json, md>>
vars    == <<disk, pc, search, request, data, reports>>

Goto(label) == pc' = label

-----------------------------------------------------------------------------
(* Files and their entries.                                                *)

Absent        == [state |-> "absent",  entries |-> << >>]
Truncated     == [state |-> "partial", entries |-> << >>]
Whole(s)      == [state |-> "whole",   entries |-> s]

FileOf(f) == IF f = Live THEN live
             ELSE IF f \in DOMAIN folders THEN folders[f] ELSE Absent

(* loadResults() throws on a file it cannot open or parse.                 *)
Loads(f) == FileOf(f).state = "whole"

OpsOf(entries) == {entries[i].op : i \in DOMAIN entries}

(* The elements of s at the given places, in their order.                  *)
At(s, places) ==
    LET kept[n \in 0 .. Len(s)] ==
            IF n = 0 THEN << >>
            ELSE IF n \in places THEN Append(kept[n - 1], s[n]) ELSE kept[n - 1]
    IN  kept[Len(s)]

(* getCns() of the custom tool, and its mutant: matched by name alone.     *)
MatchesName(r, e)   == r.op = e.op
CustomMatches(r, e) == r.op = e.op /\ r.iter = e.iter

(* getCns() of the Google tool: iteration counts are auto-tuned there.     *)
GoogleMatches(r, e) == r.op = e.op

Matches(r, e) == IF tool = "custom" THEN CustomMatches(r, e) ELSE GoogleMatches(r, e)

(* The figure of the first entry that matches, 0 when there is none.       *)
GetCns(entries, e) ==
    LET hits == {i \in DOMAIN entries : Matches(entries[i], e)}
    IN  IF hits = {} THEN 0
        ELSE entries[CHOOSE i \in hits : \A j \in hits : i <= j].ns

(* The class of pct = (bNs - cNs) / cNs * 100, which is infinite for a     *)
(* cNs of 0, against NOISE_THRESHOLD.                                      *)
Verdict(bNs, cNs) ==
    CASE bNs = 0                          -> "tie"
      [] bNs > 0 /\ cNs = 0               -> "faster"
      [] bNs > 0 /\ cNs > 0 /\ 100 * (bNs - cNs) \in -cNs + 1 .. cNs - 1 -> "tie"
      [] OTHER -> IF bNs > cNs THEN "faster" ELSE "slower"

CustomRow(e, cNs) == [suite |-> e.suite, op |-> e.op, iter |-> e.iter,
                      base |-> e.ns, cur |-> cNs, verdict |-> Verdict(e.ns, cNs)]
GoogleRow(e, cNs) == [op |-> e.op, base |-> e.ns, cur |-> cNs,
                      verdict |-> Verdict(e.ns, cNs)]
Row(e, cNs) == IF tool = "custom" THEN CustomRow(e, cNs) ELSE GoogleRow(e, cNs)

(* The tally printSummary() appends to the markdown.                       *)
Tally(rs) == [v \in {"faster", "slower", "tie"} |->
                 Cardinality({i \in DOMAIN rs : rs[i].verdict = v})]

-----------------------------------------------------------------------------
(* The tables.  A table opens when the section changes, under a heading    *)
(* that carries the section's name, and the one before it is closed first. *)

(* baseName(): the text before the first slash, without its last piece     *)
(* when underscores divide it.                                             *)
BaseName(name) == LET part == Pieces[name][1]
                  IN  IF Len(part) > 1 THEN Front(part) ELSE part

CustomSection(e) == e.suite
GoogleSection(e) == BaseName(e.op)
Section(e) == IF tool = "custom" THEN CustomSection(e) ELSE GoogleSection(e)

Heading(section)    == [is |-> "heading", section |-> section]
RowLine(section, r) == [is |-> "row", section |-> section, row |-> r]
Separator           == [is |-> "separator"]
EndTable            == [is |-> "end"]

Blank == [screen |-> << >>, markdown |-> << >>, rows |-> << >>]

Show(out, line)  == [out EXCEPT !.screen = Append(@, line)]
Write(out, line) == [out EXCEPT !.screen = Append(@, line), !.markdown = Append(@, line)]

(* Mutant of OpensTable: the sentinel of the first table alone is tested.  *)
OpensFirstTable(screen, section) == screen = << >>

(* While rows are printed the last line of the screen is a row.            *)
OpensTable(screen, section) == screen = << >> \/ Last(screen).section # section

OpenTable(out, section) ==
    Write(IF out.screen = << >> THEN out ELSE Show(out, EndTable), Heading(section))

(* drawGroupSeparatorIfNeeded(): only the custom tool draws a line where   *)
(* the method changes within a table.                                      *)
DrawsSeparator(screen, e) == tool = "custom" /\ Last(screen).row.op # e.op

MakeRoom(out, e) == IF OpensTable(out.screen, Section(e)) THEN OpenTable(out, Section(e))
                    ELSE IF DrawsSeparator(out.screen, e) THEN Show(out, Separator) ELSE out

(* printComparisonRow(): the row on the screen, in the markdown and for    *)
(* the JSON.                                                               *)
AddRow(out, section, r) == [Write(out, RowLine(section, r)) EXCEPT !.rows = Append(@, r)]

(* One turn of printRegression()'s loop, and the loop.                     *)
PrintEntry(out, e) == AddRow(MakeRoom(out, e), Section(e), Row(e, GetCns(cur, e)))

PrintEntries(entries) ==
    LET after[n \in 0 .. Len(entries)] ==
            IF n = 0 THEN Blank ELSE PrintEntry(after[n - 1], entries[n])
    IN  after[Len(entries)]

EndTables(screen) == IF screen = << >> THEN << >> ELSE Append(screen, EndTable)

-----------------------------------------------------------------------------
(* The command line.                                                       *)

Command(a) ==
    CASE a = <<"list">>                                      -> "list"
      [] Len(a) \in {1, 2} /\ a[1] = "methods"               -> "methods"
      [] a \in {<<"-h">>, <<"--help">>, <<"help">>}          -> "usage"
      [] OTHER                                               -> "compare"

StartsWithV(w)  == w \in DOMAIN Spelling /\ Spelling[w].v
HasVersion(w)   == Len(Spelling[w].numbers) = 3

(* tryParseVersionArg(): unlike parseBaseline() it insists on the v and on *)
(* nothing after the numbers.                                              *)
IsVersionArg(w) == StartsWithV(w) /\ HasVersion(w) /\ ~Spelling[w].more

VersionCount(a) ==
    IF Len(a) >= 1 /\ IsVersionArg(a[1])
    THEN IF Len(a) >= 2 /\ IsVersionArg(a[2]) THEN 2 ELSE 1
    ELSE 0

(* The words after the version tags, joined: the method filter.            *)
Filter(a) == SubSeq(a, VersionCount(a) + 1, Len(a))

IsMethodId(f)    == Len(f) = 1 /\ f[1] \in DOMAIN MethodIds
IsLetterGroup(f) == Len(f) = 1 /\ f[1] \in DOMAIN GroupLetters

(* groupMethodsByLetter(): one letter's methods in alphabetical order.     *)
Group(entries, letter) ==
    At(Methods, {i \in DOMAIN Methods : /\ Methods[i] \in OpsOf(entries)
                                        /\ LetterOf[Methods[i]] = letter})

(* Mutant of Begin: the report is opened, and emptied, before the work.    *)
BeginTruncating(a) ==
    /\ pc = "idle"
    /\ args' = a
    /\ Goto(IF Command(a) = "usage" THEN "done" ELSE Command(a))
    /\ json' = [new |-> TRUE, rows |-> << >>]
    /\ UNCHANGED <<disk, search, baseFile, curFile, wanted, data, writable, md>>

Begin(a) ==
    /\ pc = "idle"
    /\ args' = a
    /\ Goto(IF Command(a) = "usage" THEN "done" ELSE Command(a))
    /\ UNCHANGED <<disk, search, baseFile, curFile, wanted, data, reports>>

-----------------------------------------------------------------------------
(* Baselines.                                                              *)

CustomBelongs(n) == StartsWithV(n)

(* Mutant of GoogleBelongs: the folder's name alone decides.               *)
BelongsByName(n) == StartsWithV(n)
GoogleBelongs(n) == StartsWithV(n) /\ FileOf(n).state # "absent"

Belongs(n) == IF tool = "custom" THEN CustomBelongs(n) ELSE GoogleBelongs(n)

Mine == {n \in DOMAIN folders : Belongs(n)}

(* parseBaseline(): throws unless HasVersion(n), keeps the name.           *)
BaselineOf(n) == Append(Spelling[n].numbers, Spelling[n].rank)

(* Mutant of Newer: the order of the names as text.                        *)
NewerByText(m, n) == Spelling[m].rank > Spelling[n].rank

(* Baseline's defaulted <=>: major, minor, patch, then the name.           *)
Newer(m, n) ==
    LET a == BaselineOf(m)
        b == BaselineOf(n)
    IN  \E i \in 1 .. 4 : a[i] > b[i] /\ \A j \in 1 .. i - 1 : a[j] = b[j]

(* printList(): throws if any of the tool's folders has no version.        *)
ListBaselines ==
    /\ pc = "list"
    /\ Goto(IF \A n \in Mine : HasVersion(n) THEN "done" ELSE "failed")
    /\ UNCHANGED <<disk, search, request, data, reports>>

(* printMethods(): the versions to show, all of them or the one asked for. *)
ListMethods ==
    LET shown == IF Len(args) = 2 THEN {args[2]} ELSE Mine
        found == (\A n \in Mine : HasVersion(n)) /\ shown \subseteq Mine
    IN  /\ pc = "methods"
        /\ left' = IF found THEN shown ELSE left
        /\ Goto(CASE ~found -> "failed" [] shown = {} -> "done" [] OTHER -> "show")
        /\ UNCHANGED <<disk, newest, opened, request, data, reports>>

(* One file is read after the other, the oldest version first.             *)
ShowMethods(n) ==
    /\ pc = "show"
    /\ n \in left /\ \A m \in left \ {n} : Newer(m, n)
    /\ left' = left \ {n}
    /\ Goto(CASE ~Loads(n) -> "failed" [] left = {n} -> "done" [] OTHER -> "show")
    /\ UNCHANGED <<disk, newest, opened, request, data, reports>>

(* One or two tags: the last one is the baseline side.                     *)
ChooseNamed ==
    LET n == VersionCount(args)
    IN  /\ pc = "compare"
        /\ n > 0
        /\ baseFile' = args[n]
        /\ curFile' = IF n = 2 THEN args[1] ELSE Live
        /\ Goto("resolve")
        /\ UNCHANGED <<disk, search, args, wanted, data, reports>>

(* No tag: latestBaseline() opens the directory.                           *)
BeginScan ==
    /\ pc = "compare"
    /\ VersionCount(args) = 0
    /\ left' = DOMAIN folders
    /\ opened' = Mine
    /\ Goto("scan")
    /\ UNCHANGED <<disk, newest, request, data, reports>>

(* directory_iterator visits the folders in no particular order.           *)
ScanFolder(n) ==
    /\ pc = "scan"
    /\ n \in left
    /\ left' = left \ {n}
    /\ IF Belongs(n) /\ ~HasVersion(n)
       THEN Goto("failed") /\ UNCHANGED newest
       ELSE /\ newest' = IF Belongs(n) /\ (newest = NoName \/ Newer(n, newest))
                         THEN n ELSE newest
            /\ UNCHANGED pc
    /\ UNCHANGED <<disk, opened, request, data, reports>>

EndScan ==
    /\ pc = "scan"
    /\ left = {}
    /\ baseFile' = newest
    /\ curFile' = Live
    /\ Goto(IF newest = NoName THEN "failed" ELSE "resolve")
    /\ UNCHANGED <<disk, search, args, wanted, data, reports>>

-----------------------------------------------------------------------------
(* The filter, the comparison and the reports.                             *)

ResolveName ==
    LET f == Filter(args)
    IN  /\ pc = "resolve"
        /\ ~IsMethodId(f) /\ ~IsLetterGroup(f)
        /\ wanted' = IF f = << >> THEN {} ELSE {f}
        /\ Goto("loadBaseline")
        /\ UNCHANGED <<disk, search, args, baseFile, curFile, data, reports>>

(* resolveMethodId() and resolveLetterGroup() read the baseline's file     *)
(* themselves; main() reads it again afterwards.                           *)
ResolveMethodId ==
    LET f     == Filter(args)
        id    == MethodIds[f[1]]
        group == Group(FileOf(baseFile).entries, id.letter)
        found == Loads(baseFile) /\ id.index \in 1 .. Len(group)
    IN  /\ pc = "resolve"
        /\ IsMethodId(f)
        /\ wanted' = IF found THEN {group[id.index]} ELSE wanted
        /\ Goto(IF found THEN "loadBaseline" ELSE "failed")
        /\ UNCHANGED <<disk, search, args, baseFile, curFile, data, reports>>

ResolveLetterGroup ==
    LET f     == Filter(args)
        group == Group(FileOf(baseFile).entries, GroupLetters[f[1]])
        found == Loads(baseFile) /\ group # << >>
    IN  /\ pc = "resolve"
        /\ IsLetterGroup(f)
        /\ wanted' = IF found THEN {group[i] : i \in DOMAIN group} ELSE wanted
        /\ Goto(IF found THEN "loadBaseline" ELSE "failed")
        /\ UNCHANGED <<disk, search, args, baseFile, curFile, data, reports>>

LoadBaseline ==
    /\ pc = "loadBaseline"
    /\ base' = FileOf(baseFile).entries
    /\ Goto(IF Loads(baseFile) THEN "loadCurrent" ELSE "failed")
    /\ UNCHANGED <<disk, search, request, cur, tables, reports>>

LoadCurrent ==
    /\ pc = "loadCurrent"
    /\ cur' = FileOf(curFile).entries
    /\ Goto(IF Loads(curFile) THEN "filter" ELSE "failed")
    /\ UNCHANGED <<disk, search, request, base, tables, reports>>

KeepWanted(entries) == At(entries, {i \in DOMAIN entries : entries[i].op \in wanted})

(* Mutant of ApplyMethodFilter: only the baseline side is looked at.       *)
FilterBaselineOnly ==
    /\ pc = "filter"
    /\ base' = IF wanted = {} THEN base ELSE KeepWanted(base)
    /\ cur'  = IF wanted = {} THEN cur  ELSE KeepWanted(cur)
    /\ Goto(IF wanted # {} /\ base' = << >> THEN "failed" ELSE "compare rows")
    /\ UNCHANGED <<disk, search, request, tables, reports>>

(* Both overloads: a side left with nothing is an error.                   *)
ApplyMethodFilter ==
    /\ pc = "filter"
    /\ base' = IF wanted = {} THEN base ELSE KeepWanted(base)
    /\ cur'  = IF wanted = {} THEN cur  ELSE KeepWanted(cur)
    /\ Goto(IF wanted # {} /\ << >> \in {base', cur'} THEN "failed" ELSE "compare rows")
    /\ UNCHANGED <<disk, search, request, tables, reports>>

PrintRegression ==
    /\ pc = "compare rows"
    /\ LET out == PrintEntries(base)
       IN  /\ rows' = out.rows
           /\ markdown' = out.markdown
           /\ printed' = EndTables(out.screen)
    /\ Goto("exportJson")
    /\ UNCHANGED <<disk, search, request, base, cur, reports>>

(* Mutant of ExportJson: nothing to report leaves the old file in place.   *)
ExportJsonUnlessEmpty ==
    /\ pc = "exportJson"
    /\ writable' \in BOOLEAN
    /\ json' = IF writable' /\ rows # << >> THEN [new |-> TRUE, rows |-> rows] ELSE json
    /\ Goto("exportMarkdown")
    /\ UNCHANGED <<disk, search, request, data, md>>

(* Both exports return in silence when their file cannot be opened.        *)
ExportJson ==
    /\ pc = "exportJson"
    /\ writable' \in BOOLEAN
    /\ json' = IF writable' THEN [new |-> TRUE, rows |-> rows] ELSE json
    /\ Goto("exportMarkdown")
    /\ UNCHANGED <<disk, search, request, data, md>>

Report(tally) == [new |-> TRUE, lines |-> markdown, tally |-> tally]

(* Mutant of ExportMarkdown: written before printSummary() has run.        *)
ExportBeforeSummary ==
    /\ pc = "exportMarkdown"
    /\ md' = IF writable THEN Report(Tally(<< >>)) ELSE md
    /\ Goto("done")
    /\ UNCHANGED <<disk, search, request, data, writable, json>>

ExportMarkdown ==
    /\ pc = "exportMarkdown"
    /\ md' = IF writable THEN Report(Tally(rows)) ELSE md
    /\ Goto("done")
    /\ UNCHANGED <<disk, search, request, data, writable, json>>

-----------------------------------------------------------------------------
(* Other programs.                                                         *)

Edit == edits < MaxEdits /\ edits' = edits + 1

(* mkdir of the workflow's snapshot step; a visit of the directory that is *)
(* under way may or may not come across the folder.                        *)
MakeFolder(n) ==
    /\ Edit
    /\ n \notin DOMAIN folders
    /\ folders' = [m \in DOMAIN folders \cup {n} |-> IF m = n THEN Absent ELSE folders[m]]
    /\ left' \in IF pc = "scan" THEN {left, left \cup {n}} ELSE {left}
    /\ UNCHANGED <<tool, live, pc, newest, opened, request, data, reports>>

Store(f, file) == IF f = Live
                  THEN live' = file /\ UNCHANGED folders
                  ELSE folders' = [folders EXCEPT ![f] = file] /\ UNCHANGED live

(* A file is opened for writing, and so emptied, and later complete.       *)
StartWrite(f) ==
    /\ Edit
    /\ FileOf(f).state # "partial"
    /\ Store(f, Truncated)
    /\ UNCHANGED <<tool, pc, search, request, data, reports>>

FinishWrite(f, s) ==
    /\ Edit
    /\ FileOf(f).state = "partial"
    /\ Store(f, Whole(s))
    /\ UNCHANGED <<tool, pc, search, request, data, reports>>

Files(t) == {Absent, Truncated} \cup {Whole(s) : s \in Snapshots[t]}

Init == /\ tool \in {"custom", "google"}
        /\ \E present \in SUBSET Names : folders \in [present -> Files(tool)]
        /\ live \in Files(tool) /\ writable = TRUE
        /\ edits = 0 /\ pc = "idle" /\ args = << >>
        /\ left = {} /\ newest = NoName /\ opened = {}
        /\ baseFile = NoName /\ curFile = NoName /\ wanted = {}
        /\ base = << >> /\ cur = << >> /\ rows = << >> /\ markdown = << >> /\ printed = << >>
        /\ json = [new |-> FALSE, rows |-> << >>]
        /\ md = [new |-> FALSE, lines |-> << >>, tally |-> Tally(<< >>)]

ToolStep ==
    \/ \E a \in ArgLists : Begin(a)
    \/ ListBaselines \/ ListMethods \/ (\E n \in left : ShowMethods(n))
    \/ ChooseNamed \/ BeginScan \/ (\E n \in left : ScanFolder(n)) \/ EndScan
    \/ ResolveName \/ ResolveMethodId \/ ResolveLetterGroup
    \/ LoadBaseline \/ LoadCurrent \/ ApplyMethodFilter \/ PrintRegression
    \/ ExportJson \/ ExportMarkdown

OthersStep ==
    \/ \E n \in Names : MakeFolder(n)
    \/ \E f \in DOMAIN folders \cup {Live} :
          StartWrite(f) \/ \E s \in Snapshots[tool] : FinishWrite(f, s)

Ended == pc \in {"done", "failed"}

Next == ToolStep \/ (~Ended /\ OthersStep)

Spec == Init /\ [][Next]_vars
-----------------------------------------------------------------------------

RowLines(lines) == {i \in DOMAIN lines : lines[i].is = "row"}

(* Line i is the place-th row.                                             *)
PlaceOf(lines, i) == Cardinality({j \in RowLines(lines) : j <= i})

(* The rows among the lines are rs, in their order.                        *)
Shows(lines, rs) ==
    /\ Len(rs) = Cardinality(RowLines(lines))
    /\ \A i \in RowLines(lines) : lines[i].row = rs[PlaceOf(lines, i)]

FileNames == Names \cup {w \in DOMAIN Spelling : IsVersionArg(w)} \cup {NoName}

TypeOK ==
    /\ DOMAIN folders \subseteq Names
    /\ \A n \in DOMAIN folders : folders[n] \in Files(tool)
    /\ live \in Files(tool) /\ writable \in BOOLEAN /\ edits \in 0 .. MaxEdits
    /\ left \subseteq Names /\ opened \subseteq Names /\ newest \in Names \cup {NoName}
    /\ baseFile \in FileNames /\ curFile \in FileNames \cup {Live}
    /\ \A e \in ToSet(base) \cup ToSet(cur) :
          e.op \in ToSet(Methods) /\ e.iter \in Nat /\ e.ns \in Nat
    /\ \A r \in ToSet(rows) : r.base \in Nat /\ r.cur \in Nat
    /\ \A v \in DOMAIN md.tally :
          md.tally[v] = Cardinality({i \in RowLines(md.lines) : md.lines[i].row.verdict = v})

Compared == pc = "done" /\ Command(args) = "compare"

(* "exits without writing a report": a run that ends in an error, at       *)
(* whichever of its reads, has not touched the reports of earlier runs.    *)
FailedRunWritesNothing == pc = "failed" => ~json.new /\ ~md.new

(* "Every run (except list and methods) writes" both reports, and what     *)
(* they hold is this run's comparison, also when there was nothing to      *)
(* compare; the markdown report has the rows of the JSON one.              *)
EveryRunWritesReports ==
    Compared /\ writable =>
        /\ json = [new |-> TRUE, rows |-> rows]
        /\ md.new /\ Shows(md.lines, rows)

(* The version a name stands for, as one number.                           *)
Weight(n) == LET v == Spelling[n].numbers IN 10000 * v[1] + 100 * v[2] + v[3]

Automatic == VersionCount(args) = 0 /\ baseFile # NoName

(* Without a tag the run compares with the newest version, v1.10.0 rather  *)
(* than v1.9.0, whatever the order of the visit and whatever folder is     *)
(* added meanwhile.                                                        *)
NewestChosen == Automatic => /\ StartsWithV(baseFile)
                             /\ \A n \in opened : Weight(n) <= Weight(baseFile)

(* The Google tool compares with a folder only once its own snapshot is    *)
(* there, so a folder that is still being filled does not end the run.     *)
FolderWithoutSnapshotSkipped ==
    tool = "google" /\ Automatic => folders[baseFile].state # "absent"

(* A figure printed for the current side was measured by the benchmark of  *)
(* the row; for the custom tool, with the same number of iterations.       *)
RowsCompareLikeWithLike ==
    \A i \in DOMAIN rows :
       rows[i].cur # 0 =>
          \E j \in DOMAIN cur : /\ cur[j].op = rows[i].op /\ cur[j].ns = rows[i].cur
                                /\ tool = "custom" => cur[j].iter = rows[i].iter

(* A run that was asked for one method, or for the group of a letter, ends *)
(* without an error only if both sides had some of it, "rather than        *)
(* silently comparing nothing", and it reports those methods alone, also   *)
(* when the files changed after the word was resolved.                     *)
FilterNeedsBothSides ==
    LET f == Filter(args)
    IN  Compared /\ f # << >> =>
            /\ base # << >> /\ cur # << >>
            /\ OpsOf(base) \cup OpsOf(cur) \subseteq wanted
            /\ {rows[i].op : i \in DOMAIN rows} = OpsOf(base)
            /\ IsMethodId(f) =>
                  \E m \in wanted : wanted = {m} /\ LetterOf[m] = MethodIds[f[1]].letter
            /\ IsLetterGroup(f) => \A m \in wanted : LetterOf[m] = GroupLetters[f[1]]

(* The section a printed row belongs to by its own fields.                 *)
OwnSection(r) == IF tool = "custom" THEN r.suite ELSE BaseName(r.op)

(* The heading at h is the last one before line i.                         *)
Heads(lines, h, i) ==
    lines[h].is = "heading" /\ \A k \in h + 1 .. i - 1 : lines[k].is # "heading"

(* Line i of the screen: a row stands in a table of its own section, a     *)
(* table is opened for another section than the one before it and has a    *)
(* row, a separator stands between rows.                                   *)
LineFits(lines, i) ==
    LET l == lines[i] IN
    /\ l.is \in {"heading", "separator"} => lines[i + 1].is = "row"
    /\ l.is = "row" =>
          /\ lines[i - 1].is # "end" /\ lines[i + 1].is # "heading"
          /\ \E h \in 1 .. i - 1 : Heads(lines, h, i) /\ lines[h].section = OwnSection(l.row)
    /\ l.is = "heading" /\ i > 1 =>
          /\ lines[i - 1].is = "end"
          /\ \E h \in 1 .. i - 1 : Heads(lines, h, i) /\ lines[h].section # l.section

(* "grouped and re-headered": the tables on the screen are all opened and  *)
(* closed, none is empty, neighbours are of different sections, every row  *)
(* stands in a table of its own section; and the rows on the screen are    *)
(* the baseline's entries, each once, in the baseline's order.             *)
SectionsHoldTheirRows ==
    /\ Len(rows) > 0 => printed[1].is = "heading" /\ Last(printed).is = "end"
    /\ \A i \in DOMAIN printed : LineFits(printed, i)
    /\ Shows(printed, rows)
    /\ rows # << >> => [i \in DOMAIN rows |-> <<rows[i].op, rows[i].base>>] =
                       [i \in DOMAIN base |-> <<base[i].op, base[i].ns>>]

-----------------------------------------------------------------------------
(* What the documents say and the code does not do.                        *)

(* printSummary(): "how many the current side won".  A row the current     *)
(* side won was run by the current side.                                   *)
FasterWasMeasured ==
    \A i \in DOMAIN rows :
       rows[i].verdict = "faster" =>
          \E j \in DOMAIN cur : Matches(cur[j], rows[i])
=============================================================================
