# RateThrottle in TLA+

A formal model of the RateThrottle repository (namespace `ThrottlePro`): TLA+
modules translated from its sources, TLC configurations that check them on
small instances, and theorems that TLAPS proves for every value of the
constants. Paths below are relative to the repository's root.

1. [The system](#1-the-system)
2. [Modules](#2-modules)
3. [What TLC checks](#3-what-tlc-checks)
4. [Where the documents and the code part](#4-where-the-documents-and-the-code-part)
5. [What is proved](#5-what-is-proved)
6. [Fairness](#6-fairness)
7. [What is not modelled](#7-what-is-not-modelled)
8. [Plan](#8-plan)

## 1. The system

### Components

| component | source | state | operations |
|---|---|---|---|
| `RateLimiter` | `include/ThrottlePro/RateLimiter.h`, `src/ThrottlePro/RateLimiter.cpp` | limit, window length, `mutex_`, `cache_`: key -> `RateLimitWindow{windowStart, count}` | constructor, `allow(key, now = steady_clock::now())` |
| `CachePro::LRUCache` | git submodule, not in the tree | bounded map in order of use | `get` (live pointer, promotes), `put` (inserts or overwrites, evicts at capacity) |
| fuzz harness | `fuzz/fuzz_rate_limiter.cpp` | a steady and an overflow limiter, a shadow map, a synthetic clock | one iteration per input byte, abort on disagreement |
| custom test, benchmark, example programs | `tests/custom`, `benchmarks/custom`, `examples` | registry, per-category counters; test counters and redirected `std::cout`; tables, tally, results, markdown buffer | register at static initialization, select by name / id / category, run, report, export |
| their suites | `*/suite/**` | one limiter per case | calls of `allow()`; the contention suite and two tests start threads |
| google tests and benchmarks | `tests/google`, `benchmarks/google` | in libraries outside the tree | the same calls of `allow()` |
| regression tools | `regression/custom`, `regression/google` | baseline folders, live results, rows, two reports | `list`, `methods`, compare with filters, export |
| package updater | `scripts/update_package_files.py` | five package files | rewrite version, commit, hash |
| workflows | `.github/workflows` | branches, pull requests | `update.yml` on a tag, snapshot step of `benchmark.yml`, builds |

### Interactions

- `RateLimiter` owns one cache and one mutex; `allow()` is one critical section.
  `now` is read by the *caller*, before the lock. `get()` returns a pointer into
  the cache which `allow()` reads and increments later in the same section.
- The harness drives two limiters and its own map with the same clock.
- The suites are callers of `allow()`. A program runs one suite at a time;
  suites register themselves from static initializers in an order C++ leaves open.
- The benchmarks write `benchmarks/results/*`; a regression tool reads those and
  `benchmarks/baselines/<tag>/*`, which the benchmark workflow fills, and writes
  `regression/results/*`. Nothing locks these files.
- A tag starts `update.yml` (which runs the updater) and `benchmark.yml`; both
  push a branch and open a pull request that GitHub merges by itself.

### What is hard

Threads that wait at the mutex with an old stamp; a pointer into a cache that
evicts; stamps that go back; the boundary tick and the limit of zero; which key
is forgotten, denied calls included; files replaced between two reads; tests that throw
while their output is redirected; tables shared by two kinds of rows; overlapping
jobs, reruns and merges. `PROJECT.json` lists 40 such hazards with their lines
and the properties that cover each, or why none does.

### What makes each part correct

- limiter: a window never lets more than the limit through; nobody is refused
  while its window has room; a key restarts early only after real eviction; at a
  boundary at most twice the limit passes for stamps in order.
- limiter under threads: calls are decided as if each ran alone; live pointers
  stay live; every call returns.
- harness: it never aborts, because limiter and shadow agree.
- suites: they are told what they say they are told.
- programs: exactly the suites asked for run; what failed is reported; tables are well formed, and an export
  that was written holds what was measured.
- regression tool: it takes the newest usable baseline, compares like with like,
  lays them out under their sections, and leaves the reports alone when it fails.
- publication: the package files of one branch belong to one tag; reruns settle; a
  merge into main brings in what its job made and takes nothing back; what cannot be
  merged was overtaken.

## 2. Modules

```
LRUCache <- RateLimiter
   ^            |  '- refines -> FixedWindow            (IsFixedWindow, run in FuzzHarness)
   |            |<- refined by - RateLimiterThreads     (CallsAreAtomic)
   |            |<- L(s) ------- Callers = Scripts + ContentionBench
   '------------'<- instanced by FuzzHarness  (with FixedWindow beside it)
SuiteDriver <- TestCases, BenchTables <- Frameworks
RegressionTool           Publication

LRUCache <- LRUCacheProofs        (lemmas on get and put)
                 ^
RateLimiter <- RateLimiterProofs
                 ^ instance, twice      ^ instance
FuzzHarness <- FuzzProofs      RateLimiterThreads <- ThreadsProofs
Callers <- CallersProofs       RegressionTool <- RegressionProofs
Frameworks <- FrameworksProofs Publication <- PublicationProofs
```

| module | models | correspondence |
|---|---|---|
| `LRUCache` | `CachePro::LRUCache` (external, from its use) | a sequence of entries, most recently used first; `Get`, `Put` |
| `RateLimiter` | the class, one step per call | `DenyZeroLimit`, `OpenWindow`, `CountRequest`, `DenyFullWindow` are the four ways through `allow()`; the constructor is `Init`. `log` is a history of calls, stamps and outcomes, on which the properties are stated |
| `FixedWindow` | `shadowAllow()` | the abstract specification: a map that never evicts |
| `RateLimiterThreads` | `allow()` with the default `now`, by threads | `Enter` reads the clock, then one step per lock, cache access, load, store, unlock |
| `FuzzHarness` | `LLVMFuzzerTestOneInput` | one step per byte: advance, pick the branch, call, compare or abort |
| `Scripts` | the suites' calls | one definition per suite file: calls with the outcomes the suite states; the google benchmarks with an iteration count of their own |
| `ContentionBench` | `benchmarks/custom/suite/access/contention.cpp` and its google twin | background loops, relaxed flag, timed calls, joins, end of the locals |
| `Callers` | all of these on `RateLimiter` | picks a script (or the contention benchmark) and replays it |
| `SuiteDriver` | registries and `main()` of the three programs | `Register`, `Main`, the loop `Visit` / `EndVisit`, `Replay` of the examples |
| `TestCases` | `RUN`, `CHK*`, counters, redirection of `std::cout` | a test is any sequence of passing and failing checks, and may throw |
| `BenchTables` | `BENCH*` macros, tables, tally, exports | a suite is any sequence of macro calls, the two kinds of table mixed |
| `Frameworks` | the three programs | driver with the suites of its kind |
| `RegressionTool` | both regression tools | `tool` selects the functions in which they differ; the loop of `printRegression()` (`PrintEntry`, `PrintEntries`) writes the screen, the markdown and the recorded rows entry by entry, each as a sequence (lines are headings, rows, separators and ends); a step is one read of the disk or what lies between two; `MakeFolder`, `StartWrite`, `FinishWrite` are the other programs |
| `Publication` | updater, `update.yml`, snapshot step, GitHub | one step per file rewritten and per network call; any of these may fail |
| `*Proofs` | | the theorems of section 5, each module about the one it extends |
| `MC*` | | values of constants and symmetry sets for TLC |

A definition introduced as "Mutant of X" is a plausible bug in X. No
specification uses it; put in X's place it breaks the property `PROJECT.json`
names, which shows that the property can fail.

## 3. What TLC checks

All runs pass except the four marked, which are section 4. Counts are distinct states.

| run | instance | states | shows |
|---|---|---|---|
| `limiter_eviction` | 3 keys, capacity 2, limits 0 and 2, window 2, stamps 0..3 in any order, 6 calls, keys symmetric | 1.09M | quota, accounting, justified denials, eviction order, frame and succession of windows; burst at most double where stamps are in order and no key is evicted |
| `threads_eviction` | 2 threads of 2 calls, 2 keys, capacity 1, limits 0 and 2, window 1, clock to 1 | 14k | live pointers, atomicity (refinement of `RateLimiter`), termination of every call |
| `threads_shared_key` | 3 threads of 3 calls, 1 key, limit 2, window 1, clock to 2, threads symmetric | 443k | what stale stamps can do: openings stay spaced, burst at most `2 * limit + threads - 1` |
| `threads_stale_now` (violated) | 2 threads, 1 key | | the documented `2x` is exceeded |
| `fuzz_harness` | capacity 2, limits 0 and 2, window 3, one byte of each of the 13 kinds, 5 bytes | 443k | no abort, refinement of `FixedWindow`, overflow keeps the latest keys |
| `callers` | every suite; 7 rounds per custom and 16 per google benchmark, 3 threads of 2 calls and 2 of 4 in the threaded tests; contention with 2 workers, limit 3, 2 timed calls | 962 | suites get the answers they state (one of them only until its limit is used up); the contention benchmark ends and leaves nobody behind |
| `contention_branch` (violated) | the same | | calls of the contention benchmark are refused |
| `regression_compare` | 3 folders (`v1.9.0`, `v1.10.0`, `vnext`), 3 result lists per tool, 17 command lines, 2 outside edits | 1.25M | choice of baseline, rows, tables, filters, reports |
| `regression_missing_row` (violated) | no edits | | a row the current side lacks counts as won |
| `suite_programs` | 3 files in 2 directories, 6 words, tests of up to 2 checks, 3 macro calls per suite | 1.19M | selection, failure reports, counters, tables, exports |
| `tests_exit_zero` (violated) | the test program alone | | failures do not reach the exit code |
| `publication` | 3 jobs, 2 tags on main and 1 on a release branch, 4 states of the package, jobs and the tags of main symmetric | 398k | files agree, reruns, settled tags, what a merge changes, what keeps a request from merging |

Why the bounds are enough to see the cases:

- *Keys, capacity*: three keys in two places is the least with eviction of a key
  other than the one inserted and a choice of which. Behaviours
  of the same instance with two keys only never evict, which is what `BurstBound`
  is about; `FixedWindow` is refined by the harness's steady limiter, which has as
  many keys as places. Capacity one lets a thread evict another's window.
- *Stamps*: with length 2, stamps 0..3 contain "inside", "the boundary tick" and
  "before", and a full window on each side of a boundary with a tick to spare. Six
  calls fill a window twice, evict it and refill it.
- *Limits*: 0 is the special case; 2 is the least at which first, last and refused
  request differ.
- *Threads*: the burst bound needs a thread with an old stamp for each surplus
  call, hence three threads there; two suffice for atomicity.
- *Bytes*: a byte acts through its remainders by 4, 16, the capacity and, if it is a
  multiple of 4, by 5; with capacity two that makes 13 kinds, each of which occurs. The harness's capacity and limit are
  `CacheCapacity` and the two values of `Limits`; five steps reach eviction,
  expiry and denial.
- *Rounds*: a benchmark repeats one expression; 7 rounds reach its branch and stay
  there. `NewKeyCapacity` and `WithinWindowRequestsPerWindow` keep to
  `RoundsFit`, the relation the suite's comment states (1.2 and 2 million against
  1.11 million rounds). The 16 rounds of the google suites exceed both, as the
  library's counts do in the committed baseline. The threaded tests keep "more calls than the limit".
- *Folders*: `v1.9.0` follows `v1.10.0` as text, `vnext` is a tag without version;
  the word `1.9.0` is a version without the `v` and so the name of a method.
- *Result lists*: two sections, two methods in one of them, two tiers of one method;
  for the Google tool two repetitions and the mean that belongs to their section.
- *Jobs and tags*: three jobs give two overlapping ones and a rerun, or two tags and a
  rerun. With two tags on main their files meet there: the second request is based on a
  main without the first, and conflicts, or on one with it, and replaces it; a rerun of
  the first may then take the files back to its version. The third tag is on a branch
  that the jobs do not start from.
- *Exports*: each of a benchmark run's two files is opened or not, so all four cases occur.
- *Deadlock* checking is off: all these programs end, or their bound stops them.

## 4. Where the documents and the code part

Checked, each by a run that TLC must find violated:

1. `BurstAtMostDouble`. `examples/suite/advanced/boundary_burst_behavior.cpp:8`
   says of the burst "bounded at exactly 2x, never more". That holds for
   stamps in order (`BurstBound`). With the default `now`, read before the lock,
   a thread overtaken at the mutex is counted in a window that began after its
   stamp. How far this can go is bounded by `StaleBurstBound`.
2. `FasterWasMeasured`. `getCns()` answers 0.0 for a row the current results lack,
   the percentage is then infinite, and the summary counts the row as faster.
3. `FailuresFailTheProgram`. `tests/custom/README.md:114-116` says CTest reports
   pass or fail; `test_main.cpp` returns 0 also when checks failed.
4. `NoThreadDenied`. `contention.cpp:32-34` (custom; google `:24-26`) says that no
   thread's call reaches the deny branch. Nothing bounds the background calls: in the
   model they use the limit up while the benchmark still times. The committed baseline
   makes it likely for the real one, 1,341,680 timed calls beside four such threads
   and a limit of 2,000,000.

Seen while modelling and not run:

- The JSON report of a regression prints `inf` for such a row
  (`regression/custom/support/export.h:36`), which is not JSON.
- `latestBaseline()` puts `v1.10.0-rc1` after `v1.10.0` (`helpers.h:92`), unlike the
  "semantic version" of `README.md:317`; `list` shows the candidate but
  `tryParseVersionArg()` (`helpers.h:412`) does not take it as an argument.
- `regression/custom/README.md:111-113` puts the reports in `benchmarks/results/`; the
  code writes `regression/results/` (`export.h:12`) while `benchmark.yml:225-235`
  uploads from `benchmarks/results`. If the directory is missing, both exports return in
  silence and the tool exits 0, against "Every run ... writes" in the same lines;
  `EveryRunWritesReports` speaks of runs that can open their files.
- Running one benchmark suite overwrites the live results, so every other row of
  the baseline then compares as "faster" (see 2).
- `capacity_scaling.cpp:17-18` speaks of steady-state eviction at the large capacity:
  of 1,110,000 calls only the last 110,000 evict there. The script `capacity_scaling`
  has both capacities.
- `benchmarks/google/suite/core/allow.cpp:28-33` calls its capacity and limit
  "comfortably above any single benchmark's iteration count", so that "the limit is never
  reached in the "within window" case". The library tunes that count: `gv1.0.0.json` has
  3,965,439 new keys for a capacity of 1,200,000 and 14,655,880 calls of
  `AllowWithinWindow` for a limit of 2,000,000, so six out of seven of them were denials.
  `benchmarks/google/suite/README.md:119-129` knows of the cause, and names benchmarks that
  make a key per iteration. The script `within_window` states the answers of the comment;
  `ExpectationsMet` holds it to them until the limit is used up (`LimitUsedUp`).
- With a letter as filter each side needs some method of the group, not a common one:
  if they share none, every row has no current figure (see 2).
- `formatMagnitude()` "never grows past 5 significant digits" (`helpers.h:642-650`):
  999.999 us is printed as `1000.00`.
- `regression/google/support/helpers.h:695` says times are "always reported in ns by
  `loadResults()`"; it does not look at `time_unit`. No benchmark in the tree sets another.
- `fuzz_rate_limiter.cpp:48-50` says the zero limit is tried on "keys with an existing
  window"; a limiter whose limit is zero never stores one (`allow()`
  returns at `RateLimiter.cpp:45-47`, before `put()`).
- `README.md:318-319` announces report names such as `regression_v1.2.0_vs_current.md`;
  the tools always write the same two names.
- `custom_time_source.cpp:38-41` says calls handled out of order are seen "in logical
  arrival order"; the limiter decides in the order of the calls, and a window then
  starts at the later stamp (the script `custom_time_source` opens it so).
- `update.yml:3-5` announces a bump of the package files. For a tag on another branch than
  main the commit is made on main all the same (`:52`) and proposed to that branch
  (`:184`), with all that main has and that branch has not, baseline folders for one;
  `benchmark.yml:138-141` names this as what must not happen to its own request. The model has
  it; `MergesBringOwnFiles` is therefore stated of requests against main.
- `benchmark.yml:187-190` means a rerun to "overwrite it rather than fail". The push does;
  `gh pr create` (`:193`) then fails where the first run left its request open, which the
  rerun therefore never arms. `update.yml:179-186` looks first (`RerunToleratesOpenRequest`).
- `re.sub` on `conanfile.py` is not counted: without the field the
  file is silently left. A Google result file cut short (`benchmark.yml:86` goes on
  after an error) may become a baseline.

## 5. What is proved

41 theorems, for every value of the constants the modules' `ASSUME`s admit. They state
31 of the 33 invariants the passing runs check and five of their seven temporal properties, all
but the two liveness ones. "Run" in the tables: the property is also checked by TLC.

### RateLimiter

For every set of keys, finite or infinite, every capacity above zero, every set of
limits, *every integer window length* (zero and negative ones too), every set of
integer stamps in any order, and every bound on calls.

| theorem | statement | run |
|---|---|---|
| `CacheAlwaysSound`, `LimiterTypeOK` | `Spec => [](TypeOK /\ CacheSound)` | yes |
| `CallsKeepToTheirWindow` | `Spec => OnlyOwnWindowChanges` | yes |
| `WindowsFollowOneAnother` | `Spec => WindowsSucceed` | yes |
| `AccountsAreExact`, `QuotaHolds` | `Spec => []WindowAccounting`, `Spec => []WindowQuota` | yes |
| `RoomyLimiterIsFixedWindow` | `RoomForAllKeys => (Spec => IsFixedWindow)` | through the harness |
| `DenialsAreJustified` | `Spec => []DenialJustified` | yes |
| `ForgetsLeastRecentlyCalled` | `Spec => []RecentKeysAreKept` | yes |
| `RestartsNeedEviction` | `Spec => []RestartOnlyAfterEviction` | yes |
| `BurstIsBounded` | `WindowDuration # 0 => (Spec => []BurstBound)` | yes |

- `CacheInv`, the conjunction of `TypeOK` and `CacheSound`, is inductive. The lemmas of
  `LRUCacheProofs` say of `Get` and `Put` that they keep a cache well formed, which
  entries they keep and in which order; `OpenWindowEffect` and its companions say what each branch
  of `allow()` makes of that.
- `WindowQuota` is not inductive: it speaks of the history, and from a state whose
  stored count lags behind it the next `CountRequest` would break it. The strengthening is
  `QuotaInv == CacheInv /\ WindowAccounting /\ WindowQuota`. That a stored entry
  counts the very calls the history has for its window carries the guard `count < limit`
  over to the history; a window of another key, or one already replaced, counts nothing new.
  `DenialJustified` follows from the same accounts.
- `RecentKeysAreKept` ties the order of the cache to the last calls in the log; with it
  `RestartOnlyAfterEviction` is a counting argument: the key was in front after its
  call, so what pushed it out was called since, one key for each place.
- `BurstIsBounded` rests on `BurstInv`, four invariants on the log of a limiter that has
  forgotten nothing: windows of a key start a length apart, and a call counted in one
  has a stamp inside it. A span then meets at most two windows. A length of zero is
  excluded because the bound is false there: each call opens a window of its own.
- `RoomyLimiterIsFixedWindow` maps each branch of `allow()` to a branch of the
  unbounded limiter. `RoomForAllKeys` (no more keys than places) is needed as eviction
  restarts windows.

### Threads

For any finite set of threads, calls, clock bound, keys (at least one) and capacity.

| theorem | statement | run |
|---|---|---|
| `ThreadsTypeOK` | `Spec => []TypeOK` | yes |
| `PointersStayLive` | `Spec => []PointerLive` | yes |
| `CallsTakeEffectAtOnce` | `Spec => CallsAreAtomic` | yes |
| `ThreadsKeepQuota` | `Spec => []RL!WindowQuota` | |
| `OpeningsStaySpaced` | `RoomForAllKeys /\ WindowDuration >= 0 => (Spec => []OpeningsSpaced)` | yes |
| `StaleBurstIsBounded` | `RoomForAllKeys /\ WindowDuration # 0 => (Spec => []StaleBurstBound)` | yes |

`ThreadsInv` says that at most one thread is between lock and unlock, that the cache is
as the last call left it while nobody is, and for the thread inside how far from there
it has come (`Progress`). Every step is then a stutter of `RateLimiter` or, at the one
place where the call is decided, a whole call of it: the refinement mapping is
`committed`, the cache as of the last decision. Through the refinement the invariants of
`RateLimiterProofs` hold of concurrent callers, the quota among
them. For `StaleBurstBound` a further invariant, `StampsLag`, attributes each call of the log to a
thread: a thread reads the clock after its last call was decided, so its stamp is no
older than any decided up to then. Once a call from after the span has been decided, each
other thread can therefore add one stale call to it and no second. The two hypotheses are those
of the run, whose key is alone and whose length is 1.

### Fuzz harness

For every capacity and limit from 1 and 0 to 8 and every length from 1 to 200 (the
ranges the harness draws from), any bytes and any number of them.

| theorem | statement | run |
|---|---|---|
| `HarnessNeverAborts` | `Spec => []NeverAborts` | yes |
| `ShadowStaysExact` | `Spec => []ShadowIsExact` | |
| `SteadyHalfIsFixedWindow` | `Spec => SteadyIsFixedWindow` | yes |
| `OverflowForgetsOldest` | `Spec => []OverflowKeepsLatest` | yes |

`FuzzInv` has `CacheInv` of both limiters, `ShadowIsExact`, and `NewestFirst`: place `p` of
the overflow cache holds the `p`-th latest key. That there are never more steady keys than
places, the harness's own premise, comes from its `% cap`.

### Contention benchmark

| theorem | statement | run |
|---|---|---|
| `LimiterOutlivesItsUse` | `Spec => []NoUseAfterReturn` | yes |

For any background threads and number of timed calls, by `BenchInv`: a thread is inside
`allow()` exactly if it owns the mutex, and the joins leave every thread done.

### Regression tools

For all names and spellings, folders, files, command lines, and all interleavings with
the programs that write the same files.

| theorem | statement | run |
|---|---|---|
| `NoNewerBaseline` | `Spec => [](Automatic => \A n \in opened : ~Newer(n, baseFile))` | |
| `NewestBaselineChosen` | `SmallVersions => (Spec => []NewestChosen)` | yes |
| `HalfMadeFolderIsPassedOver` | `Spec => []FolderWithoutSnapshotSkipped` | yes |
| `FailureLeavesReports` | `Spec => []FailedRunWritesNothing` | yes |
| `ReportsHoldWhatWasPrinted` | `Spec => []ReportsAreThisRuns` | in part |
| `BothReportsAreWritten` | `Spec => []EveryRunWritesReports` | yes |
| `TypesAreOK` | `Spec => []TypeOK` | yes |
| `LikeIsComparedWithLike` | `Spec => []RowsCompareLikeWithLike` | yes |
| `FilteredRunsCompareBothSides` | `Spec => []FilterNeedsBothSides` | yes |
| `TablesHoldTheirRows` | `Spec => []SectionsHoldTheirRows` | yes |

- `ScanInv`: the candidate is the newest of what the visit has seen, and `Newer` is
  transitive and never holds both ways, so replacing the candidate loses nobody. `NewestChosen`
  says the same through one number in base 100, hence `SmallVersions` (no number above 99),
  which `NoNewerBaseline` does without.
- `ReportsInv`: reports are written last, in one order, from the rows printed.
- `WantedInv`: once the filter word is resolved, what is wanted is not empty and has the
  letter asked for; once the filter is applied, both sides hold something and nothing else. It
  has to speak of the state rather than of the files, which change between the read that
  resolves the word and the reads that are compared.
- `TablesInv`: before `PrintRegression` there are no tables, after it they are the
  baseline's (`TablesOfBase`), and nothing changes either side, the rows or the tables from there on.
- `TablesOfBase` is what the loop of `printRegression()` leaves, for a baseline of any length. The
  loop invariant is `Printing`: the lines so far obey the rules that look back (`Laid`), the last one
  is a row and the open table is its section's (`Under`), screen and markdown show the
  recorded rows in order (`Shows`), and the markdown has as many rows of each verdict as were
  recorded (`Counted`). `RoomMade` shows that a turn makes room for its row, opening and closing
  tables as needed, `EntryPrinted` that it then restores `Printing`. Only the last line, still
  without its successor, keeps `LineFits` from holding of the lines so far; the end
  of the last table settles it (`TablesEnded`).
- The loops are recursive functions on `0 .. n`. Their induction is over sets: `NatSets` says that a
  set with 0 and with the successor of each of its numbers has all of `Nat`, and follows from the
  pigeonhole principle for finite sets. `AtKeeps` (what a filter keeps) and `EntriesPrinted`
  are proved with it, `KeepingExists` and `TurningExists` that these functions exist.

### Test, benchmark and example programs

For any suites in any directories, any order of static initialization, any word on the
command line, tests of any number of checks, and any mix of the `BENCH` macros with any timings.

| theorem | statement | run |
|---|---|---|
| `AskedSuitesRun` | `Spec => []RequestedSuitesRun` | yes |
| `FailuresAreReported` | `Spec => []FailuresReported` | yes |
| `CountersAgreeWithMarks` | `Spec => []CountersMatchMarks` | yes |
| `TablesAreWellFormed` | `Spec => []TablesWellFormed` | yes |
| `ExportsAgree` | `Spec => []ReportsAgree` | yes |

- `DriverInv`: the registry has each suite once under an id of its own, and for each place
  main() can be in, what has been matched and run is what the word asks of the part of the
  registry visited so far. `RequestedSuitesRun` speaks of the end only, so the invariant has to
  carry the loop. That words are unambiguous (`WordsAreUnambiguous`: no directory has the
  name of a suite, an id or an option, and no two ids coincide) is what makes "run alone" of a suite
  found by name the same as "run all that match".
- `TestInv`: while a test runs the buffer has a line for each check that failed in it and nothing else
  (`Capturing`), and on the screen are the lines of trouble of all failures up to its start
  (`FailuresCounted`). Without the part about the buffer, the step that prints the mark and then the
  buffer could leave a cross without trouble below it, or trouble below a tick.
- `BenchInv` relates screen, markdown, results, tally and the flags of `helpers.h`: which kind of table
  is open and whether it has a row (`ScreenInv`), that the `n`-th row of the markdown is the `n`-th result
  under the heading it was measured for, and that the tally counts the pairs by who was faster
  (`ReportInv`). The flags are what the next macro goes by, so none of the three properties is inductive
  without them.
- `ExportsAgree` speaks of each file that was written, since each export opens its own and may
  give up (`EachExportAlone`): the JSON is compared with what was printed, the markdown with what was
  recorded and counted, and the two with each other if both were written.

### Publication

For any jobs, tags and branches, any package shapes, any failures and any order of merges.

| theorem | statement | run |
|---|---|---|
| `PackageFilesStayTogether` | `Spec => []PackageFilesAgree` | yes |
| `MergesKeepToTheirFiles` | `Spec => MergesBringOwnFiles` | yes |
| `SuccessIsSettled` | `Spec => []SuccessSettlesTag` | yes |
| `RerunIsTolerated` | `Spec => []RerunToleratesOpenRequest` | yes |

- `FilesInv`: heads differ from the checkout they started from in their job's own files only
  (`OwnOnly`); which of the five files a job has rewritten depends on where it is
  (`Stages`, `WrittenSoFar`); branches, heads and checkouts each have one version
  (`AllAgree`). A merge takes all five files from one side, so agreement survives it.
- `SettleInv` is about the one way a job ends well without a request of its own, the
  commit that finds nothing to do: `conandata.yml` then had its tag already and only a merge
  can have brought it. The assumption that `conandata.yml` always takes the version is
  the script's doing, which writes that file anew rather than substituting in it
  (`update_package_files.py:143-162`).
- `ProposesInv`: what is pushed for a tag is a job's whole work (`PushProposes`, from
  `WrittenSoFar`), and only another run's whole work is ever pushed over it; so an open
  request always holds its tag's files. That GitHub *can* merge it is not part of
  `SuccessSettlesTag` and is not true: a request overtaken by another tag's stays open,
  armed and in conflict until a rerun. `OnlyOvertakenIsStuck` says that nothing else
  gets one stuck on main. On a release branch a rerun does not help, since main and that
  branch have no later commit in common.
- `RerunInv`: a job alone with its proposal that has come to create its request
  found none open, and nobody else can have opened one since.

### Only model-checked

- *Liveness*: `EveryCallReturns`, `StopEndsRun`. The prover has no `ENABLED`, so no fairness.
- `OnlyOvertakenIsStuck`: it needs an account of every file of main by the merges that
  brought it, which the invariants above keep for the package files' versions only.
- `ExpectationsMet`: the scripts are fixed, finite data and TLC runs through every one; a proof would
  be the same replay. The library's induction theorems take an operator as parameter, which no installed
  prover instantiates; `NatSets` stands in for them where a proof needs induction.

## 6. Fairness

- `RateLimiterThreads`: `WF(Step(t))` per thread. A thread inside `allow()` keeps
  running and gets a mutex that stays free. No strong fairness: `std::mutex` promises none.
  It is enough because each thread makes finitely many calls; with endless
  callers one could wait for ever. No thread has to call and the clock need not tick.
- `Callers`: in the contention benchmark `WF` of every thread's step, and of
  `Propagate(w)`: a store becomes visible in finite time, as C++ asks
  of atomics. The foreground could be passed over at the mutex for ever, therefore
  `StopEndsRun` starts from the stored flag.
- All other specifications are safety only.

## 7. What is not modelled

- *Overflow.* Integers are unbounded: the conversion of an enormous
  `windowDuration` to the clock's nanoseconds is outside, as is `size_t` wrap-around.
- *The constructor's exception* for capacity zero is the assumption on `CacheCapacity`.
- *LRUCache's own code* (empty submodule).
- *Google test and benchmark programs*: the loop, timing and reporting are library
  code outside the tree; their calls of `allow()` are in `Scripts` and `ContentionBench`.
- *The Google regression tool's* `time_unit`, which it reads and never uses.
- *Layout*: widths, bars, colours, duration texts, wording.
- *Characters*: how a word is spelt (a leading `v`, three numbers, text after them, the
  letter and number of a method id, the pieces of a Google name) is given by
  constants; what the parsers conclude from it is modelled.
- *Builds, packaging recipes, caches, uploads, the job summary; commits of other people.*
  They are declarative configuration or shell glue without state of the program's own.

## 8. Plan

Done: the limiter and its threads, harness, callers, programs, both regression tools,
publication, and the theorems of section 5. No part of the model is open; what is
left out is in section 7. Of the checked invariants all are proved but `ExpectationsMet`
and `OnlyOvertakenIsStuck`.

Next, should the code change: a second process that writes the reports (nothing locks
`regression/results` either), and the part of the benchmark workflow around the snapshot.
