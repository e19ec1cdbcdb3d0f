--------------------------- MODULE RegressionProofs ---------------------------
(***************************************************************************)
(* What TLAPS proves about RegressionTool for all folders, files, command  *)
(* lines and interleavings with the programs that write the same files:    *)
(* which baseline is chosen, what is compared with what, how the rows are  *)
(* laid out in tables, and what is in the reports.  The loops of the tool  *)
(* are recursive functions; NatSets is the induction over them.            *)
(***************************************************************************)
EXTENDS RegressionTool, FiniteSetTheorems, TLAPS

(* The steps before a baseline has been chosen.                            *)
Early == {"idle", "list", "methods", "show", "compare", "scan"}

(* A folder once found to be the tool's own stays so: nothing removes a    *)
(* folder or a file.                                                       *)
CandidatesStay ==
    /\ DOMAIN folders \subseteq Names
    /\ opened \subseteq Mine
    /\ newest # NoName => newest \in Mine /\ HasVersion(newest)

(* While the visit is under way, newest is the newest of what it has seen. *)
NewestSoFar ==
    pc = "scan" =>
       /\ VersionCount(args) = 0
       /\ left \subseteq DOMAIN folders
       /\ \A n \in opened \ left :
             newest # NoName /\ HasVersion(n) /\ ~Newer(n, newest)

(* What the visit found is what the run goes on with.                      *)
NewestTaken ==
    /\ pc \in Early => baseFile = NoName
    /\ Automatic => /\ baseFile = newest
                    /\ \A n \in opened : HasVersion(n) /\ ~Newer(n, baseFile)

ScanInv == CandidatesStay /\ NewestSoFar /\ NewestTaken

-----------------------------------------------------------------------------
(* The order of versions.                                                  *)

(* Newer, spelt out.                                                       *)
Before(a, b) ==
    \/ a[1] < b[1]
    \/ a[1] = b[1] /\ a[2] < b[2]
    \/ a[1] = b[1] /\ a[2] = b[2] /\ a[3] < b[3]
    \/ a[1] = b[1] /\ a[2] = b[2] /\ a[3] = b[3] /\ a[4] < b[4]

LEMMA BaselineParts ==
  ASSUME NEW n \in DOMAIN Spelling, HasVersion(n)
  PROVE  /\ \A i \in 1 .. 4 : BaselineOf(n)[i] \in Nat
         /\ \A i \in 1 .. 3 : BaselineOf(n)[i] = Spelling[n].numbers[i]
  <1>1. PICK s \in Seq(Nat), r \in Nat :
           s = Spelling[n].numbers /\ r = Spelling[n].rank /\ Len(s) = 3
    BY ToolAssumption DEF HasVersion
  <1>2. /\ Append(s, r) \in Seq(Nat) /\ Len(Append(s, r)) = Len(s) + 1
        /\ \A i \in 1 .. Len(s) : Append(s, r)[i] = s[i]
    OBVIOUS
  <1>3. BaselineOf(n) = Append(s, r)
    BY <1>1 DEF BaselineOf
  <1>4. QED
    BY <1>1, <1>2, <1>3

LEMMA NewerSpelt ==
  ASSUME NEW m \in DOMAIN Spelling, NEW n \in DOMAIN Spelling, HasVersion(m), HasVersion(n)
  PROVE  /\ \A i \in 1 .. 4 : BaselineOf(m)[i] \in Nat /\ BaselineOf(n)[i] \in Nat
         /\ \A i \in 1 .. 3 : BaselineOf(m)[i] = Spelling[m].numbers[i]
         /\ Newer(m, n) <=> Before(BaselineOf(n), BaselineOf(m))
  <1>2. /\ \A i \in 1 .. 4 : BaselineOf(m)[i] \in Nat /\ BaselineOf(n)[i] \in Nat
        /\ \A i \in 1 .. 3 : BaselineOf(m)[i] = Spelling[m].numbers[i]
    BY BaselineParts
  <1> DEFINE a == BaselineOf(m)
             b == BaselineOf(n)
  <1> HIDE DEF a, b
  <1>3. (\E i \in 1 .. 4 : a[i] > b[i] /\ \A j \in 1 .. i - 1 : a[j] = b[j]) <=> Before(b, a)
    <2>1. \A i \in 1 .. 4 : a[i] \in Nat /\ b[i] \in Nat
      BY <1>2 DEF a, b
    <2>2. ASSUME NEW i \in 1 .. 4, a[i] > b[i], \A j \in 1 .. i - 1 : a[j] = b[j]
          PROVE  Before(b, a)
      BY <2>1, <2>2 DEF Before
    <2>3. ASSUME Before(b, a)
          PROVE  \E i \in 1 .. 4 : a[i] > b[i] /\ \A j \in 1 .. i - 1 : a[j] = b[j]
      <3>1. CASE b[1] < a[1]
        BY <2>1, <3>1
      <3>2. CASE b[1] = a[1] /\ b[2] < a[2]
        BY <2>1, <3>2
      <3>3. CASE b[1] = a[1] /\ b[2] = a[2] /\ b[3] < a[3]
        BY <2>1, <3>3
      <3>4. CASE b[1] = a[1] /\ b[2] = a[2] /\ b[3] = a[3] /\ b[4] < a[4]
        BY <2>1, <3>4
      <3>5. QED
        BY <2>3, <3>1, <3>2, <3>3, <3>4 DEF Before
    <2>4. QED
      BY <2>2, <2>3
  <1>4. QED
    BY <1>2, <1>3 DEF Newer, a, b

(* What was not newer than a version is not newer than a newer one.        *)
LEMMA NotNewerTransitive ==
  ASSUME NEW k \in DOMAIN Spelling, NEW m \in DOMAIN Spelling, NEW n \in DOMAIN Spelling,
         HasVersion(k), HasVersion(m), HasVersion(n),
         ~Newer(k, m), Newer(n, m)
  PROVE  ~Newer(k, n)
  <1>1. /\ \A i \in 1 .. 4 : /\ BaselineOf(k)[i] \in Nat /\ BaselineOf(m)[i] \in Nat
                             /\ BaselineOf(n)[i] \in Nat
        /\ ~Before(BaselineOf(m), BaselineOf(k)) /\ Before(BaselineOf(m), BaselineOf(n))
        /\ Newer(k, n) <=> Before(BaselineOf(n), BaselineOf(k))
    BY NewerSpelt
  <1>2. QED
    BY <1>1 DEF Before

LEMMA NewerIsStrict ==
  ASSUME NEW n \in DOMAIN Spelling, HasVersion(n)
  PROVE  ~Newer(n, n)
  <1>1. /\ \A i \in 1 .. 4 : BaselineOf(n)[i] \in Nat
        /\ Newer(n, n) <=> Before(BaselineOf(n), BaselineOf(n))
    BY NewerSpelt
  <1>2. QED
    BY <1>1 DEF Before

(* The order of the versions is that of their weights.                     *)
LEMMA NotNewerWeighs ==
  ASSUME NEW m \in DOMAIN Spelling, NEW n \in DOMAIN Spelling, HasVersion(m), HasVersion(n),
         \A i \in 1 .. 3 : Spelling[m].numbers[i] < 100 /\ Spelling[n].numbers[i] < 100,
         ~Newer(m, n)
  PROVE  Weight(m) <= Weight(n)
  <1>1. /\ \A i \in 1 .. 4 : BaselineOf(m)[i] \in Nat /\ BaselineOf(n)[i] \in Nat
        /\ \A i \in 1 .. 3 : /\ BaselineOf(m)[i] = Spelling[m].numbers[i]
                             /\ BaselineOf(n)[i] = Spelling[n].numbers[i]
        /\ ~Before(BaselineOf(n), BaselineOf(m))
    BY NewerSpelt
  <1> DEFINE a == Spelling[m].numbers
             b == Spelling[n].numbers
  <1>2. /\ a[1] \in 0 .. 99 /\ a[2] \in 0 .. 99 /\ a[3] \in 0 .. 99
        /\ b[1] \in 0 .. 99 /\ b[2] \in 0 .. 99 /\ b[3] \in 0 .. 99
    BY <1>1
  <1>3. /\ ~(b[1] < a[1]) /\ ~(b[1] = a[1] /\ b[2] < a[2])
        /\ ~(b[1] = a[1] /\ b[2] = a[2] /\ b[3] < a[3])
    BY <1>1 DEF Before
  <1> HIDE DEF a, b
  <1>4. 10000 * a[1] + 100 * a[2] + a[3] <= 10000 * b[1] + 100 * b[2] + b[3]
    <2>1. PICK u \in 0 .. 99, v \in 0 .. 99, w \in 0 .. 99 : u = a[1] /\ v = a[2] /\ w = a[3]
      BY <1>2
    <2>2. PICK x \in 0 .. 99, y \in 0 .. 99, z \in 0 .. 99 : x = b[1] /\ y = b[2] /\ z = b[3]
      BY <1>2
    <2>3. ~(x < u) /\ ~(x = u /\ y < v) /\ ~(x = u /\ y = v /\ z < w)
      BY <1>3, <2>1, <2>2
    <2>4. /\ u \in 0 .. 99 /\ v \in 0 .. 99 /\ w \in 0 .. 99
          /\ x \in 0 .. 99 /\ y \in 0 .. 99 /\ z \in 0 .. 99
      BY <2>1, <2>2
    <2>5. 10000 * u + 100 * v + w <= 10000 * x + 100 * y + z
      <3>1. CASE u < x
        BY <2>4, <3>1
      <3>2. CASE u = x /\ v < y
        BY <2>4, <3>2
      <3>3. CASE u = x /\ v = y
        BY <2>3, <2>4, <3>3
      <3>4. QED
        BY <2>3, <2>4, <3>1, <3>2, <3>3
    <2>6. QED
      BY <2>1, <2>2, <2>5
  <1>5. QED
    BY <1>4 DEF Weight, a, b

-----------------------------------------------------------------------------
(* The steps of the run.                                                   *)

LEMMA NamesAreFolders ==
  ASSUME CandidatesStay
  PROVE  /\ Mine \subseteq DOMAIN folders /\ Mine \subseteq Names
         /\ Live \notin Mine /\ NoName \notin Mine /\ Mine \subseteq DOMAIN Spelling
  BY ToolAssumption DEF CandidatesStay, Mine

(* A step that leaves the disk, the command line and the visit alone.      *)
LEMMA QuietStep ==
  ASSUME ScanInv,
         UNCHANGED <<tool, folders, live, args, newest, opened, baseFile>>,
         pc' # "scan", pc' \in Early => pc \in Early
  PROVE  ScanInv'
  <1>1. Mine' = Mine
    BY DEF Mine, Belongs, CustomBelongs, GoogleBelongs, FileOf
  <1>2. CandidatesStay'
    BY <1>1 DEF ScanInv, CandidatesStay
  <1>3. NewestSoFar'
    BY DEF NewestSoFar
  <1>4. NewestTaken'
    BY DEF ScanInv, NewestTaken, Automatic
  <1>5. QED
    BY <1>2, <1>3, <1>4 DEF ScanInv

LEMMA BeginKeeps ==
  ASSUME ScanInv, NEW a, Begin(a)
  PROVE  ScanInv'
  <1>1. /\ pc = "idle" /\ pc' = (IF Command(a) = "usage" THEN "done" ELSE Command(a))
        /\ UNCHANGED <<tool, folders, live, newest, opened, baseFile>>
    BY DEF Begin, Goto, disk, search
  <1>2. pc' # "scan"
    BY <1>1 DEF Command
  <1>3. baseFile' = NoName
    BY <1>1 DEF ScanInv, NewestTaken, Early
  <1>4. Mine' = Mine
    BY <1>1 DEF Mine, Belongs, CustomBelongs, GoogleBelongs, FileOf
  <1>5. CandidatesStay'
    BY <1>1, <1>4 DEF ScanInv, CandidatesStay
  <1>6. NewestSoFar' /\ NewestTaken'
    BY <1>2, <1>3 DEF NewestSoFar, NewestTaken, Automatic
  <1>7. QED
    BY <1>5, <1>6 DEF ScanInv

LEMMA ChooseNamedKeeps ==
  ASSUME ScanInv, ChooseNamed
  PROVE  ScanInv'
  <1>1. /\ pc' = "resolve" /\ VersionCount(args) > 0 /\ args' = args
        /\ UNCHANGED <<tool, folders, live, newest, opened>>
    BY DEF ChooseNamed, Goto, disk, search
  <1>2. VersionCount(args') # 0
    BY <1>1 DEF VersionCount
  <1>3. Mine' = Mine
    BY <1>1 DEF Mine, Belongs, CustomBelongs, GoogleBelongs, FileOf
  <1>4. CandidatesStay'
    BY <1>1, <1>3 DEF ScanInv, CandidatesStay
  <1>5. NewestSoFar' /\ NewestTaken'
    BY <1>1, <1>2 DEF NewestSoFar, NewestTaken, Automatic, Early
  <1>6. QED
    BY <1>4, <1>5 DEF ScanInv

LEMMA BeginScanKeeps ==
  ASSUME ScanInv, BeginScan
  PROVE  ScanInv'
  <1>1. /\ pc = "compare" /\ pc' = "scan" /\ VersionCount(args) = 0
        /\ left' = DOMAIN folders /\ opened' = Mine
        /\ UNCHANGED <<tool, folders, live, newest, args, baseFile>>
    BY DEF BeginScan, Goto, disk, request
  <1>2. Mine' = Mine /\ Mine \subseteq DOMAIN folders
    BY <1>1, NamesAreFolders DEF ScanInv, Mine, Belongs, CustomBelongs, GoogleBelongs, FileOf
  <1>3. CandidatesStay'
    BY <1>1, <1>2 DEF ScanInv, CandidatesStay
  <1>4. baseFile' = NoName
    BY <1>1 DEF ScanInv, NewestTaken, Early
  <1>5. NewestSoFar' /\ NewestTaken'
    BY <1>1, <1>2, <1>4 DEF NewestSoFar, NewestTaken, Automatic
  <1>6. QED
    BY <1>3, <1>5 DEF ScanInv

(* Either the folder ends the run, or newest is still the newest.          *)
LEMMA ScanFolderKeeps ==
  ASSUME ScanInv, NEW n \in left, ScanFolder(n)
  PROVE  ScanInv'
  <1>1. /\ pc = "scan" /\ left' = left \ {n}
        /\ UNCHANGED <<tool, folders, live, opened, args, baseFile>>
    BY DEF ScanFolder, disk, request
  <1>2. Mine' = Mine
    BY <1>1 DEF Mine, Belongs, CustomBelongs, GoogleBelongs, FileOf
  <1>3. /\ CandidatesStay /\ baseFile = NoName /\ VersionCount(args) = 0
        /\ left \subseteq DOMAIN folders
        /\ \A k \in opened \ left : newest # NoName /\ HasVersion(k) /\ ~Newer(k, newest)
    BY <1>1 DEF ScanInv, NewestSoFar, NewestTaken, Early
  <1>4. NewestTaken'
    BY <1>1, <1>3 DEF NewestTaken, Automatic
  <1>5. CASE Belongs(n) /\ ~HasVersion(n)
    <2>1. pc' = "failed" /\ newest' = newest
      BY <1>5 DEF ScanFolder, Goto
    <2>2. QED
      BY <1>1, <1>2, <1>3, <1>4, <2>1 DEF ScanInv, CandidatesStay, NewestSoFar
  <1>6. CASE ~(Belongs(n) /\ ~HasVersion(n))
    <2>1. /\ newest' = IF Belongs(n) /\ (newest = NoName \/ Newer(n, newest)) THEN n ELSE newest
          /\ pc' = pc
      BY <1>6 DEF ScanFolder
    <2>2. n \in Mine <=> Belongs(n)
      BY <1>3 DEF Mine
    <2>3. CandidatesStay'
      BY <1>1, <1>2, <1>3, <1>6, <2>1, <2>2 DEF CandidatesStay
    <2>4. ASSUME NEW k \in opened, k \notin left'
          PROVE  newest' # NoName /\ HasVersion(k) /\ ~Newer(k, newest')
      <3>1. /\ k \in Mine /\ Mine \subseteq DOMAIN Spelling /\ NoName \notin Mine
            /\ newest # NoName => newest \in Mine /\ HasVersion(newest)
        BY <1>3, NamesAreFolders DEF CandidatesStay
      <3>2. CASE k = n
        <4>1. Belongs(n) /\ HasVersion(n)
          BY <1>6, <2>2, <3>1, <3>2
        <4>2. ~Newer(n, n)
          BY <2>2, <3>1, <4>1, NewerIsStrict
        <4>3. QED
          BY <2>1, <2>2, <3>1, <3>2, <4>1, <4>2
      <3>3. CASE k # n
        <4>1. newest # NoName /\ HasVersion(k) /\ ~Newer(k, newest)
          BY <1>1, <1>3, <2>4, <3>3
        <4>2. CASE newest' = newest
          BY <4>1, <4>2
        <4>3. CASE newest' # newest
          <5>1. newest' = n /\ Belongs(n) /\ HasVersion(n) /\ Newer(n, newest)
            BY <1>6, <2>1, <4>1, <4>3
          <5>2. ~Newer(k, n)
            BY <2>2, <3>1, <4>1, <5>1, NotNewerTransitive
          <5>3. QED
            BY <2>2, <3>1, <4>1, <5>1, <5>2
        <4>4. QED
          BY <4>2, <4>3
      <3>4. QED
        BY <3>2, <3>3
    <2>5. NewestSoFar'
      BY <1>1, <1>3, <2>4 DEF NewestSoFar
    <2>6. QED
      BY <1>4, <2>3, <2>5 DEF ScanInv
  <1>7. QED
    BY <1>5, <1>6

LEMMA EndScanKeeps ==
  ASSUME ScanInv, EndScan
  PROVE  ScanInv'
  <1>1. /\ pc = "scan" /\ left = {} /\ baseFile' = newest
        /\ pc' = (IF newest = NoName THEN "failed" ELSE "resolve")
        /\ UNCHANGED <<tool, folders, live, newest, opened, args>>
    BY DEF EndScan, Goto, disk, search
  <1>2. Mine' = Mine
    BY <1>1 DEF Mine, Belongs, CustomBelongs, GoogleBelongs, FileOf
  <1>3. \A k \in opened : newest # NoName /\ HasVersion(k) /\ ~Newer(k, newest)
    BY <1>1 DEF ScanInv, NewestSoFar
  <1>4. CandidatesStay'
    BY <1>1, <1>2 DEF ScanInv, CandidatesStay
  <1>5. NewestSoFar' /\ NewestTaken'
    BY <1>1, <1>3 DEF NewestSoFar, NewestTaken, Automatic, Early
  <1>6. QED
    BY <1>4, <1>5 DEF ScanInv

(* The other programs add folders and fill files.                          *)
LEMMA OthersKeep ==
  ASSUME ScanInv, OthersStep
  PROVE  ScanInv'
  <1>1. /\ UNCHANGED <<tool, pc, newest, opened, args, baseFile>>
        /\ Mine \subseteq Mine'
        /\ DOMAIN folders \subseteq DOMAIN folders' /\ DOMAIN folders' \subseteq Names
        /\ left \subseteq left'
        /\ pc = "scan" /\ left \subseteq DOMAIN folders => left' \subseteq DOMAIN folders'
    <2>1. DOMAIN folders \subseteq Names /\ Live \notin Names
      BY ToolAssumption DEF ScanInv, CandidatesStay
    <2>2. ASSUME NEW n \in Names, MakeFolder(n)
          PROVE  <1>1!:
      <3>1. /\ n \notin DOMAIN folders
            /\ folders' = [m \in DOMAIN folders \cup {n} |-> IF m = n THEN Absent ELSE folders[m]]
            /\ left' \in (IF pc = "scan" THEN {left, left \cup {n}} ELSE {left})
            /\ UNCHANGED <<tool, live, pc, newest, opened, args, baseFile>>
        BY <2>2 DEF MakeFolder, request
      <3>2. /\ DOMAIN folders' = DOMAIN folders \cup {n}
            /\ \A m \in DOMAIN folders : folders'[m] = folders[m]
        BY <3>1
      <3>3. Mine \subseteq Mine'
        BY <2>1, <3>1, <3>2 DEF Mine, Belongs, CustomBelongs, GoogleBelongs, FileOf
      <3>4. QED
        BY <2>1, <3>1, <3>2, <3>3
    <2>3. ASSUME NEW f \in DOMAIN folders \cup {Live}, NEW file, file.state # "absent",
                 Store(f, file), UNCHANGED <<tool, pc, search, request, data, reports>>
          PROVE  <1>1!:
      <3>1. UNCHANGED <<tool, pc, left, newest, opened, args, baseFile>>
        BY <2>3 DEF search, request
      <3>2. /\ DOMAIN folders' = DOMAIN folders
            /\ \A m \in DOMAIN folders : folders'[m] \in {folders[m], file}
        BY <2>3 DEF Store
      <3>3. Mine \subseteq Mine'
        BY <2>1, <2>3, <3>1, <3>2 DEF Mine, Belongs, CustomBelongs, GoogleBelongs, FileOf
      <3>4. QED
        BY <2>1, <3>1, <3>2, <3>3
    <2>4. QED
      BY <2>2, <2>3 DEF OthersStep, StartWrite, FinishWrite, Truncated, Whole
  <1>2. CandidatesStay'
    BY <1>1 DEF ScanInv, CandidatesStay
  <1>3. NewestSoFar'
    BY <1>1 DEF ScanInv, NewestSoFar
  <1>4. NewestTaken'
    BY <1>1 DEF ScanInv, NewestTaken, Automatic
  <1>5. QED
    BY <1>2, <1>3, <1>4 DEF ScanInv

LEMMA ScanInit == Init => ScanInv
  <1> SUFFICES ASSUME Init PROVE ScanInv
    OBVIOUS
  <1>1. /\ pc = "idle" /\ newest = NoName /\ opened = {} /\ baseFile = NoName
        /\ \E present \in SUBSET Names : folders \in [present -> Files(tool)]
    BY DEF Init
  <1>2. CandidatesStay
    BY <1>1 DEF CandidatesStay
  <1>3. NewestSoFar /\ NewestTaken
    BY <1>1 DEF NewestSoFar, NewestTaken, Automatic
  <1>4. QED
    BY <1>2, <1>3 DEF ScanInv

(* The steps after the baseline has been chosen, and those of the commands *)
(* that choose none.                                                       *)
LaterStep ==
    \/ ListBaselines \/ ListMethods \/ \E n \in left : ShowMethods(n)
    \/ ResolveName \/ ResolveMethodId \/ ResolveLetterGroup
    \/ LoadBaseline \/ LoadCurrent \/ ApplyMethodFilter \/ PrintRegression
    \/ ExportJson \/ ExportMarkdown

LEMMA LaterStepsAreQuiet ==
  ASSUME LaterStep
  PROVE  /\ UNCHANGED <<tool, folders, live, args, newest, opened, baseFile>>
         /\ pc' # "scan" /\ (pc' \in Early => pc \in Early)
  <1>1. CASE ListBaselines
    BY <1>1 DEF ListBaselines, Goto, disk, search, request, Early
  <1>2. CASE ListMethods
    BY <1>2 DEF ListMethods, Goto, disk, request, Early
  <1>3. CASE \E n \in left : ShowMethods(n)
    BY <1>3 DEF ShowMethods, Goto, disk, request, Early
  <1>4. CASE ResolveName
    BY <1>4 DEF ResolveName, Goto, disk, search, Early
  <1>5. CASE ResolveMethodId
    BY <1>5 DEF ResolveMethodId, Goto, disk, search, Early
  <1>6. CASE ResolveLetterGroup
    BY <1>6 DEF ResolveLetterGroup, Goto, disk, search, Early
  <1>7. CASE LoadBaseline
    BY <1>7 DEF LoadBaseline, Goto, disk, search, request, Early
  <1>8. CASE LoadCurrent
    BY <1>8 DEF LoadCurrent, Goto, disk, search, request, Early
  <1>9. CASE ApplyMethodFilter
    BY <1>9 DEF ApplyMethodFilter, Goto, disk, search, request, Early
  <1>10. CASE PrintRegression
    BY <1>10 DEF PrintRegression, Goto, disk, search, request, Early
  <1>11. CASE ExportJson
    BY <1>11 DEF ExportJson, Goto, disk, search, request, Early
  <1>12. CASE ExportMarkdown
    BY <1>12 DEF ExportMarkdown, Goto, disk, search, request, Early
  <1>13. QED
    BY <1>1, <1>2, <1>3, <1>4, <1>5, <1>6, <1>7, <1>8, <1>9, <1>10, <1>11, <1>12
    DEF LaterStep

LEMMA ScanStep ==
  ASSUME ScanInv, [Next]_vars
  PROVE  ScanInv'
  <1>1. CASE \E a \in ArgLists : Begin(a)
    BY <1>1, BeginKeeps
  <1>2. CASE ChooseNamed
    BY <1>2, ChooseNamedKeeps
  <1>3. CASE BeginScan
    BY <1>3, BeginScanKeeps
  <1>4. CASE \E n \in left : ScanFolder(n)
    BY <1>4, ScanFolderKeeps
  <1>5. CASE EndScan
    BY <1>5, EndScanKeeps
  <1>6. CASE LaterStep
    BY <1>6, LaterStepsAreQuiet, QuietStep
  <1>7. CASE OthersStep
    BY <1>7, OthersKeep
  <1>8. CASE UNCHANGED vars
    <2>1. UNCHANGED <<tool, folders, live, args, newest, opened, baseFile, pc, left>>
      BY <1>8 DEF vars, disk, search, request
    <2>2. Mine' = Mine
      BY <2>1 DEF Mine, Belongs, CustomBelongs, GoogleBelongs, FileOf
    <2>3. CandidatesStay' /\ NewestSoFar'
      BY <2>1, <2>2 DEF ScanInv, CandidatesStay, NewestSoFar
    <2>4. NewestTaken'
      BY <2>1 DEF ScanInv, NewestTaken, Automatic
    <2>5. QED
      BY <2>3, <2>4 DEF ScanInv
  <1>9. QED
    BY <1>1, <1>2, <1>3, <1>4, <1>5, <1>6, <1>7, <1>8
    DEF Next, ToolStep, LaterStep

LEMMA ScanInvAlways == Spec => []ScanInv
  BY ScanInit, ScanStep, PTL DEF Spec

-----------------------------------------------------------------------------
(* Which baseline is chosen.                                               *)

(* Without a tag, no folder that was the tool's own when the visit of      *)
(* benchmarks/baselines began is a newer version than the one chosen, by   *)
(* Baseline's own order and whatever the size of the numbers.              *)
THEOREM NoNewerBaseline == Spec => [](Automatic => \A n \in opened : ~Newer(n, baseFile))
  <1>1. ScanInv => (Automatic => \A n \in opened : ~Newer(n, baseFile))
    BY DEF ScanInv, NewestTaken
  <1>2. QED
    BY <1>1, ScanInvAlways, PTL

(* NewestChosen weighs a version as one number in base 100, so it states   *)
(* the code's order as long as no number of a version exceeds 99.          *)
SmallVersions ==
    \A w \in DOMAIN Spelling : \A i \in DOMAIN Spelling[w].numbers : Spelling[w].numbers[i] < 100

(* latestBaseline() returns the newest version, in whatever order it comes *)
(* across the folders and whatever is added during its visit.              *)
THEOREM NewestBaselineChosen == SmallVersions => (Spec => []NewestChosen)
  <1> SUFFICES ASSUME SmallVersions PROVE Spec => []NewestChosen
    OBVIOUS
  <1>1. ASSUME ScanInv PROVE NewestChosen
    <2> SUFFICES ASSUME Automatic
                 PROVE  /\ StartsWithV(baseFile)
                        /\ \A n \in opened : Weight(n) <= Weight(baseFile)
      BY DEF NewestChosen
    <2>1. /\ baseFile \in Mine /\ HasVersion(baseFile) /\ opened \subseteq Mine
          /\ \A n \in opened : HasVersion(n) /\ ~Newer(n, baseFile)
      BY <1>1 DEF ScanInv, NewestTaken, CandidatesStay, Automatic
    <2>2. Mine \subseteq DOMAIN Spelling
      BY <1>1, NamesAreFolders DEF ScanInv
    <2>3. StartsWithV(baseFile)
      BY <2>1 DEF Mine, Belongs, CustomBelongs, GoogleBelongs
    <2>4. ASSUME NEW w \in DOMAIN Spelling, HasVersion(w)
          PROVE  \A i \in 1 .. 3 : Spelling[w].numbers[i] < 100
      <3>1. DOMAIN Spelling[w].numbers = 1 .. 3
        BY <2>4, ToolAssumption DEF HasVersion
      <3>2. QED
        BY <3>1 DEF SmallVersions
    <2>5. ASSUME NEW n \in opened
          PROVE  Weight(n) <= Weight(baseFile)
      <3>1. /\ n \in DOMAIN Spelling /\ baseFile \in DOMAIN Spelling
            /\ HasVersion(n) /\ HasVersion(baseFile) /\ ~Newer(n, baseFile)
        BY <2>1, <2>2
      <3>2. \A i \in 1 .. 3 : Spelling[n].numbers[i] < 100 /\ Spelling[baseFile].numbers[i] < 100
        BY <2>4, <3>1
      <3>3. QED
        BY <3>1, <3>2, NotNewerWeighs
    <2>6. QED
      BY <2>3, <2>5
  <1>2. QED
    BY <1>1, ScanInvAlways, PTL

(* The Google tool never settles on a folder the workflow has made and not *)
(* yet copied the snapshot into, at any moment of the run.                 *)
THEOREM HalfMadeFolderIsPassedOver == Spec => []FolderWithoutSnapshotSkipped
  <1>1. ASSUME ScanInv PROVE FolderWithoutSnapshotSkipped
    <2> SUFFICES ASSUME tool = "google", Automatic
                 PROVE  folders[baseFile].state # "absent"
      BY DEF FolderWithoutSnapshotSkipped
    <2>1. baseFile \in Mine
      BY <1>1 DEF ScanInv, NewestTaken, CandidatesStay, Automatic
    <2>2. baseFile # Live
      BY <1>1, <2>1, NamesAreFolders DEF ScanInv
    <2>3. QED
      BY <2>1, <2>2 DEF Mine, Belongs, GoogleBelongs, FileOf
  <1>2. QED
    BY <1>1, ScanInvAlways, PTL

-----------------------------------------------------------------------------
(* What is in the reports.                                                 *)

(* The reports are written at the end and in one order, by a comparison,   *)
(* from the rows that were printed.                                        *)
ReportsInv ==
    /\ json.new => pc \in {"exportMarkdown", "done"}
    /\ md.new => pc = "done"
    /\ pc = "list" => Command(args) = "list"
    /\ pc \in {"methods", "show"} => Command(args) = "methods"
    /\ pc = "exportMarkdown" /\ writable => json = [new |-> TRUE, rows |-> rows]

(* A comparison that ended well and could open the report files left there *)
(* the rows it recorded, the markdown it wrote and its tally.              *)
ReportsAreThisRuns ==
    Compared /\ writable =>
        /\ json = [new |-> TRUE, rows |-> rows]
        /\ md = Report(Tally(rows))

LEMMA ReportsInit == Init => ReportsInv /\ ReportsAreThisRuns
  BY DEF Init, ReportsInv, ReportsAreThisRuns, Compared

(* The steps before the rows are printed.                                  *)
LEMMA ReportsUntouched ==
  ASSUME ReportsInv, UNCHANGED <<json, md, args>>,
         pc \notin {"exportMarkdown", "done"},
         pc' \notin {"list", "methods", "show", "exportJson", "exportMarkdown"},
         pc' = "done" => Command(args) # "compare"
  PROVE  ReportsInv' /\ ReportsAreThisRuns'
  <1>1. Command(args') = Command(args)
    BY DEF Command
  <1>2. QED
    BY <1>1 DEF ReportsInv, ReportsAreThisRuns, Compared

LEMMA ReportsStep ==
  ASSUME ReportsInv, ReportsAreThisRuns, [Next]_vars
  PROVE  ReportsInv' /\ ReportsAreThisRuns'
  <1>1. ASSUME NEW a \in ArgLists, Begin(a)
        PROVE  ReportsInv' /\ ReportsAreThisRuns'
    <2>1. /\ pc = "idle" /\ args' = a
          /\ pc' = (IF Command(a) = "usage" THEN "done" ELSE Command(a))
          /\ UNCHANGED <<json, md>>
      BY <1>1 DEF Begin, Goto, reports
    <2>2. Command(a) \in {"list", "methods", "usage", "compare"}
      BY DEF Command
    <2>3. Command(args)' = Command(a)
      BY <2>1 DEF Command
    <2>4. QED
      BY <2>1, <2>2, <2>3 DEF ReportsInv, ReportsAreThisRuns, Compared
  <1>2. CASE ListBaselines \/ ListMethods \/ \E n \in left : ShowMethods(n)
    <2>1. /\ pc \in {"list", "methods", "show"} /\ args' = args
          /\ pc' \in {"done", "failed", "show"}
          /\ pc' = "show" => pc \in {"methods", "show"}
          /\ UNCHANGED <<json, md>>
      BY <1>2 DEF ListBaselines, ListMethods, ShowMethods, Goto, request, reports
    <2>2. Command(args)' = Command(args)
      BY <2>1 DEF Command
    <2>3. QED
      BY <2>1, <2>2 DEF ReportsInv, ReportsAreThisRuns, Compared
  <1>3. CASE ChooseNamed \/ BeginScan \/ EndScan \/ \E n \in left : ScanFolder(n)
    <2>1. /\ pc \in {"compare", "scan"} /\ args' = args
          /\ pc' \in {"resolve", "scan", "failed"}
          /\ UNCHANGED <<json, md>>
      BY <1>3 DEF ChooseNamed, BeginScan, ScanFolder, EndScan, Goto, request, reports
    <2>2. QED
      BY <2>1, ReportsUntouched
  <1>4. CASE \/ ResolveName \/ ResolveMethodId \/ ResolveLetterGroup
             \/ LoadBaseline \/ LoadCurrent \/ ApplyMethodFilter
    <2>1. /\ pc \in {"resolve", "loadBaseline", "loadCurrent", "filter"} /\ args' = args
          /\ pc' \in {"loadBaseline", "loadCurrent", "filter", "compare rows", "failed"}
          /\ UNCHANGED <<json, md>>
      BY <1>4 DEF ResolveName, ResolveMethodId, ResolveLetterGroup, LoadBaseline,
                  LoadCurrent, ApplyMethodFilter, Goto, request, reports
    <2>2. QED
      BY <2>1, ReportsUntouched
  <1>5. CASE PrintRegression
    <2>1. /\ pc = "compare rows" /\ pc' = "exportJson"
          /\ UNCHANGED <<json, md>>
      BY <1>5 DEF PrintRegression, Goto, reports
    <2>2. QED
      BY <2>1 DEF ReportsInv, ReportsAreThisRuns, Compared
  <1>6. CASE ExportJson
    <2>1. /\ pc = "exportJson" /\ pc' = "exportMarkdown"
          /\ writable' => json' = [new |-> TRUE, rows |-> rows]
          /\ UNCHANGED <<md, rows>>
      BY <1>6 DEF ExportJson, Goto, data, tables
    <2>2. QED
      BY <2>1 DEF ReportsInv, ReportsAreThisRuns, Compared
  <1>7. CASE ExportMarkdown
    <2>1. /\ pc = "exportMarkdown" /\ pc' = "done"
          /\ writable => md' = Report(Tally(rows))
          /\ UNCHANGED <<rows, markdown, writable, json>>
      BY <1>7 DEF ExportMarkdown, Goto, data, tables
    <2>2. Report(Tally(rows))' = Report(Tally(rows))
      BY <2>1 DEF ReportsInv, Report
    <2>3. QED
      BY <2>1, <2>2 DEF ReportsInv, ReportsAreThisRuns, Compared
  <1>8. CASE OthersStep \/ UNCHANGED vars
    <2>1. UNCHANGED <<pc, args, writable, rows, markdown, json, md>>
      BY <1>8 DEF OthersStep, MakeFolder, StartWrite, FinishWrite, vars,
                  request, data, tables, reports
    <2>2. /\ Command(args)' = Command(args)
          /\ Report(Tally(rows))' = Report(Tally(rows))
      BY <2>1 DEF Report
    <2>3. QED
      BY <2>1, <2>2 DEF ReportsInv, ReportsAreThisRuns, Compared
  <1>9. QED
    BY <1>1, <1>2, <1>3, <1>4, <1>5, <1>6, <1>7, <1>8 DEF Next, ToolStep

LEMMA ReportsAlways == Spec => [](ReportsInv /\ ReportsAreThisRuns)
  BY ReportsInit, ReportsStep, PTL DEF Spec

(* A run that fails, at any read of any file, has not touched the reports. *)
THEOREM FailureLeavesReports == Spec => []FailedRunWritesNothing
  <1>1. ReportsInv => FailedRunWritesNothing
    BY DEF ReportsInv, FailedRunWritesNothing
  <1>2. QED
    BY <1>1, ReportsAlways, PTL

-----------------------------------------------------------------------------
(* Sequences.                                                              *)

LEMMA NatSets ==
  ASSUME NEW S, 0 \in S, \A n \in Nat : n \in S => n + 1 \in S
  PROVE  Nat \subseteq S
  <1> SUFFICES ASSUME NEW n \in Nat, n \notin S PROVE FALSE
    OBVIOUS
  <1> DEFINE T == S \cap 0 .. n
             f == [i \in T |-> i + 1]
  <1>1. IsFiniteSet(T) /\ Cardinality(T) \in Nat
    <2>1. IsFiniteSet(0 .. n)
      BY FS_Interval
    <2>2. QED
      BY <2>1, FS_Subset, FS_CardinalityType
  <1>2. \A i \in T : i + 1 \in T \ {0}
    OBVIOUS
  <1>3. 0 \in T
    OBVIOUS
  <1>4. IsFiniteSet(T \ {0}) /\ Cardinality(T \ {0}) = Cardinality(T) - 1
    BY <1>1, <1>3, FS_RemoveElement
  <1>5. f \in Injection(T, T \ {0})
    BY <1>2 DEF Injection, IsInjective
  <1>6. Cardinality(T) <= Cardinality(T \ {0})
    BY <1>1, <1>4, <1>5, FS_Injection
  <1> HIDE DEF T
  <1>7. QED
    BY <1>1, <1>4, <1>6

LEMMA LeastPlace ==
  ASSUME NEW n \in Nat, NEW T \in SUBSET (1 .. n), T # {}
  PROVE  \E i \in T : \A j \in T : i <= j
  <1> SUFFICES ASSUME \A i \in T : \E j \in T : j < i PROVE FALSE
    OBVIOUS
  <1> DEFINE S == {k \in Nat : \A i \in T : k < i}
  <1>1. 0 \in S
    OBVIOUS
  <1>2. ASSUME NEW k \in Nat, k \in S PROVE k + 1 \in S
    <2> SUFFICES ASSUME NEW i \in T PROVE k + 1 < i
      OBVIOUS
    <2>1. PICK j \in T : j < i
      OBVIOUS
    <2>2. k < j /\ j \in Nat /\ i \in Nat
      BY <1>2
    <2>3. QED
      BY <2>1, <2>2
  <1>3. n \in S
    BY <1>1, <1>2, NatSets
  <1>4. PICK i \in 1 .. n : i \in T
    OBVIOUS
  <1>5. QED
    BY <1>3, <1>4

(* The loop of At, after m elements of s.                                  *)
Keeping(kept, s, places, m) ==
    kept = [n \in 0 .. m |->
               IF n = 0 THEN << >>
               ELSE IF n \in places THEN Append(kept[n - 1], s[n]) ELSE kept[n - 1]]

LEMMA KeepingExists ==
  ASSUME NEW s, NEW places
  PROVE  \A m \in Nat : \E kept : Keeping(kept, s, places, m)
  <1> DEFINE S == {m \in Nat : \E kept : Keeping(kept, s, places, m)}
  <1>1. 0 \in S
    <2>1. Keeping([n \in 0 .. 0 |-> << >>], s, places, 0)
      BY DEF Keeping
    <2>2. QED
      BY <2>1
  <1>2. ASSUME NEW m \in Nat, m \in S PROVE m + 1 \in S
    <2>1. PICK f : Keeping(f, s, places, m)
      BY <1>2
    <2> DEFINE x == IF m + 1 \in places THEN Append(f[m], s[m + 1]) ELSE f[m]
               g == [n \in 0 .. m + 1 |-> IF n = m + 1 THEN x ELSE f[n]]
    <2> HIDE DEF x
    <2>2. ASSUME NEW n \in 0 .. m + 1
          PROVE  g[n] = IF n = 0 THEN << >>
                 ELSE IF n \in places THEN Append(g[n - 1], s[n]) ELSE g[n - 1]
      <3>1. CASE n = 0
        <4>1. f[0] = << >>
          BY <2>1 DEF Keeping
        <4>2. QED
          BY <3>1, <4>1
      <3>2. CASE n = m + 1
        <4>1. g[n] = x /\ g[n - 1] = f[m]
          BY <3>2
        <4>2. QED
          BY <3>2, <4>1 DEF x
      <3>3. CASE n \in 1 .. m
        <4>1. g[n] = f[n] /\ g[n - 1] = f[n - 1]
          BY <3>3
        <4>2. n \in 0 .. m /\ n # 0
          BY <3>3
        <4>3. f[n] = IF n \in places THEN Append(f[n - 1], s[n]) ELSE f[n - 1]
          BY <2>1, <4>2 DEF Keeping
        <4>4. QED
          BY <3>3, <4>1, <4>3
      <3>4. QED
        BY <3>1, <3>2, <3>3
    <2>3. Keeping(g, s, places, m + 1)
      <3> HIDE DEF g
      <3>1. g = [n \in 0 .. m + 1 |-> g[n]]
        BY DEF g
      <3>2. QED
        BY <2>2, <3>1 DEF Keeping
    <2>4. QED
      BY <2>3
  <1>3. QED
    BY <1>1, <1>2, NatSets

(* At keeps the elements at the given places and nothing else.             *)
LEMMA AtKeeps ==
  ASSUME NEW X, NEW s \in Seq(X), NEW places
  PROVE  /\ At(s, places) \in Seq(X)
         /\ {At(s, places)[k] : k \in DOMAIN At(s, places)} = {s[i] : i \in places \cap DOMAIN s}
  <1> DEFINE f == CHOOSE kept : Keeping(kept, s, places, Len(s))
             Of(m) == {s[i] : i \in places \cap 1 .. m}
             Kept(m) == f[m] \in Seq(X) /\ {f[m][k] : k \in DOMAIN f[m]} = Of(m)
             S == {m \in Nat : m <= Len(s) => Kept(m)}
  <1>1. Len(s) \in Nat /\ DOMAIN s = 1 .. Len(s)
    OBVIOUS
  <1>2. Keeping(f, s, places, Len(s))
    BY <1>1, KeepingExists
  <1>3. At(s, places) = f[Len(s)]
    BY DEF At, Keeping
  <1> HIDE DEF f
  <1>4. 0 \in S
    <2>1. f[0] = << >>
      BY <1>1, <1>2 DEF Keeping
    <2>2. Of(0) = {} /\ DOMAIN << >> = {} /\ << >> \in Seq(X)
      OBVIOUS
    <2> HIDE DEF Of
    <2>3. Kept(0)
      BY <2>1, <2>2
    <2> HIDE DEF Kept
    <2>4. QED
      BY <2>3
  <1>5. ASSUME NEW m \in Nat, m \in S PROVE m + 1 \in S
    <2> HIDE DEF Kept
    <2> SUFFICES ASSUME m + 1 <= Len(s) PROVE Kept(m + 1)
      OBVIOUS
    <2> DEFINE g == f[m]
    <2>0. Kept(m)
      BY <1>1, <1>5
    <2> USE DEF Kept
    <2>1. g \in Seq(X) /\ {g[k] : k \in DOMAIN g} = Of(m)
      BY <2>0
    <2>2. s[m + 1] \in X
      BY <1>1
    <2>3. f[m + 1] = IF m + 1 \in places THEN Append(g, s[m + 1]) ELSE g
      <3>1. m + 1 \in 0 .. Len(s) /\ m + 1 # 0 /\ (m + 1) - 1 = m
        BY <1>1
      <3>2. QED
        BY <1>2, <3>1 DEF Keeping
    <2> HIDE DEF g
    <2>4. CASE m + 1 \in places
      <3> DEFINE a == Append(g, s[m + 1])
      <3>1. /\ a \in Seq(X) /\ DOMAIN g = 1 .. Len(g) /\ Len(g) \in Nat
            /\ DOMAIN a = 1 .. Len(g) + 1 /\ a[Len(g) + 1] = s[m + 1]
            /\ \A k \in 1 .. Len(g) : a[k] = g[k]
        BY <2>1, <2>2
      <3> HIDE DEF a
      <3>2. {a[k] : k \in DOMAIN a} = {g[k] : k \in DOMAIN g} \cup {s[m + 1]}
        <4>1. DOMAIN a = DOMAIN g \cup {Len(g) + 1}
          BY <3>1
        <4>2. QED
          BY <3>1, <4>1
      <3>3. Of(m + 1) = Of(m) \cup {s[m + 1]}
        <4>1. places \cap 1 .. m + 1 = (places \cap 1 .. m) \cup {m + 1}
          BY <2>4
        <4>2. QED
          BY <4>1
      <3> HIDE DEF Of
      <3>4. QED
        BY <2>1, <2>3, <2>4, <3>1, <3>2, <3>3 DEF a
    <2>5. CASE m + 1 \notin places
      <3>1. places \cap 1 .. m + 1 = places \cap 1 .. m
        BY <2>5
      <3>2. Of(m + 1) = Of(m)
        BY <3>1
      <3> HIDE DEF Of
      <3>3. QED
        BY <2>1, <2>3, <2>5, <3>2
    <2>6. QED
      BY <2>4, <2>5
  <1> HIDE DEF Kept
  <1>6. Len(s) \in S
    BY <1>1, <1>4, <1>5, NatSets
  <1>7. Kept(Len(s)) /\ places \cap 1 .. Len(s) = places \cap DOMAIN s
    BY <1>1, <1>6
  <1>8. QED
    BY <1>3, <1>7 DEF Kept

LEMMA KeptFrom ==
  ASSUME NEW X, NEW s \in Seq(X), NEW places, NEW k \in DOMAIN At(s, places)
  PROVE  \E i \in places \cap DOMAIN s : At(s, places)[k] = s[i]
  <1> DEFINE a == At(s, places)
  <1>1. {a[j] : j \in DOMAIN a} = {s[i] : i \in places \cap DOMAIN s}
    BY AtKeeps
  <1>2. a[k] \in {a[j] : j \in DOMAIN a}
    OBVIOUS
  <1> HIDE DEF a
  <1>3. a[k] \in {s[i] : i \in places \cap DOMAIN s}
    BY <1>1, <1>2
  <1>4. QED
    BY <1>3 DEF a

-----------------------------------------------------------------------------
(* What one more line does to a table.                                     *)

(* Of each verdict there are as many rows among the lines as among rs.     *)
Counted(lines, rs) ==
    \A v : Cardinality({i \in RowLines(lines) : lines[i].row.verdict = v}) =
           Cardinality({i \in DOMAIN rs : rs[i].verdict = v})

(* Lines that follow one another, and a line under the heading before it.  *)
Neighbours(x, y) ==
    /\ x.is \in {"heading", "separator"} => y.is = "row"
    /\ x.is = "row" => y.is # "heading"
    /\ y.is = "row" => x.is # "end"
    /\ y.is = "heading" => x.is = "end"

InItsTable(lines, i) ==
    /\ lines[i].is = "row" =>
          \E h \in 1 .. i - 1 : /\ Heads(lines, h, i)
                                /\ lines[h].section = OwnSection(lines[i].row)
    /\ lines[i].is = "heading" /\ i > 1 =>
          \E h \in 1 .. i - 1 : Heads(lines, h, i) /\ lines[h].section # lines[i].section

(* LineFits for the lines printed so far.                                  *)
Laid(lines) ==
    /\ \A i \in 1 .. Len(lines) - 1 : Neighbours(lines[i], lines[i + 1])
    /\ \A i \in 1 .. Len(lines) : InItsTable(lines, i)
    /\ lines # << >> => lines[1].is = "heading"

(* The table at the end of the lines is section's.                         *)
Under(lines, section) ==
    \E h \in 1 .. Len(lines) : Heads(lines, h, Len(lines) + 1) /\ lines[h].section = section

LEMMA Appended ==
  ASSUME NEW L, NEW s \in Seq(L), NEW l \in L
  PROVE  /\ Append(s, l) \in Seq(L) /\ Len(s) \in Nat /\ Len(Append(s, l)) = Len(s) + 1
         /\ DOMAIN s = 1 .. Len(s) /\ DOMAIN Append(s, l) = 1 .. Len(s) + 1
         /\ \A i \in 1 .. Len(s) : Append(s, l)[i] = s[i]
         /\ Append(s, l)[Len(s) + 1] = l /\ Append(s, l) # << >> /\ (s = << >> <=> Len(s) = 0)
  OBVIOUS

LEMMA RowsFinite ==
  ASSUME NEW L, NEW s \in Seq(L), NEW v
  PROVE  /\ RowLines(s) \subseteq 1 .. Len(s) /\ IsFiniteSet(RowLines(s))
         /\ Cardinality(RowLines(s)) \in Nat
         /\ IsFiniteSet({i \in RowLines(s) : s[i].row.verdict = v})
         /\ IsFiniteSet({i \in DOMAIN s : s[i].verdict = v})
  <1>1. RowLines(s) \subseteq 1 .. Len(s) /\ DOMAIN s = 1 .. Len(s) /\ IsFiniteSet(1 .. Len(s))
    BY FS_Interval DEF RowLines
  <1>2. IsFiniteSet(RowLines(s)) /\ IsFiniteSet({i \in DOMAIN s : s[i].verdict = v})
    BY <1>1, FS_Subset
  <1>3. IsFiniteSet({i \in RowLines(s) : s[i].row.verdict = v})
    BY <1>2, FS_Subset
  <1>4. QED
    BY <1>1, <1>2, <1>3, FS_CardinalityType

LEMMA OtherLineMore ==
  ASSUME NEW L, NEW s \in Seq(L), NEW l \in L, l.is # "row", NEW rs
  PROVE  /\ Shows(s, rs) => Shows(Append(s, l), rs)
         /\ Counted(s, rs) => Counted(Append(s, l), rs)
  <1> DEFINE n == Len(s)
             a == Append(s, l)
  <1>1. /\ n \in Nat /\ DOMAIN s = 1 .. n /\ DOMAIN a = 1 .. n + 1 /\ a[n + 1] = l
        /\ \A i \in 1 .. n : a[i] = s[i]
    BY Appended
  <1> HIDE DEF n, a
  <1>2. RowLines(a) = RowLines(s) /\ RowLines(s) \subseteq 1 .. n
    BY <1>1 DEF RowLines
  <1>3. \A i : PlaceOf(a, i) = PlaceOf(s, i)
    BY <1>2 DEF PlaceOf
  <1>4. Shows(s, rs) => Shows(a, rs)
    BY <1>1, <1>2, <1>3 DEF Shows
  <1>5. \A v : {i \in RowLines(a) : a[i].row.verdict = v} = {i \in RowLines(s) : s[i].row.verdict = v}
    BY <1>1, <1>2
  <1>6. Counted(s, rs) => Counted(a, rs)
    BY <1>5 DEF Counted
  <1>7. QED
    BY <1>4, <1>6 DEF a

LEMMA RowLineShown ==
  ASSUME NEW L, NEW s \in Seq(L), NEW l \in L, l.is = "row",
         NEW R, NEW rs \in Seq(R), l.row \in R, Shows(s, rs)
  PROVE  Shows(Append(s, l), Append(rs, l.row))
  <1> DEFINE n == Len(s)
             a == Append(s, l)
             m == Len(rs)
             t == Append(rs, l.row)
  <1>1. /\ n \in Nat /\ DOMAIN s = 1 .. n /\ DOMAIN a = 1 .. n + 1 /\ a[n + 1] = l
        /\ \A i \in 1 .. n : a[i] = s[i]
    BY Appended
  <1>2. m \in Nat /\ Len(t) = m + 1 /\ t[m + 1] = l.row /\ \A i \in 1 .. m : t[i] = rs[i]
    BY Appended
  <1>3. /\ RowLines(s) \subseteq 1 .. n /\ IsFiniteSet(RowLines(s)) /\ m = Cardinality(RowLines(s))
        /\ \A i \in RowLines(s) : s[i].row = rs[PlaceOf(s, i)]
    BY RowsFinite DEF Shows
  <1> HIDE DEF n, a, m, t
  <1>4. RowLines(a) = RowLines(s) \cup {n + 1}
    BY <1>1 DEF RowLines
  <1>5. Cardinality(RowLines(a)) = m + 1
    <2>1. n + 1 \notin RowLines(s)
      BY <1>1, <1>3
    <2>2. QED
      BY <1>3, <1>4, <2>1, FS_AddElement
  <1>6. ASSUME NEW i \in RowLines(a)
        PROVE  a[i].row = t[PlaceOf(a, i)]
    <2>1. CASE i = n + 1
      <3>1. {j \in RowLines(a) : j <= i} = RowLines(a)
        BY <1>1, <1>3, <1>4, <2>1
      <3>2. PlaceOf(a, i) = m + 1
        BY <1>5, <3>1 DEF PlaceOf
      <3>3. QED
        BY <1>1, <1>2, <2>1, <3>2
    <2>2. CASE i \in RowLines(s)
      <3> DEFINE T == {j \in RowLines(s) : j <= i}
      <3>1. i \in 1 .. n /\ i \in T
        BY <1>3, <2>2
      <3>2. {j \in RowLines(a) : j <= i} = T
        BY <1>1, <1>4, <3>1
      <3>3. PlaceOf(a, i) = Cardinality(T) /\ PlaceOf(s, i) = Cardinality(T)
        BY <3>2 DEF PlaceOf
      <3>4. IsFiniteSet(T) /\ Cardinality(T) \in Nat /\ Cardinality(T) <= m
        BY <1>3, FS_Subset, FS_CardinalityType
      <3>5. Cardinality(T) # 0
        BY <3>1, <3>4, FS_EmptySet
      <3>6. Cardinality(T) \in 1 .. m
        BY <1>2, <3>4, <3>5
      <3> HIDE DEF T
      <3>7. QED
        BY <1>1, <1>2, <1>3, <2>2, <3>1, <3>3, <3>6
    <2>3. QED
      BY <1>4, <2>1, <2>2
  <1>7. QED
    BY <1>2, <1>5, <1>6 DEF Shows, a, t

LEMMA RowLineCounted ==
  ASSUME NEW L, NEW s \in Seq(L), NEW l \in L, l.is = "row",
         NEW R, NEW rs \in Seq(R), l.row \in R, Counted(s, rs)
  PROVE  Counted(Append(s, l), Append(rs, l.row))
  <1> DEFINE n == Len(s)
             a == Append(s, l)
             m == Len(rs)
             t == Append(rs, l.row)
  <1> SUFFICES ASSUME NEW v
               PROVE  Cardinality({i \in RowLines(a) : a[i].row.verdict = v}) =
                      Cardinality({i \in DOMAIN t : t[i].verdict = v})
    BY DEF Counted
  <1> DEFINE A == {i \in RowLines(s) : s[i].row.verdict = v}
             T == {i \in DOMAIN rs : rs[i].verdict = v}
             B == {i \in RowLines(a) : a[i].row.verdict = v}
             U == {i \in DOMAIN t : t[i].verdict = v}
  <1>1. /\ n \in Nat /\ DOMAIN s = 1 .. n /\ DOMAIN a = 1 .. n + 1 /\ a[n + 1] = l
        /\ \A i \in 1 .. n : a[i] = s[i]
    BY Appended
  <1>2. /\ m \in Nat /\ DOMAIN rs = 1 .. m /\ DOMAIN t = 1 .. m + 1 /\ t[m + 1] = l.row
        /\ \A i \in 1 .. m : t[i] = rs[i]
    BY Appended
  <1>3. /\ RowLines(s) \subseteq 1 .. n /\ IsFiniteSet(A) /\ IsFiniteSet(T)
        /\ Cardinality(A) = Cardinality(T)
    BY RowsFinite DEF Counted
  <1> HIDE DEF n, a, m, t
  <1>4. RowLines(a) = RowLines(s) \cup {n + 1}
    BY <1>1 DEF RowLines
  <1>5. CASE l.row.verdict = v
    <2>1. B = A \cup {n + 1} /\ n + 1 \notin A
      BY <1>1, <1>3, <1>4, <1>5
    <2>2. U = T \cup {m + 1} /\ m + 1 \notin T
      BY <1>2, <1>5
    <2> HIDE DEF A, T, B, U
    <2>3. Cardinality(B) = Cardinality(A) + 1
      BY <1>3, <2>1, FS_AddElement
    <2>4. Cardinality(U) = Cardinality(T) + 1
      BY <1>3, <2>2, FS_AddElement
    <2>5. QED
      BY <1>3, <2>3, <2>4 DEF B, U
  <1>6. CASE l.row.verdict # v
    <2>1. B = A
      BY <1>1, <1>3, <1>4, <1>6
    <2>2. U = T
      BY <1>2, <1>6
    <2>3. QED
      BY <1>3, <2>1, <2>2
  <1>7. QED
    BY <1>5, <1>6

LEMMA LaidMore ==
  ASSUME NEW L, NEW s \in Seq(L), NEW l \in L, Laid(s),
         IF s = << >> THEN l.is = "heading" ELSE Neighbours(s[Len(s)], l),
         l.is = "row" => Under(s, OwnSection(l.row)),
         l.is = "heading" /\ s # << >> => \E section : Under(s, section) /\ section # l.section
  PROVE  Laid(Append(s, l))
  <1> DEFINE n == Len(s)
             a == Append(s, l)
  <1>1. /\ n \in Nat /\ Len(a) = n + 1 /\ a[n + 1] = l /\ (s = << >> <=> n = 0)
        /\ \A i \in 1 .. n : a[i] = s[i]
    BY Appended
  <1>2. ASSUME NEW i \in 1 .. n + 1, NEW h \in 1 .. i - 1, Heads(s, h, i)
        PROVE  Heads(a, h, i)
    <2>1. h \in 1 .. n /\ \A k \in h + 1 .. i - 1 : k \in 1 .. n
      BY <1>1
    <2> HIDE DEF a, n
    <2>2. QED
      BY <1>1, <1>2, <2>1 DEF Heads
  <1> HIDE DEF n, a
  <1>3. a[1].is = "heading"
    BY <1>1 DEF Laid
  <1>4. ASSUME NEW i \in 1 .. n PROVE Neighbours(a[i], a[i + 1])
    <2>1. CASE i = n
      BY <1>1, <2>1 DEF n
    <2>2. CASE i \in 1 .. n - 1
      <3>1. Neighbours(s[i], s[i + 1]) /\ i + 1 \in 1 .. n
        BY <1>1, <2>2 DEF Laid, n
      <3>2. QED
        BY <1>1, <3>1
    <2>3. QED
      BY <1>1, <2>1, <2>2
  <1>5. ASSUME NEW i \in 1 .. n PROVE InItsTable(a, i)
    <2>1. InItsTable(s, i) /\ a[i] = s[i] /\ \A h \in 1 .. i - 1 : h \in 1 .. n /\ a[h] = s[h]
      BY <1>1 DEF Laid, n
    <2>2. \A h \in 1 .. i - 1 : Heads(s, h, i) => Heads(a, h, i)
      BY <1>1, <1>2
    <2>3. QED
      BY <2>1, <2>2 DEF InItsTable
  <1>6. InItsTable(a, n + 1)
    <2>1. ASSUME NEW section, Under(s, section)
          PROVE  \E h \in 1 .. n : Heads(a, h, n + 1) /\ a[h].section = section
      <3>1. PICK h \in 1 .. n : Heads(s, h, n + 1) /\ s[h].section = section
        BY <2>1 DEF Under, n
      <3>2. n + 1 \in 1 .. n + 1 /\ h \in 1 .. (n + 1) - 1
        BY <1>1
      <3>3. Heads(a, h, n + 1)
        BY <1>2, <3>1, <3>2
      <3>4. QED
        BY <1>1, <3>1, <3>3
    <2>2. (n + 1) - 1 = n /\ (n + 1 > 1 <=> s # << >>)
      BY <1>1
    <2>3. QED
      BY <1>1, <2>1, <2>2 DEF InItsTable
  <1>7. QED
    BY <1>1, <1>3, <1>4, <1>5, <1>6 DEF Laid, a

LEMMA UnderMore ==
  ASSUME NEW L, NEW s \in Seq(L), NEW l \in L, NEW section
  PROVE  /\ l.is # "heading" /\ Under(s, section) => Under(Append(s, l), section)
         /\ l.is = "heading" /\ l.section = section => Under(Append(s, l), section)
  <1> DEFINE n == Len(s)
             a == Append(s, l)
  <1>1. /\ n \in Nat /\ Len(a) = n + 1 /\ a[n + 1] = l
        /\ \A i \in 1 .. n : a[i] = s[i]
    BY Appended
  <1> HIDE DEF n, a
  <1>2. ASSUME l.is # "heading", Under(s, section) PROVE Under(a, section)
    <2>1. PICK h \in 1 .. n : Heads(s, h, n + 1) /\ s[h].section = section
      BY <1>2 DEF Under, n
    <2>2. \A k \in h + 1 .. n + 1 : k = n + 1 \/ (k \in 1 .. n /\ k \in h + 1 .. (n + 1) - 1)
      BY <1>1
    <2>3. Heads(a, h, n + 2)
      <3>1. (n + 2) - 1 = n + 1
        BY <1>1
      <3>2. QED
        BY <1>1, <1>2, <2>1, <2>2, <3>1 DEF Heads
    <2>4. (n + 1) + 1 = n + 2 /\ h \in 1 .. n + 1
      BY <1>1
    <2>5. QED
      BY <1>1, <2>1, <2>3, <2>4 DEF Under
  <1>3. ASSUME l.is = "heading", l.section = section PROVE Under(a, section)
    <2>1. n + 1 \in 1 .. n + 1 /\ \A k : k \notin (n + 1) + 1 .. ((n + 1) + 1) - 1
      BY <1>1
    <2>2. Heads(a, n + 1, (n + 1) + 1)
      BY <1>1, <1>3, <2>1 DEF Heads
    <2>3. QED
      BY <1>1, <1>3, <2>1, <2>2 DEF Under
  <1>4. QED
    BY <1>2, <1>3 DEF a

-----------------------------------------------------------------------------
(* The loop of printRegression().                                          *)

(* What the files of either tool may hold.                                 *)
Entries == UNION {ToSet(s) : s \in Snapshots[tool]}

Sections == {Section(e) : e \in Entries}
RowSet   == {Row(e, cNs) : e \in Entries, cNs \in Nat}
LineSet  == {Heading(section) : section \in Sections}
            \cup {RowLine(section, r) : section \in Sections, r \in RowSet}
            \cup {Separator, EndTable}
OutSet   == [screen : Seq(LineSet), markdown : Seq(LineSet), rows : Seq(RowSet)]

LEMMA EntryFields ==
  ASSUME tool \in {"custom", "google"}, NEW e \in Entries
  PROVE  e.op \in ToSet(Methods) /\ e.iter \in Nat /\ e.ns \in Nat
  BY ToolAssumption DEF Entries

LEMMA RowFields ==
  ASSUME NEW e, NEW cNs
  PROVE  /\ Row(e, cNs).op = e.op /\ Row(e, cNs).base = e.ns /\ Row(e, cNs).cur = cNs
         /\ tool = "custom" => Row(e, cNs).iter = e.iter
         /\ OwnSection(Row(e, cNs)) = Section(e)
  BY DEF Row, CustomRow, GoogleRow, OwnSection, Section, CustomSection, GoogleSection

LEMMA LineKinds ==
  /\ \A section \in Sections : /\ Heading(section) \in LineSet
                               /\ Heading(section).is = "heading"
                               /\ Heading(section).section = section
  /\ \A section \in Sections, r \in RowSet :
        /\ RowLine(section, r) \in LineSet /\ RowLine(section, r).is = "row"
        /\ RowLine(section, r).section = section /\ RowLine(section, r).row = r
  /\ Separator \in LineSet /\ Separator.is = "separator"
  /\ EndTable \in LineSet /\ EndTable.is = "end"
  <1>1. \A section : Heading(section).is = "heading" /\ Heading(section).section = section
    BY DEF Heading
  <1>2. \A section, r : /\ RowLine(section, r).is = "row"
                        /\ RowLine(section, r).section = section /\ RowLine(section, r).row = r
    BY DEF RowLine
  <1>3. Separator.is = "separator" /\ EndTable.is = "end"
    BY DEF Separator, EndTable
  <1>4. \A section \in Sections : Heading(section) \in LineSet
    BY DEF LineSet
  <1>5. \A section \in Sections, r \in RowSet : RowLine(section, r) \in LineSet
    BY DEF LineSet
  <1>6. Separator \in LineSet /\ EndTable \in LineSet
    BY DEF LineSet
  <1>7. QED
    BY <1>1, <1>2, <1>3, <1>4, <1>5, <1>6

(* The figure of the current side is that of an entry that matches.        *)
LEMMA FigureIsMeasured ==
  ASSUME tool \in {"custom", "google"}, NEW entries \in Seq(Entries), NEW e
  PROVE  /\ GetCns(entries, e) \in Nat
         /\ GetCns(entries, e) # 0 =>
               \E j \in DOMAIN entries : Matches(entries[j], e) /\ entries[j].ns = GetCns(entries, e)
  <1> DEFINE hits == {i \in DOMAIN entries : Matches(entries[i], e)}
             first == CHOOSE i \in hits : \A j \in hits : i <= j
  <1>1. Len(entries) \in Nat /\ DOMAIN entries = 1 .. Len(entries)
    OBVIOUS
  <1>2. CASE hits = {}
    BY <1>2 DEF GetCns
  <1>3. CASE hits # {}
    <2>1. hits \in SUBSET (1 .. Len(entries))
      BY <1>1
    <2> HIDE DEF hits
    <2>2. \E i \in hits : \A j \in hits : i <= j
      BY <1>1, <1>3, <2>1, LeastPlace
    <2>3. first \in hits
      BY <2>2
    <2>4. GetCns(entries, e) = entries[first].ns
      BY <1>3 DEF GetCns, hits
    <2> HIDE DEF first
    <2>5. first \in DOMAIN entries /\ Matches(entries[first], e)
      BY <2>3 DEF hits
    <2>6. entries[first] \in Entries
      BY <2>5
    <2>7. QED
      BY <2>4, <2>5, <2>6, EntryFields
  <1>4. QED
    BY <1>2, <1>3

(* What one line does to the record of the tables.                         *)
LEMMA LineShown ==
  ASSUME NEW out \in OutSet, NEW l \in LineSet
  PROVE  /\ Show(out, l) \in OutSet /\ Show(out, l).screen = Append(out.screen, l)
         /\ Show(out, l).markdown = out.markdown /\ Show(out, l).rows = out.rows
         /\ Write(out, l) \in OutSet /\ Write(out, l).screen = Append(out.screen, l)
         /\ Write(out, l).markdown = Append(out.markdown, l) /\ Write(out, l).rows = out.rows
  <1> DEFINE x == Append(out.screen, l)
             y == Append(out.markdown, l)
  <1>1. x \in Seq(LineSet) /\ y \in Seq(LineSet)
    <2>1. out.screen \in Seq(LineSet) /\ out.markdown \in Seq(LineSet)
      BY DEF OutSet
    <2>2. QED
      BY <2>1
  <1>2. /\ Show(out, l) = [out EXCEPT !.screen = x]
        /\ Write(out, l) = [out EXCEPT !.screen = x, !.markdown = y]
    BY DEF Show, Write
  <1> HIDE DEF x, y
  <1>3. QED
    BY <1>1, <1>2 DEF OutSet, x, y

(* Screen, markdown and recorded rows tell of the same rows.               *)
Together(out) ==
    /\ Shows(out.screen, out.rows) /\ Shows(out.markdown, out.rows)
    /\ Counted(out.markdown, out.rows)

(* A table of the section is open and can take a row.                      *)
Roomy(out, section) ==
    /\ out \in OutSet /\ Together(out)
    /\ Laid(out.screen) /\ Under(out.screen, section)
    /\ out.screen # << >> /\ Last(out.screen).is # "end"

(* After some turns of the loop.                                           *)
Printing(out) ==
    /\ out \in OutSet /\ Together(out) /\ Laid(out.screen)
    /\ out.screen # << >> => /\ Last(out.screen).is = "row"
                             /\ Under(out.screen, Last(out.screen).section)

LEMMA OpenTableMakesRoom ==
  ASSUME NEW out, Printing(out), NEW section \in Sections, OpensTable(out.screen, section)
  PROVE  Roomy(OpenTable(out, section), section) /\ OpenTable(out, section).rows = out.rows
  <1> DEFINE h == Heading(section)
             e == EndTable
             o == OpenTable(out, section)
             d == Show(out, e)
  <1>1. h \in LineSet /\ h.is = "heading" /\ h.section = section /\ e \in LineSet /\ e.is = "end"
    BY LineKinds
  <1>2. /\ out \in OutSet /\ out.screen \in Seq(LineSet) /\ out.markdown \in Seq(LineSet)
        /\ out.rows \in Seq(RowSet) /\ Laid(out.screen) /\ Together(out)
    BY DEF Printing, OutSet
  <1>3. CASE out.screen = << >>
    <2>1. o = Write(out, h)
      BY <1>3 DEF OpenTable
    <2> HIDE DEF h, o
    <2>2. /\ o \in OutSet /\ o.screen = Append(out.screen, h)
          /\ o.markdown = Append(out.markdown, h) /\ o.rows = out.rows
      BY <1>1, <1>2, <2>1, LineShown
    <2>3. Laid(Append(out.screen, h))
      BY <1>1, <1>2, <1>3, LaidMore
    <2>4. Under(Append(out.screen, h), section)
      BY <1>1, <1>2, UnderMore
    <2>5. Together(o)
      BY <1>1, <1>2, <2>2, OtherLineMore DEF Together
    <2>6. Append(out.screen, h) # << >> /\ Last(Append(out.screen, h)) = h
      BY <1>1, <1>2, Appended DEF Last
    <2>7. QED
      BY <1>1, <2>2, <2>3, <2>4, <2>5, <2>6 DEF Roomy, o
  <1>4. CASE out.screen # << >>
    <2>1. o = Write(d, h)
      BY <1>4 DEF OpenTable
    <2> HIDE DEF h, e, o, d
    <2>2. /\ d \in OutSet /\ d.screen = Append(out.screen, e)
          /\ d.markdown = out.markdown /\ d.rows = out.rows
      BY <1>1, <1>2, LineShown DEF d
    <2>3. /\ o \in OutSet /\ o.screen = Append(d.screen, h)
          /\ o.markdown = Append(out.markdown, h) /\ o.rows = out.rows
      BY <1>1, <2>1, <2>2, LineShown
    <2> DEFINE s == out.screen
               s1 == Append(s, e)
               s2 == Append(s1, h)
               sec == Last(s).section
    <2>4. Last(s).is = "row" /\ Under(s, sec) /\ sec # section /\ Last(s) = s[Len(s)]
      BY <1>4 DEF Printing, OpensTable, Last
    <2> HIDE DEF sec
    <2>5. Neighbours(s[Len(s)], e)
      BY <1>1, <2>4 DEF Neighbours
    <2>6. Laid(s1)
      BY <1>1, <1>2, <1>4, <2>5, LaidMore
    <2>7. s1 \in Seq(LineSet) /\ s1 # << >> /\ s1[Len(s1)] = e
      BY <1>1, <1>2, Appended
    <2>8. Under(s1, sec)
      BY <1>1, <1>2, <2>4, UnderMore
    <2> HIDE DEF s1
    <2>9. Neighbours(s1[Len(s1)], h)
      BY <1>1, <2>7 DEF Neighbours
    <2>10. Laid(s2)
      BY <1>1, <2>4, <2>6, <2>7, <2>8, <2>9, LaidMore
    <2>11. Under(s2, section) /\ s2 # << >> /\ Last(s2) = h
      BY <1>1, <2>7, UnderMore, Appended DEF Last
    <2>12. Shows(s1, out.rows)
      BY <1>1, <1>2, OtherLineMore DEF Together, s1
    <2>13. Shows(s2, out.rows)
      BY <1>1, <2>7, <2>12, OtherLineMore
    <2>14. o.screen = s2
      BY <2>2, <2>3 DEF s1
    <2> HIDE DEF s2
    <2>15. Shows(o.markdown, out.rows) /\ Counted(o.markdown, out.rows)
      BY <1>1, <1>2, <2>3, OtherLineMore DEF Together
    <2>16. QED
      BY <1>1, <2>3, <2>10, <2>11, <2>13, <2>14, <2>15 DEF Roomy, Together, o
  <1>5. QED
    BY <1>3, <1>4

LEMMA RoomMade ==
  ASSUME NEW out, Printing(out), NEW e \in Entries
  PROVE  Roomy(MakeRoom(out, e), Section(e)) /\ MakeRoom(out, e).rows = out.rows
  <1> DEFINE section == Section(e)
  <1>1. section \in Sections
    BY DEF Sections
  <1> HIDE DEF section
  <1>2. CASE OpensTable(out.screen, section)
    <2>1. MakeRoom(out, e) = OpenTable(out, section)
      BY <1>2 DEF MakeRoom, section
    <2>2. QED
      BY <1>1, <1>2, <2>1, OpenTableMakesRoom DEF section
  <1>3. CASE ~OpensTable(out.screen, section)
    <2>1. /\ out \in OutSet /\ out.screen \in Seq(LineSet) /\ out.screen # << >> /\ Laid(out.screen)
          /\ Together(out) /\ Last(out.screen).is = "row" /\ Under(out.screen, section)
          /\ Last(out.screen) = out.screen[Len(out.screen)]
      BY <1>3 DEF Printing, OutSet, OpensTable, Last
    <2>2. CASE ~DrawsSeparator(out.screen, e)
      <3>1. MakeRoom(out, e) = out
        BY <1>3, <2>2 DEF MakeRoom, section
      <3>2. QED
        BY <2>1, <3>1 DEF Roomy, section
    <2>3. CASE DrawsSeparator(out.screen, e)
      <3> DEFINE l == Separator
                 o == MakeRoom(out, e)
      <3>1. o = Show(out, l)
        BY <1>3, <2>3 DEF MakeRoom, section
      <3>2. l \in LineSet /\ l.is = "separator"
        BY LineKinds
      <3> HIDE DEF l, o
      <3>3. /\ o \in OutSet /\ o.screen = Append(out.screen, l)
            /\ o.markdown = out.markdown /\ o.rows = out.rows
        BY <2>1, <3>1, <3>2, LineShown
      <3>4. Neighbours(out.screen[Len(out.screen)], l)
        BY <2>1, <3>2 DEF Neighbours
      <3>5. Laid(Append(out.screen, l))
        BY <2>1, <3>2, <3>4, LaidMore
      <3>6. Under(Append(out.screen, l), section)
        BY <2>1, <3>2, UnderMore
      <3>7. Append(out.screen, l) # << >> /\ Last(Append(out.screen, l)) = l
        BY <2>1, <3>2, Appended DEF Last
      <3>8. Shows(Append(out.screen, l), out.rows)
        BY <2>1, <3>2, OtherLineMore DEF Together
      <3>9. Together(o)
        BY <2>1, <3>3, <3>8 DEF Together
      <3>10. QED
        BY <3>2, <3>3, <3>5, <3>6, <3>7, <3>9 DEF Roomy, o, section
    <2>4. QED
      BY <2>2, <2>3
  <1>4. QED
    BY <1>2, <1>3

LEMMA EntryPrinted ==
  ASSUME tool \in {"custom", "google"}, cur \in Seq(Entries),
         NEW out, Printing(out), NEW e \in Entries
  PROVE  /\ Printing(PrintEntry(out, e)) /\ PrintEntry(out, e).screen # << >>
         /\ PrintEntry(out, e).rows = Append(out.rows, Row(e, GetCns(cur, e)))
  <1> DEFINE section == Section(e)
             r == Row(e, GetCns(cur, e))
             l == RowLine(section, r)
             o == MakeRoom(out, e)
             w == Write(o, l)
             t == Append(o.rows, r)
             p == PrintEntry(out, e)
  <1>1. section \in Sections /\ r \in RowSet /\ OwnSection(r) = section
    BY FigureIsMeasured, RowFields DEF Sections, RowSet
  <1>2. p = [w EXCEPT !.rows = Append(w.rows, r)]
    BY DEF PrintEntry, AddRow
  <1>3. Roomy(o, section) /\ o.rows = out.rows
    BY RoomMade
  <1> HIDE DEF section, r, o, p
  <1>4. l \in LineSet /\ l.is = "row" /\ l.section = section /\ l.row = r
    BY <1>1, LineKinds
  <1> HIDE DEF l
  <1>5. /\ o \in OutSet /\ o.screen \in Seq(LineSet) /\ o.markdown \in Seq(LineSet)
        /\ o.rows \in Seq(RowSet)
        /\ Shows(o.screen, o.rows) /\ Shows(o.markdown, o.rows) /\ Counted(o.markdown, o.rows)
        /\ Laid(o.screen) /\ Under(o.screen, section) /\ o.screen # << >>
        /\ o.screen[Len(o.screen)].is # "end"
    BY <1>3 DEF Roomy, Together, OutSet, Last
  <1>6. /\ w \in OutSet /\ w.screen = Append(o.screen, l) /\ w.markdown = Append(o.markdown, l)
        /\ w.rows = o.rows
    BY <1>4, <1>5, LineShown
  <1>7. t \in Seq(RowSet)
    BY <1>1, <1>5, Appended
  <1>8. /\ Shows(Append(o.screen, l), t) /\ Shows(Append(o.markdown, l), t)
        /\ Counted(Append(o.markdown, l), t)
    BY <1>1, <1>4, <1>5, RowLineShown, RowLineCounted
  <1>16. p = [w EXCEPT !.rows = t]
    BY <1>2, <1>6
  <1> HIDE DEF w, t
  <1>9. /\ p \in OutSet /\ p.screen = Append(o.screen, l) /\ p.markdown = Append(o.markdown, l)
        /\ p.rows = t
    BY <1>16, <1>6, <1>7 DEF OutSet
  <1>10. Neighbours(o.screen[Len(o.screen)], l)
    BY <1>4, <1>5 DEF Neighbours
  <1>11. Laid(Append(o.screen, l))
    BY <1>1, <1>4, <1>5, <1>10, LaidMore
  <1>12. Under(Append(o.screen, l), section)
    BY <1>4, <1>5, UnderMore
  <1>13. Append(o.screen, l) # << >> /\ Last(Append(o.screen, l)) = l
    BY <1>4, <1>5, Appended DEF Last
  <1>14. Printing(p)
    BY <1>4, <1>8, <1>9, <1>11, <1>12, <1>13 DEF Printing, Together
  <1>15. QED
    BY <1>3, <1>9, <1>13, <1>14 DEF p, t, r

(* The loop of PrintEntries, after m entries.                              *)
Turning(after, entries, m) ==
    after = [n \in 0 .. m |->
                IF n = 0 THEN Blank ELSE PrintEntry(after[n - 1], entries[n])]

LEMMA TurningExists ==
  ASSUME NEW entries
  PROVE  \A m \in Nat : \E after : Turning(after, entries, m)
  <1> DEFINE S == {m \in Nat : \E after : Turning(after, entries, m)}
  <1>1. 0 \in S
    <2>1. Turning([n \in 0 .. 0 |-> Blank], entries, 0)
      BY DEF Turning
    <2>2. QED
      BY <2>1
  <1>2. ASSUME NEW m \in Nat, m \in S PROVE m + 1 \in S
    <2>1. PICK f : Turning(f, entries, m)
      BY <1>2
    <2> DEFINE x == PrintEntry(f[m], entries[m + 1])
               g == [n \in 0 .. m + 1 |-> IF n = m + 1 THEN x ELSE f[n]]
    <2> HIDE DEF x
    <2>2. ASSUME NEW n \in 0 .. m + 1
          PROVE  g[n] = IF n = 0 THEN Blank ELSE PrintEntry(g[n - 1], entries[n])
      <3>1. CASE n = 0
        <4>1. f[0] = Blank
          BY <2>1 DEF Turning
        <4>2. QED
          BY <3>1, <4>1
      <3>2. CASE n = m + 1
        <4>1. g[n] = x /\ g[n - 1] = f[m]
          BY <3>2
        <4>2. QED
          BY <3>2, <4>1 DEF x
      <3>3. CASE n \in 1 .. m
        <4>1. g[n] = f[n] /\ g[n - 1] = f[n - 1]
          BY <3>3
        <4>2. n \in 0 .. m /\ n # 0
          BY <3>3
        <4>3. f[n] = PrintEntry(f[n - 1], entries[n])
          BY <2>1, <4>2 DEF Turning
        <4>4. QED
          BY <3>3, <4>1, <4>3
      <3>4. QED
        BY <3>1, <3>2, <3>3
    <2>3. Turning(g, entries, m + 1)
      <3> HIDE DEF g
      <3>1. g = [n \in 0 .. m + 1 |-> g[n]]
        BY DEF g
      <3>2. QED
        BY <2>2, <3>1 DEF Turning
    <2>4. QED
      BY <2>3
  <1>3. QED
    BY <1>1, <1>2, NatSets

LEMMA NothingPrinted == Printing(Blank) /\ Blank.screen = << >> /\ Blank.rows = << >>
  <1>1. Blank.screen = << >> /\ Blank.markdown = << >> /\ Blank.rows = << >>
    BY DEF Blank
  <1>2. Blank \in OutSet
    BY DEF Blank, OutSet
  <1>3. RowLines(<< >>) = {} /\ Len(<< >>) = 0 /\ DOMAIN << >> = {} /\ Cardinality({}) = 0
    BY FS_EmptySet DEF RowLines
  <1>4. Shows(<< >>, << >>)
    BY <1>3 DEF Shows
  <1>5. Counted(<< >>, << >>)
    BY <1>3 DEF Counted
  <1>6. Laid(<< >>)
    BY <1>3 DEF Laid
  <1>7. QED
    BY <1>1, <1>2, <1>4, <1>5, <1>6 DEF Printing, Together

(* Every entry of the baseline has its row, in its place.                  *)
LEMMA EntriesPrinted ==
  ASSUME tool \in {"custom", "google"}, cur \in Seq(Entries), NEW entries \in Seq(Entries)
  PROVE  /\ Printing(PrintEntries(entries))
         /\ Len(PrintEntries(entries).rows) = Len(entries)
         /\ \A i \in 1 .. Len(entries) :
               PrintEntries(entries).rows[i] = Row(entries[i], GetCns(cur, entries[i]))
         /\ PrintEntries(entries).screen = << >> <=> entries = << >>
  <1> DEFINE f == CHOOSE after : Turning(after, entries, Len(entries))
             R(i) == Row(entries[i], GetCns(cur, entries[i]))
             Done(m) == /\ Printing(f[m]) /\ Len(f[m].rows) = m
                        /\ \A i \in 1 .. m : f[m].rows[i] = R(i)
                        /\ f[m].screen = << >> <=> m = 0
             S == {m \in Nat : m <= Len(entries) => Done(m)}
  <1>1. Len(entries) \in Nat /\ DOMAIN entries = 1 .. Len(entries)
    OBVIOUS
  <1>2. Turning(f, entries, Len(entries))
    BY <1>1, TurningExists
  <1>3. PrintEntries(entries) = f[Len(entries)]
    BY DEF PrintEntries, Turning
  <1> HIDE DEF f, R
  <1>4. 0 \in S
    <2>1. f[0] = Blank
      BY <1>1, <1>2 DEF Turning
    <2>2. Done(0)
      BY <2>1, NothingPrinted
    <2> HIDE DEF Done
    <2>3. QED
      BY <2>2
  <1>5. ASSUME NEW m \in Nat, m \in S PROVE m + 1 \in S
    <2> HIDE DEF Done
    <2> SUFFICES ASSUME m + 1 <= Len(entries) PROVE Done(m + 1)
      OBVIOUS
    <2> DEFINE g == f[m]
               e == entries[m + 1]
    <2>1. Done(m)
      BY <1>1, <1>5
    <2>2. /\ Printing(g) /\ Len(g.rows) = m /\ \A i \in 1 .. m : g.rows[i] = R(i)
      BY <2>1 DEF Done
    <2>3. e \in Entries
      BY <1>1
    <2>4. f[m + 1] = PrintEntry(g, e)
      <3>1. m + 1 \in 0 .. Len(entries) /\ m + 1 # 0 /\ (m + 1) - 1 = m
        BY <1>1
      <3>2. QED
        BY <1>2, <3>1 DEF Turning
    <2>5. R(m + 1) = Row(e, GetCns(cur, e))
      BY DEF R
    <2> HIDE DEF g, e
    <2>6. /\ Printing(f[m + 1]) /\ f[m + 1].screen # << >>
          /\ f[m + 1].rows = Append(g.rows, R(m + 1))
      BY <2>2, <2>3, <2>4, <2>5, EntryPrinted
    <2>7. g.rows \in Seq(RowSet)
      BY <2>2 DEF Printing, OutSet
    <2>8. R(m + 1) \in RowSet
      BY <2>3, <2>5, FigureIsMeasured DEF RowSet
    <2>9. /\ Len(f[m + 1].rows) = m + 1 /\ f[m + 1].rows[m + 1] = R(m + 1)
          /\ \A i \in 1 .. m : f[m + 1].rows[i] = g.rows[i]
      BY <2>2, <2>6, <2>7, <2>8, Appended
    <2>10. ASSUME NEW i \in 1 .. m + 1 PROVE f[m + 1].rows[i] = R(i)
      <3>1. CASE i = m + 1
        BY <2>9, <3>1
      <3>2. CASE i \in 1 .. m
        BY <2>2, <2>9, <3>2
      <3>3. QED
        BY <3>1, <3>2
    <2>11. QED
      BY <2>6, <2>9, <2>10 DEF Done
  <1> HIDE DEF Done
  <1>6. Len(entries) \in S
    BY <1>1, <1>4, <1>5, NatSets
  <1>7. Done(Len(entries))
    BY <1>1, <1>6
  <1>8. Len(entries) = 0 <=> entries = << >>
    OBVIOUS
  <1>9. QED
    BY <1>3, <1>7, <1>8 DEF Done, R

(* The tables as printRegression() leaves them.                            *)
TablesClosed(lines, rs) ==
    /\ Shows(lines, rs)
    /\ \A i \in DOMAIN lines : LineFits(lines, i)
    /\ lines # << >> => lines[1].is = "heading" /\ Last(lines).is = "end"

LEMMA TablesEnded ==
  ASSUME NEW out, Printing(out)
  PROVE  /\ TablesClosed(EndTables(out.screen), out.rows)
         /\ EndTables(out.screen) = << >> <=> out.screen = << >>
  <1> DEFINE s == out.screen
             l == EndTable
             p == Append(s, l)
             n == Len(s)
  <1>1. s \in Seq(LineSet) /\ Laid(s) /\ Shows(s, out.rows)
    BY DEF Printing, OutSet, Together
  <1>2. CASE s = << >>
    <2>1. EndTables(s) = << >> /\ DOMAIN << >> = {}
      BY <1>2 DEF EndTables
    <2>2. QED
      BY <1>1, <1>2, <2>1 DEF TablesClosed
  <1>3. CASE s # << >>
    <2>1. EndTables(s) = p
      BY <1>3 DEF EndTables
    <2>2. l \in LineSet /\ l.is = "end"
      BY LineKinds
    <2>3. s[Len(s)].is = "row"
      BY <1>3 DEF Printing, Last
    <2> HIDE DEF s, l
    <2>4. Neighbours(s[Len(s)], l)
      BY <2>2, <2>3 DEF Neighbours
    <2>5. Laid(p) /\ Shows(p, out.rows)
      <3>1. Laid(p)
        BY <1>1, <1>3, <2>2, <2>4, LaidMore
      <3>2. QED
        BY <1>1, <2>2, <3>1, OtherLineMore
    <2>6. /\ n \in Nat /\ Len(p) = n + 1 /\ DOMAIN p = 1 .. n + 1 /\ p[n + 1] = l /\ p # << >>
      BY <1>1, <2>2, Appended
    <2> HIDE DEF n, p
    <2>7. /\ \A i \in 1 .. n : Neighbours(p[i], p[i + 1])
          /\ \A i \in 1 .. n + 1 : InItsTable(p, i)
          /\ p[1].is = "heading"
      BY <2>5, <2>6 DEF Laid
    <2>8. ASSUME NEW i \in 1 .. n + 1 PROVE LineFits(p, i)
      <3>1. p[i].is # "end" => Neighbours(p[i], p[i + 1])
        BY <2>2, <2>6, <2>7
      <3>2. i > 1 => Neighbours(p[i - 1], p[i])
        <4>1. i > 1 => i - 1 \in 1 .. n /\ (i - 1) + 1 = i
          BY <2>6
        <4>2. QED
          BY <2>7, <4>1
      <3>3. p[i].is = "row" => i > 1
        BY <2>6, <2>7
      <3>4. InItsTable(p, i)
        BY <2>7
      <3>5. QED
        BY <3>1, <3>2, <3>3, <3>4 DEF LineFits, Neighbours, InItsTable
    <2>9. QED
      BY <1>3, <2>1, <2>2, <2>5, <2>6, <2>7, <2>8 DEF TablesClosed, Last, s
  <1>4. QED
    BY <1>2, <1>3

-----------------------------------------------------------------------------
(* What each part of the state may be.                                     *)

DiskTyped ==
    /\ tool \in {"custom", "google"}
    /\ DOMAIN folders \subseteq Names /\ \A n \in DOMAIN folders : folders[n] \in Files(tool)
    /\ live \in Files(tool) /\ writable \in BOOLEAN /\ edits \in 0 .. MaxEdits

VisitTyped ==
    left \subseteq Names /\ opened \subseteq Names /\ newest \in Names \cup {NoName}

ChoiceTyped  == baseFile \in FileNames /\ curFile \in FileNames \cup {Live}
EntriesTyped == base \in Seq(Entries) /\ cur \in Seq(Entries)

TypeInv == DiskTyped /\ VisitTyped /\ ChoiceTyped /\ EntriesTyped

LEMMA TypeInit == Init => TypeInv
  <1> SUFFICES ASSUME Init PROVE TypeInv
    OBVIOUS
  <1>1. DiskTyped
    <2>1. PICK present \in SUBSET Names : folders \in [present -> Files(tool)]
      BY DEF Init
    <2>2. 0 \in 0 .. MaxEdits
      BY ToolAssumption
    <2>3. QED
      BY <2>1, <2>2 DEF Init, DiskTyped
  <1>2. VisitTyped /\ ChoiceTyped
    BY DEF Init, VisitTyped, ChoiceTyped, FileNames
  <1>3. EntriesTyped
    BY DEF Init, EntriesTyped
  <1>4. QED
    BY <1>1, <1>2, <1>3 DEF TypeInv

(* Whatever is read from a file is a list of entries.                      *)
LEMMA FileRead ==
  ASSUME DiskTyped, NEW f
  PROVE  FileOf(f).entries \in Seq(Entries)
  <1>1. FileOf(f) \in Files(tool)
    BY DEF DiskTyped, FileOf, Files
  <1>2. ASSUME NEW s \in Snapshots[tool] PROVE s \in Seq(Entries)
    <2>1. s \in Seq(ToSet(s)) /\ ToSet(s) \subseteq Entries
      BY ToolAssumption DEF DiskTyped, Entries
    <2>2. QED
      BY <2>1
  <1>3. << >> \in Seq(Entries)
    OBVIOUS
  <1>4. CASE FileOf(f) \in {Absent, Truncated}
    <2>1. Absent.entries = << >> /\ Truncated.entries = << >>
      BY DEF Absent, Truncated
    <2>2. QED
      BY <1>3, <1>4, <2>1
  <1>5. ASSUME NEW s \in Snapshots[tool], FileOf(f) = Whole(s)
        PROVE  FileOf(f).entries \in Seq(Entries)
    <2>1. FileOf(f).entries = s
      BY <1>5 DEF Whole
    <2>2. QED
      BY <1>2, <2>1
  <1>6. QED
    BY <1>1, <1>4, <1>5 DEF Files

LEMMA DiskKept ==
  ASSUME DiskTyped, [Next]_vars
  PROVE  DiskTyped' /\ tool' = tool
  <1>1. CASE ToolStep \/ UNCHANGED vars
    <2>1. UNCHANGED disk /\ writable' \in {writable} \cup BOOLEAN
      BY <1>1 DEF ToolStep, Begin, ListBaselines, ListMethods, ShowMethods, ChooseNamed,
         BeginScan, ScanFolder, EndScan, ResolveName, ResolveMethodId, ResolveLetterGroup,
         LoadBaseline, LoadCurrent, ApplyMethodFilter, PrintRegression, ExportJson,
         ExportMarkdown, reports, vars
    <2>2. UNCHANGED <<tool, folders, live, edits>>
      BY <2>1 DEF disk
    <2>3. QED
      BY <2>1, <2>2 DEF DiskTyped, Files
  <1>2. ASSUME NEW n \in Names, MakeFolder(n) PROVE DiskTyped' /\ tool' = tool
    <2>1. /\ folders' = [m \in DOMAIN folders \cup {n} |-> IF m = n THEN Absent ELSE folders[m]]
          /\ edits < MaxEdits /\ edits' = edits + 1
          /\ UNCHANGED <<tool, live, writable>>
      BY <1>2 DEF MakeFolder, Edit, reports
    <2>2. edits' \in 0 .. MaxEdits
      BY <2>1, ToolAssumption DEF DiskTyped
    <2>3. Files(tool)' = Files(tool) /\ Absent \in Files(tool)
      BY <2>1 DEF Files
    <2>4. \A m \in DOMAIN folders' : folders'[m] \in Files(tool)
      BY <2>1, <2>3 DEF DiskTyped
    <2>5. DOMAIN folders' \subseteq Names
      BY <2>1 DEF DiskTyped
    <2>6. QED
      BY <2>1, <2>2, <2>3, <2>4, <2>5 DEF DiskTyped
  <1>3. ASSUME NEW f \in DOMAIN folders \cup {Live}, NEW file \in Files(tool),
               Edit, Store(f, file), UNCHANGED <<tool, writable>>
        PROVE  DiskTyped' /\ tool' = tool
    <2>1. edits' \in 0 .. MaxEdits
      BY <1>3, ToolAssumption DEF DiskTyped, Edit
    <2>2. Files(tool)' = Files(tool)
      BY <1>3 DEF Files
    <2>3. /\ DOMAIN folders' = DOMAIN folders /\ live' \in {live, file}
          /\ \A m \in DOMAIN folders : folders'[m] \in {folders[m], file}
      BY <1>3 DEF Store
    <2>4. QED
      BY <1>3, <2>1, <2>2, <2>3 DEF DiskTyped
  <1>4. CASE OthersStep
    <2>1. ASSUME NEW f \in DOMAIN folders \cup {Live}, StartWrite(f)
          PROVE  DiskTyped' /\ tool' = tool
      <3>1. Truncated \in Files(tool)
        BY DEF Files
      <3>2. Edit /\ Store(f, Truncated) /\ UNCHANGED <<tool, writable>>
        BY <2>1 DEF StartWrite, reports
      <3>3. QED
        BY <1>3, <3>1, <3>2
    <2>2. ASSUME NEW f \in DOMAIN folders \cup {Live}, NEW s \in Snapshots[tool], FinishWrite(f, s)
          PROVE  DiskTyped' /\ tool' = tool
      <3>1. Whole(s) \in Files(tool)
        BY DEF Files
      <3>2. Edit /\ Store(f, Whole(s)) /\ UNCHANGED <<tool, writable>>
        BY <2>2 DEF FinishWrite, reports
      <3>3. QED
        BY <1>3, <3>1, <3>2
    <2>3. QED
      BY <1>2, <1>4, <2>1, <2>2 DEF OthersStep
  <1>5. QED
    BY <1>1, <1>4 DEF Next

LEMMA VisitKept ==
  ASSUME TypeInv, [Next]_vars
  PROVE  VisitTyped'
  <1>0. VisitTyped /\ DOMAIN folders \subseteq Names /\ Mine \subseteq Names
    BY DEF TypeInv, DiskTyped, Mine
  <1>1. CASE UNCHANGED search
    BY <1>0, <1>1 DEF VisitTyped, search
  <1>2. CASE ListMethods
    <2>1. left' \in {left} \cup SUBSET Mine /\ UNCHANGED <<newest, opened>>
      BY <1>2 DEF ListMethods
    <2>2. QED
      BY <1>0, <2>1 DEF VisitTyped
  <1>3. CASE \E n \in left : ShowMethods(n)
    <2>1. left' \subseteq left /\ UNCHANGED <<newest, opened>>
      BY <1>3 DEF ShowMethods
    <2>2. QED
      BY <1>0, <2>1 DEF VisitTyped
  <1>4. CASE BeginScan
    BY <1>0, <1>4 DEF VisitTyped, BeginScan
  <1>5. CASE \E n \in left : ScanFolder(n)
    <2>1. left' \subseteq left /\ newest' \in {newest} \cup left /\ opened' = opened
      BY <1>5 DEF ScanFolder
    <2>2. QED
      BY <1>0, <2>1 DEF VisitTyped
  <1>6. CASE OthersStep
    <2>1. left' \subseteq left \cup Names /\ UNCHANGED <<newest, opened>>
      BY <1>6 DEF OthersStep, MakeFolder, StartWrite, FinishWrite, search
    <2>2. QED
      BY <1>0, <2>1 DEF VisitTyped
  <1>7. CASE UNCHANGED vars
    BY <1>1, <1>7 DEF vars
  <1>8. QED
    <2>1. ToolStep => \/ UNCHANGED search \/ ListMethods \/ BeginScan
                      \/ \E n \in left : ShowMethods(n) \/ ScanFolder(n)
      BY DEF ToolStep, Begin, ListBaselines, ChooseNamed, EndScan, ResolveName,
         ResolveMethodId, ResolveLetterGroup, LoadBaseline, LoadCurrent,
         ApplyMethodFilter, PrintRegression, ExportJson, ExportMarkdown
    <2>2. QED
      BY <1>1, <1>2, <1>3, <1>4, <1>5, <1>6, <1>7, <2>1 DEF Next

LEMMA ChoiceKept ==
  ASSUME TypeInv, [Next]_vars
  PROVE  ChoiceTyped'
  <1>1. CASE UNCHANGED <<baseFile, curFile>>
    BY <1>1 DEF TypeInv, ChoiceTyped, FileNames
  <1>2. CASE ChooseNamed
    <2>1. ASSUME NEW w, IsVersionArg(w) PROVE w \in FileNames
      BY <2>1 DEF IsVersionArg, StartsWithV, FileNames
    <2>2. /\ VersionCount(args) \in {0, 1, 2}
          /\ VersionCount(args) >= 1 => IsVersionArg(args[1])
          /\ VersionCount(args) = 2 => IsVersionArg(args[2])
      BY DEF VersionCount
    <2>3. baseFile' \in FileNames /\ curFile' \in FileNames \cup {Live}
      BY <1>2, <2>1, <2>2 DEF ChooseNamed
    <2>4. QED
      BY <2>3 DEF ChoiceTyped, FileNames
  <1>3. CASE EndScan
    BY <1>3 DEF EndScan, TypeInv, VisitTyped, ChoiceTyped, FileNames
  <1>4. QED
    <2>1. ToolStep => UNCHANGED <<baseFile, curFile>> \/ ChooseNamed \/ EndScan
      BY DEF ToolStep, Begin, ListBaselines, ListMethods, ShowMethods, BeginScan,
         ScanFolder, ResolveName, ResolveMethodId, ResolveLetterGroup, LoadBaseline,
         LoadCurrent, ApplyMethodFilter, PrintRegression, ExportJson, ExportMarkdown, request
    <2>2. OthersStep => UNCHANGED <<baseFile, curFile>>
      BY DEF OthersStep, MakeFolder, StartWrite, FinishWrite, request
    <2>3. UNCHANGED vars => UNCHANGED <<baseFile, curFile>>
      BY DEF vars, request
    <2>4. QED
      BY <1>1, <1>2, <1>3, <2>1, <2>2, <2>3 DEF Next

LEMMA EntriesKept ==
  ASSUME TypeInv, [Next]_vars
  PROVE  EntriesTyped'
  <1>1. tool' = tool /\ Entries' = Entries
    BY DiskKept DEF TypeInv, Entries
  <1>2. EntriesTyped /\ DiskTyped
    BY DEF TypeInv
  <1>3. CASE UNCHANGED <<base, cur>>
    BY <1>1, <1>2, <1>3 DEF EntriesTyped
  <1>4. CASE LoadBaseline
    <2>1. base' \in Seq(Entries) /\ cur' = cur
      BY <1>2, <1>4, FileRead DEF LoadBaseline
    <2>2. QED
      BY <1>1, <1>2, <2>1 DEF EntriesTyped
  <1>5. CASE LoadCurrent
    <2>1. cur' \in Seq(Entries) /\ base' = base
      BY <1>2, <1>5, FileRead DEF LoadCurrent
    <2>2. QED
      BY <1>1, <1>2, <2>1 DEF EntriesTyped
  <1>6. CASE ApplyMethodFilter
    <2>1. ASSUME NEW s \in Seq(Entries) PROVE KeepWanted(s) \in Seq(Entries)
      BY AtKeeps DEF KeepWanted
    <2>2. base' \in {base, KeepWanted(base)} /\ cur' \in {cur, KeepWanted(cur)}
      BY <1>6 DEF ApplyMethodFilter
    <2>3. QED
      BY <1>1, <1>2, <2>1, <2>2 DEF EntriesTyped
  <1>7. QED
    <2>1. ToolStep => \/ UNCHANGED <<base, cur>>
                      \/ LoadBaseline \/ LoadCurrent \/ ApplyMethodFilter
      BY DEF ToolStep, Begin, ListBaselines, ListMethods, ShowMethods, ChooseNamed, BeginScan,
         ScanFolder, EndScan, ResolveName, ResolveMethodId, ResolveLetterGroup,
         PrintRegression, ExportJson, ExportMarkdown, data
    <2>2. OthersStep => UNCHANGED <<base, cur>>
      BY DEF OthersStep, MakeFolder, StartWrite, FinishWrite, data
    <2>3. UNCHANGED vars => UNCHANGED <<base, cur>>
      BY DEF vars, data
    <2>4. QED
      BY <1>3, <1>4, <1>5, <1>6, <2>1, <2>2, <2>3 DEF Next

LEMMA TypeStep ==
  ASSUME TypeInv, [Next]_vars
  PROVE  TypeInv'
  BY DiskKept, VisitKept, ChoiceKept, EntriesKept DEF TypeInv

LEMMA TypeInvAlways == Spec => []TypeInv
  BY TypeInit, TypeStep, PTL DEF Spec

-----------------------------------------------------------------------------
(* What a run that was asked for some methods compares.                    *)

(* The steps after the filter word has been resolved, and those after the  *)
(* filter has been applied.                                                *)
Resolved == \/ pc \in {"loadBaseline", "loadCurrent", "filter", "compare rows",
                       "exportJson", "exportMarkdown"}
            \/ Compared
Filtered == pc \in {"compare rows", "exportJson", "exportMarkdown"} \/ Compared

WantedIsAsked ==
    LET f == Filter(args)
    IN  f # << >> =>
          /\ wanted # {}
          /\ IsMethodId(f) =>
                \E m \in wanted : wanted = {m} /\ LetterOf[m] = MethodIds[f[1]].letter
          /\ IsLetterGroup(f) => \A m \in wanted : LetterOf[m] = GroupLetters[f[1]]

KeptIsWanted ==
    Filter(args) # << >> =>
        base # << >> /\ cur # << >> /\ OpsOf(base) \cup OpsOf(cur) \subseteq wanted

WantedInv == (Resolved => WantedIsAsked) /\ (Filtered => KeptIsWanted)

(* One letter's methods all have that letter.                              *)
LEMMA GroupHasItsLetter ==
  ASSUME NEW entries, NEW letter, NEW i \in DOMAIN Group(entries, letter)
  PROVE  LetterOf[Group(entries, letter)[i]] = letter
  <1> DEFINE P == {k \in DOMAIN Methods : /\ Methods[k] \in OpsOf(entries)
                                         /\ LetterOf[Methods[k]] = letter}
  <1>1. Methods \in Seq(ToSet(Methods))
    BY ToolAssumption
  <1>2. Group(entries, letter) = At(Methods, P)
    BY DEF Group
  <1>3. \A k \in P : LetterOf[Methods[k]] = letter
    OBVIOUS
  <1> HIDE DEF P
  <1>4. \E k \in P \cap DOMAIN Methods : At(Methods, P)[i] = Methods[k]
    BY <1>1, <1>2, KeptFrom
  <1>5. QED
    BY <1>2, <1>3, <1>4

(* What the filter keeps is wanted.                                        *)
LEMMA FilterKeepsWanted ==
  ASSUME NEW s \in Seq(Entries)
  PROVE  OpsOf(KeepWanted(s)) \subseteq wanted
  <1> DEFINE P == {i \in DOMAIN s : s[i].op \in wanted}
  <1>1. KeepWanted(s) = At(s, P)
    BY DEF KeepWanted
  <1>2. \A i \in P : s[i].op \in wanted
    OBVIOUS
  <1> HIDE DEF P
  <1>3. ASSUME NEW k \in DOMAIN At(s, P) PROVE At(s, P)[k].op \in wanted
    <2>1. PICK i \in P \cap DOMAIN s : At(s, P)[k] = s[i]
      BY KeptFrom
    <2>2. QED
      BY <1>2, <2>1
  <1>4. QED
    BY <1>1, <1>3 DEF OpsOf

LEMMA ResolvedAsAsked ==
  ASSUME TypeInv, ResolveName \/ ResolveMethodId \/ ResolveLetterGroup
  PROVE  pc' = "loadBaseline" => WantedIsAsked'
  <1> DEFINE f == Filter(args)
  <1>1. args' = args /\ Filter(args)' = f
    BY DEF ResolveName, ResolveMethodId, ResolveLetterGroup, Filter, VersionCount
  <1>2. CASE ResolveName
    <2>1. ~IsMethodId(f) /\ ~IsLetterGroup(f) /\ wanted' = IF f = << >> THEN {} ELSE {f}
      BY <1>2 DEF ResolveName
    <2> HIDE DEF f
    <2>2. QED
      BY <1>1, <2>1 DEF WantedIsAsked
  <1>3. CASE ResolveMethodId
    <2> SUFFICES ASSUME pc' = "loadBaseline" PROVE WantedIsAsked'
      OBVIOUS
    <2> DEFINE id == MethodIds[f[1]]
               entries == FileOf(baseFile).entries
               group == Group(entries, id.letter)
    <2>1. IsMethodId(f) /\ id.index \in 1 .. Len(group) /\ wanted' = {group[id.index]}
      BY <1>3 DEF ResolveMethodId, Goto
    <2>2. group \in Seq(ToSet(Methods))
      BY ToolAssumption, AtKeeps DEF Group
    <2>3. id.index \in DOMAIN group
      BY <2>1, <2>2
    <2>4. LetterOf[group[id.index]] = id.letter
      BY <2>3, GroupHasItsLetter
    <2> HIDE DEF group, entries
    <2>5. ~IsLetterGroup(f)
      BY <2>1, ToolAssumption DEF IsMethodId, IsLetterGroup
    <2> HIDE DEF f
    <2>6. QED
      BY <1>1, <2>1, <2>4, <2>5 DEF WantedIsAsked
  <1>4. CASE ResolveLetterGroup
    <2> SUFFICES ASSUME pc' = "loadBaseline" PROVE WantedIsAsked'
      OBVIOUS
    <2> DEFINE letter == GroupLetters[f[1]]
               group  == Group(FileOf(baseFile).entries, letter)
    <2>1. IsLetterGroup(f) /\ group # << >> /\ wanted' = {group[i] : i \in DOMAIN group}
      BY <1>4 DEF ResolveLetterGroup, Goto
    <2>2. \A i \in DOMAIN group : LetterOf[group[i]] = letter
      BY GroupHasItsLetter
    <2>3. group \in Seq(ToSet(Methods))
      BY ToolAssumption, AtKeeps DEF Group
    <2> HIDE DEF group
    <2>4. DOMAIN group # {}
      BY <2>1, <2>3
    <2>5. wanted' # {} /\ \A m \in wanted' : LetterOf[m] = letter
      BY <2>1, <2>2, <2>4
    <2>6. ~IsMethodId(f)
      BY <2>1, ToolAssumption DEF IsMethodId, IsLetterGroup
    <2> HIDE DEF f
    <2>7. QED
      BY <1>1, <2>5, <2>6 DEF WantedIsAsked
  <1>5. QED
    BY <1>2, <1>3, <1>4

(* A step that chooses no methods and leaves both sides as they are.       *)
LEMMA WantedUntouched ==
  ASSUME WantedInv, UNCHANGED <<args, wanted, base, cur>>,
         Resolved' => Resolved, Filtered' => Filtered
  PROVE  WantedInv'
  <1>1. WantedIsAsked' <=> WantedIsAsked
    BY DEF WantedIsAsked, Filter, VersionCount
  <1>2. KeptIsWanted' <=> KeptIsWanted
    BY DEF KeptIsWanted, Filter, VersionCount, OpsOf
  <1>3. QED
    BY <1>1, <1>2 DEF WantedInv

LEMMA WantedStep ==
  ASSUME TypeInv, ReportsInv, WantedInv, [Next]_vars
  PROVE  WantedInv'
  <1>1. CASE \E a \in ArgLists : Begin(a)
    <2>1. PICK a \in ArgLists : Begin(a)
      BY <1>1
    <2>2. args' = a /\ pc' = (IF Command(a) = "usage" THEN "done" ELSE Command(a))
      BY <2>1 DEF Begin, Goto
    <2>3. Command(a) \in {"list", "methods", "usage", "compare"}
      BY DEF Command
    <2>4. Command(args)' = Command(a)
      BY <2>2 DEF Command
    <2>5. ~Resolved' /\ ~Filtered'
      BY <2>2, <2>3, <2>4 DEF Resolved, Filtered, Compared
    <2>6. QED
      BY <2>5 DEF WantedInv
  <1>2. CASE ListBaselines \/ ListMethods \/ \E n \in left : ShowMethods(n)
    <2>1. /\ pc \in {"list", "methods", "show"} /\ args' = args
          /\ pc' \in {"done", "failed", "show"}
      BY <1>2 DEF ListBaselines, ListMethods, ShowMethods, Goto, request
    <2>2. Command(args)' # "compare"
      BY <2>1 DEF Command, ReportsInv
    <2>3. ~Resolved' /\ ~Filtered'
      BY <2>1, <2>2 DEF Resolved, Filtered, Compared
    <2>4. QED
      BY <2>3 DEF WantedInv
  <1>3. CASE ChooseNamed \/ BeginScan \/ EndScan \/ \E n \in left : ScanFolder(n)
    <2>1. pc \in {"compare", "scan"} /\ pc' \in {"resolve", "scan", "failed"}
      BY <1>3 DEF ChooseNamed, BeginScan, ScanFolder, EndScan, Goto
    <2>2. ~Resolved' /\ ~Filtered'
      BY <2>1 DEF Resolved, Filtered, Compared
    <2>3. QED
      BY <2>2 DEF WantedInv
  <1>4. CASE ResolveName \/ ResolveMethodId \/ ResolveLetterGroup
    <2>1. pc' \in {"loadBaseline", "failed"}
      BY <1>4 DEF ResolveName, ResolveMethodId, ResolveLetterGroup, Goto
    <2>2. ~Filtered' /\ (Resolved' => pc' = "loadBaseline")
      BY <2>1 DEF Resolved, Filtered, Compared
    <2>3. QED
      BY <1>4, <2>2, ResolvedAsAsked DEF WantedInv
  <1>5. CASE LoadBaseline \/ LoadCurrent
    <2>1. /\ pc \in {"loadBaseline", "loadCurrent"} /\ UNCHANGED <<args, wanted>>
          /\ pc' \in {"loadCurrent", "filter", "failed"}
      BY <1>5 DEF LoadBaseline, LoadCurrent, Goto, request
    <2>2. Resolved /\ ~Filtered'
      BY <2>1 DEF Resolved, Filtered, Compared
    <2>3. WantedIsAsked'
      BY <2>1, <2>2 DEF WantedInv, WantedIsAsked, Filter, VersionCount
    <2>4. QED
      BY <2>2, <2>3 DEF WantedInv
  <1>6. CASE ApplyMethodFilter
    <2>1. /\ pc = "filter" /\ UNCHANGED <<args, wanted>>
          /\ base' = (IF wanted = {} THEN base ELSE KeepWanted(base))
          /\ cur' = (IF wanted = {} THEN cur ELSE KeepWanted(cur))
          /\ pc' = IF wanted # {} /\ << >> \in {base', cur'} THEN "failed" ELSE "compare rows"
      BY <1>6 DEF ApplyMethodFilter, Goto, request
    <2>2. WantedIsAsked
      BY <2>1 DEF WantedInv, Resolved
    <2>3. WantedIsAsked' /\ (Filter(args) # << >> => wanted # {})
      BY <2>1, <2>2 DEF WantedIsAsked, Filter, VersionCount
    <2>4. Filtered' => pc' = "compare rows"
      BY <2>1 DEF Filtered, Compared
    <2>5. ASSUME pc' = "compare rows" PROVE KeptIsWanted'
      <3>1. CASE Filter(args) = << >>
        BY <2>1, <3>1 DEF KeptIsWanted, Filter, VersionCount
      <3>2. CASE Filter(args) # << >>
        <4>1. /\ base' = KeepWanted(base) /\ cur' = KeepWanted(cur)
              /\ base' # << >> /\ cur' # << >>
          BY <2>1, <2>3, <2>5, <3>2
        <4>2. OpsOf(KeepWanted(base)) \subseteq wanted /\ OpsOf(KeepWanted(cur)) \subseteq wanted
          BY FilterKeepsWanted DEF TypeInv, EntriesTyped
        <4>3. OpsOf(base)' \subseteq wanted /\ OpsOf(cur)' \subseteq wanted
          BY <4>1, <4>2 DEF OpsOf
        <4>4. QED
          BY <2>1, <4>1, <4>3 DEF KeptIsWanted
      <3>3. QED
        BY <3>1, <3>2
    <2>6. QED
      BY <2>3, <2>4, <2>5 DEF WantedInv
  <1>7. CASE PrintRegression \/ ExportJson \/ ExportMarkdown
    <2>1. /\ pc \in {"compare rows", "exportJson", "exportMarkdown"}
          /\ UNCHANGED <<args, wanted, base, cur>>
      BY <1>7 DEF PrintRegression, ExportJson, ExportMarkdown, request, data
    <2>2. Resolved /\ Filtered
      BY <2>1 DEF Resolved, Filtered
    <2>3. QED
      BY <2>1, <2>2, WantedUntouched
  <1>8. CASE OthersStep \/ UNCHANGED vars
    <2>1. UNCHANGED <<pc, args, wanted, base, cur>>
      BY <1>8 DEF OthersStep, MakeFolder, StartWrite, FinishWrite, vars, request, data
    <2>2. Command(args)' = Command(args)
      BY <2>1 DEF Command
    <2>3. (Resolved' <=> Resolved) /\ (Filtered' <=> Filtered)
      BY <2>1, <2>2 DEF Resolved, Filtered, Compared
    <2>4. QED
      BY <2>1, <2>3, WantedUntouched
  <1>9. QED
    BY <1>1, <1>2, <1>3, <1>4, <1>5, <1>6, <1>7, <1>8 DEF Next, ToolStep

-----------------------------------------------------------------------------
(* What is on the screen, in the markdown and among the recorded rows.     *)

NoTables == rows = << >> /\ markdown = << >> /\ printed = << >>

TablesOfBase ==
    /\ rows = [i \in DOMAIN base |-> Row(base[i], GetCns(cur, base[i]))]
    /\ TablesClosed(printed, rows) /\ (rows # << >> => printed # << >>)
    /\ Shows(markdown, rows) /\ Counted(markdown, rows)

TablesInv ==
    /\ NoTables \/ TablesOfBase
    /\ pc \notin {"exportJson", "exportMarkdown", "done"} => NoTables
    /\ pc \in {"exportJson", "exportMarkdown"} \/ Compared => TablesOfBase

LEMMA FigureSame ==
  ASSUME UNCHANGED <<tool, cur>>, NEW e
  PROVE  GetCns(cur, e)' = GetCns(cur, e)
  <1> DEFINE hits == {i \in DOMAIN cur : Matches(cur[i], e)}
  <1>1. hits' = hits
    BY DEF Matches, CustomMatches, GoogleMatches
  <1>2. GetCns(cur, e) = IF hits = {} THEN 0
                         ELSE cur[CHOOSE i \in hits : \A j \in hits : i <= j].ns
    BY DEF GetCns
  <1>3. GetCns(cur, e)' = IF hits' = {} THEN 0
                          ELSE cur'[CHOOSE i \in hits' : \A j \in hits' : i <= j].ns
    BY DEF GetCns
  <1> HIDE DEF hits
  <1>4. QED
    BY <1>1, <1>2, <1>3

LEMMA TablesSame ==
  ASSUME UNCHANGED <<tool, base, cur, rows, markdown, printed>>
  PROVE  (NoTables' <=> NoTables) /\ (TablesOfBase' <=> TablesOfBase)
  <1>1. NoTables' <=> NoTables
    BY DEF NoTables
  <1>3. \A e : GetCns(cur, e)' = GetCns(cur, e)
    BY FigureSame
  <1>4. \A e, cNs : Row(e, cNs)' = Row(e, cNs)
    BY DEF Row, CustomRow, GoogleRow
  <1>5. [i \in DOMAIN base |-> Row(base[i], GetCns(cur, base[i]))]' =
        [i \in DOMAIN base |-> Row(base[i], GetCns(cur, base[i]))]
    BY <1>3, <1>4
  <1>6. \A r : OwnSection(r)' = OwnSection(r)
    BY DEF OwnSection
  <1>7. \A lines, i : LineFits(lines, i)' <=> LineFits(lines, i)
    BY <1>6 DEF LineFits, Heads
  <1>8. TablesClosed(printed, rows)' <=> TablesClosed(printed, rows)
    BY <1>7 DEF TablesClosed, Shows, PlaceOf, RowLines
  <1>9. (Shows(markdown, rows) /\ Counted(markdown, rows))' <=>
        (Shows(markdown, rows) /\ Counted(markdown, rows))
    BY DEF Shows, PlaceOf, RowLines, Counted
  <1>10. QED
    BY <1>1, <1>5, <1>8, <1>9 DEF TablesOfBase

(* printRegression() makes the tables.                                     *)
LEMMA TablesMade ==
  ASSUME TypeInv, PrintRegression
  PROVE  TablesOfBase'
  <1> DEFINE out == PrintEntries(base)
             p == EndTables(out.screen)
             R == [i \in DOMAIN base |-> Row(base[i], GetCns(cur, base[i]))]
  <1>1. /\ rows' = out.rows /\ markdown' = out.markdown /\ printed' = p
        /\ UNCHANGED <<tool, base, cur>>
    BY DEF PrintRegression, disk
  <1>2. tool \in {"custom", "google"} /\ base \in Seq(Entries) /\ cur \in Seq(Entries)
    BY DEF TypeInv, DiskTyped, EntriesTyped
  <1>3. /\ Printing(out) /\ Len(out.rows) = Len(base)
        /\ \A i \in 1 .. Len(base) : out.rows[i] = Row(base[i], GetCns(cur, base[i]))
        /\ out.screen = << >> <=> base = << >>
    BY <1>2, EntriesPrinted
  <1> HIDE DEF out
  <1>4. TablesClosed(p, out.rows) /\ (p = << >> <=> out.screen = << >>)
    BY <1>3, TablesEnded
  <1>5. out.rows = R
    <2>1. out.rows \in Seq(RowSet)
      BY <1>3 DEF Printing, OutSet
    <2>2. DOMAIN out.rows = 1 .. Len(base) /\ DOMAIN base = 1 .. Len(base)
      BY <1>2, <1>3, <2>1
    <2>3. out.rows = [i \in DOMAIN out.rows |-> out.rows[i]]
      BY <2>1
    <2>4. QED
      BY <1>3, <2>2, <2>3
  <1>6. out.rows # << >> => p # << >>
    <2>1. base = << >> => R = << >>
      OBVIOUS
    <2>2. QED
      BY <1>3, <1>4, <1>5, <2>1
  <1>7. Shows(out.markdown, out.rows) /\ Counted(out.markdown, out.rows)
    BY <1>3 DEF Printing, Together
  <1> HIDE DEF p, R
  <1>8. R = R'
    <2>2. \A e : GetCns(cur, e)' = GetCns(cur, e)
      BY <1>1, FigureSame
    <2>3. \A e, cNs : Row(e, cNs)' = Row(e, cNs)
      BY <1>1 DEF Row, CustomRow, GoogleRow
    <2>4. QED
      BY <1>1, <2>2, <2>3 DEF R
  <1>9. TablesClosed(printed, rows)'
    <2>1. \A r : OwnSection(r)' = OwnSection(r)
      BY <1>1 DEF OwnSection
    <2>2. \A lines, i : LineFits(lines, i)' <=> LineFits(lines, i)
      BY <2>1 DEF LineFits, Heads
    <2>3. QED
      BY <1>1, <1>4, <2>2 DEF TablesClosed, Shows, PlaceOf, RowLines
  <1>10. Shows(markdown, rows)'
    BY <1>1, <1>7 DEF Shows, PlaceOf, RowLines
  <1>12. Counted(markdown, rows)'
    <2>1. Counted(markdown', rows')
      BY <1>1, <1>7
    <2>2. QED
      BY <2>1 DEF Counted, RowLines
  <1>11. QED
    BY <1>1, <1>5, <1>6, <1>8, <1>9, <1>10, <1>12 DEF TablesOfBase, R

LEMMA TablesInit == Init => TablesInv
  BY DEF Init, TablesInv, NoTables, Compared

(* A step that leaves the tables as they are.                              *)
LEMMA TablesUntouched ==
  ASSUME TablesInv, UNCHANGED <<tool, base, cur, rows, markdown, printed>>,
         pc' \notin {"exportJson", "exportMarkdown", "done"} =>
             pc \notin {"exportJson", "exportMarkdown", "done"},
         pc' \in {"exportJson", "exportMarkdown"} \/ Compared' =>
             pc \in {"exportJson", "exportMarkdown"} \/ Compared
  PROVE  TablesInv'
  BY TablesSame DEF TablesInv

LEMMA TablesStep ==
  ASSUME TypeInv, ReportsInv, TablesInv, [Next]_vars
  PROVE  TablesInv'
  <1>0. tool' = tool
    BY DiskKept DEF TypeInv
  <1>1. CASE \E a \in ArgLists : Begin(a)
    <2>1. PICK a \in ArgLists : Begin(a)
      BY <1>1
    <2>2. /\ pc = "idle" /\ args' = a /\ UNCHANGED <<base, cur, rows, markdown, printed>>
          /\ pc' = (IF Command(a) = "usage" THEN "done" ELSE Command(a))
      BY <2>1 DEF Begin, Goto, data, tables
    <2>3. Command(a) \in {"list", "methods", "usage", "compare"}
      BY DEF Command
    <2>4. Command(args)' = Command(a)
      BY <2>2 DEF Command
    <2>5. ~Compared' /\ pc' \notin {"exportJson", "exportMarkdown"}
      BY <2>2, <2>3, <2>4 DEF Compared
    <2>6. QED
      BY <1>0, <2>2, <2>5, TablesUntouched
  <1>2. CASE ListBaselines \/ ListMethods \/ \E n \in left : ShowMethods(n)
    <2>1. /\ pc \in {"list", "methods", "show"} /\ args' = args
          /\ pc' \in {"done", "failed", "show"}
          /\ UNCHANGED <<base, cur, rows, markdown, printed>>
      BY <1>2 DEF ListBaselines, ListMethods, ShowMethods, Goto, request, data, tables
    <2>2. Command(args)' # "compare"
      BY <2>1 DEF Command, ReportsInv
    <2>3. QED
      BY <1>0, <2>1, <2>2, TablesUntouched DEF Compared
  <1>3. CASE \/ ChooseNamed \/ BeginScan \/ EndScan \/ \E n \in left : ScanFolder(n)
             \/ ResolveName \/ ResolveMethodId \/ ResolveLetterGroup
    <2>1. /\ pc \in {"compare", "scan", "resolve"}
          /\ pc' \in {"resolve", "scan", "loadBaseline", "failed"}
          /\ UNCHANGED <<base, cur, rows, markdown, printed>>
      BY <1>3 DEF ChooseNamed, BeginScan, ScanFolder, EndScan, ResolveName,
         ResolveMethodId, ResolveLetterGroup, Goto, data, tables
    <2>2. QED
      BY <1>0, <2>1, TablesUntouched DEF Compared
  <1>4. CASE LoadBaseline \/ LoadCurrent \/ ApplyMethodFilter
    <2>1. /\ pc \in {"loadBaseline", "loadCurrent", "filter"}
          /\ pc' \in {"loadCurrent", "filter", "compare rows", "failed"}
          /\ UNCHANGED <<rows, markdown, printed>>
      BY <1>4 DEF LoadBaseline, LoadCurrent, ApplyMethodFilter, Goto, tables
    <2>2. NoTables'
      BY <2>1 DEF TablesInv, NoTables
    <2>3. QED
      BY <2>1, <2>2 DEF TablesInv, Compared
  <1>5. CASE PrintRegression
    <2>1. pc' = "exportJson"
      BY <1>5 DEF PrintRegression, Goto
    <2>2. QED
      BY <1>5, <2>1, TablesMade DEF TablesInv
  <1>6. CASE ExportJson \/ ExportMarkdown
    <2>1. /\ pc \in {"exportJson", "exportMarkdown"} /\ pc' \in {"exportMarkdown", "done"}
          /\ UNCHANGED <<base, cur, rows, markdown, printed>>
      BY <1>6 DEF ExportJson, ExportMarkdown, Goto, data, tables
    <2>2. QED
      BY <1>0, <2>1, TablesUntouched
  <1>7. CASE OthersStep \/ UNCHANGED vars
    <2>1. UNCHANGED <<pc, args, base, cur, rows, markdown, printed>>
      BY <1>7 DEF OthersStep, MakeFolder, StartWrite, FinishWrite, vars, request, data, tables
    <2>2. Command(args)' = Command(args)
      BY <2>1 DEF Command
    <2>3. QED
      BY <1>0, <2>1, <2>2, TablesUntouched DEF Compared
  <1>8. QED
    BY <1>1, <1>2, <1>3, <1>4, <1>5, <1>6, <1>7 DEF Next, ToolStep

(* The tally of the markdown report counts the rows it has.                *)
TallyInv ==
    \A v \in DOMAIN md.tally :
       md.tally[v] = Cardinality({i \in RowLines(md.lines) : md.lines[i].row.verdict = v})

LEMMA TallyInit == Init => TallyInv
  <1> SUFFICES ASSUME Init PROVE TallyInv
    OBVIOUS
  <1>1. md.tally = Tally(<< >>) /\ md.lines = << >>
    BY DEF Init
  <1>2. RowLines(<< >>) = {} /\ DOMAIN << >> = {}
    BY DEF RowLines
  <1>3. \A v \in DOMAIN Tally(<< >>) : Tally(<< >>)[v] = Cardinality({})
    BY <1>2 DEF Tally
  <1>4. \A v : {i \in RowLines(<< >>) : << >>[i].row.verdict = v} = {}
    BY <1>2
  <1>5. QED
    BY <1>1, <1>3, <1>4 DEF TallyInv

LEMMA TallyStep ==
  ASSUME TablesInv, TallyInv, [Next]_vars
  PROVE  TallyInv'
  <1>1. CASE md' = md
    BY <1>1 DEF TallyInv, RowLines
  <1>2. CASE pc = "exportMarkdown" /\ md' = Report(Tally(rows))
    <2>1. Counted(markdown, rows)
      BY <1>2 DEF TablesInv, TablesOfBase
    <2>2. md'.lines = markdown /\ md'.tally = Tally(rows)
      BY <1>2 DEF Report
    <2>3. \A v \in DOMAIN Tally(rows) :
             Tally(rows)[v] = Cardinality({i \in RowLines(markdown) : markdown[i].row.verdict = v})
      BY <2>1 DEF Tally, Counted
    <2>4. QED
      BY <2>2, <2>3 DEF TallyInv, RowLines
  <1>3. QED
    <2>1. ToolStep => md' = md \/ (pc = "exportMarkdown" /\ md' = Report(Tally(rows)))
      BY DEF ToolStep, Begin, ListBaselines, ListMethods, ShowMethods, ChooseNamed,
         BeginScan, ScanFolder, EndScan, ResolveName, ResolveMethodId, ResolveLetterGroup,
         LoadBaseline, LoadCurrent, ApplyMethodFilter, PrintRegression, ExportJson,
         ExportMarkdown, reports
    <2>2. OthersStep \/ UNCHANGED vars => md' = md
      BY DEF OthersStep, MakeFolder, StartWrite, FinishWrite, vars, reports
    <2>3. QED
      BY <1>1, <1>2, <2>1, <2>2 DEF Next

-----------------------------------------------------------------------------
(* The properties.                                                         *)

ToolInv == /\ TypeInv /\ ReportsInv /\ ReportsAreThisRuns
           /\ WantedInv /\ TablesInv /\ TallyInv

LEMMA ToolInvAlways == Spec => []ToolInv
  <1>1. Init => ToolInv
    <2>1. Init => WantedInv
      BY DEF Init, WantedInv, Resolved, Filtered, Compared
    <2>2. QED
      BY <2>1, TypeInit, ReportsInit, TablesInit, TallyInit DEF ToolInv
  <1>2. ToolInv /\ [Next]_vars => ToolInv'
    BY TypeStep, ReportsStep, WantedStep, TablesStep, TallyStep DEF ToolInv
  <1>3. QED
    BY <1>1, <1>2, PTL DEF Spec

LEMMA RowsOfBase ==
  ASSUME ToolInv, NEW i \in DOMAIN rows
  PROVE  /\ i \in DOMAIN base /\ base[i] \in Entries
         /\ rows[i] = Row(base[i], GetCns(cur, base[i]))
         /\ DOMAIN rows = DOMAIN base
  <1>1. TablesOfBase
    BY DEF ToolInv, TablesInv, NoTables
  <1>2. rows = [j \in DOMAIN base |-> Row(base[j], GetCns(cur, base[j]))]
    BY <1>1 DEF TablesOfBase
  <1>3. base \in Seq(Entries)
    BY DEF ToolInv, TypeInv, EntriesTyped
  <1>4. QED
    BY <1>2, <1>3

(* Types: in particular the figures of a row are numbers, and the tally at *)
(* the end of the markdown report counts the rows that are in it.          *)
THEOREM TypesAreOK == Spec => []TypeOK
  <1>1. ASSUME ToolInv PROVE TypeOK
    <2>1. DiskTyped /\ VisitTyped /\ ChoiceTyped /\ EntriesTyped
      BY <1>1 DEF ToolInv, TypeInv
    <2>2. tool \in {"custom", "google"}
      BY <2>1 DEF DiskTyped
    <2>3. ASSUME NEW e \in ToSet(base) \cup ToSet(cur)
          PROVE  e.op \in ToSet(Methods) /\ e.iter \in Nat /\ e.ns \in Nat
      <3>1. e \in Entries
        BY <2>1 DEF EntriesTyped, ToSet
      <3>2. QED
        BY <2>2, <3>1, EntryFields
    <2>4. ASSUME NEW r \in ToSet(rows) PROVE r.base \in Nat /\ r.cur \in Nat
      <3>1. PICK i \in DOMAIN rows : r = rows[i]
        BY DEF ToSet
      <3>2. base[i] \in Entries /\ r = Row(base[i], GetCns(cur, base[i]))
        BY <1>1, <3>1, RowsOfBase
      <3>3. base[i].ns \in Nat /\ GetCns(cur, base[i]) \in Nat
        BY <2>1, <2>2, <3>2, EntryFields, FigureIsMeasured DEF EntriesTyped
      <3>4. QED
        BY <3>2, <3>3, RowFields
    <2>5. TallyInv
      BY <1>1 DEF ToolInv
    <2>6. QED
      BY <2>1, <2>3, <2>4, <2>5 DEF TypeOK, DiskTyped, VisitTyped, ChoiceTyped, TallyInv
  <1>2. QED
    BY <1>1, ToolInvAlways, PTL

(* A comparison that ended well and could open the files left both reports *)
(* with its rows, all of them and in their order, in the markdown too.     *)
THEOREM BothReportsAreWritten == Spec => []EveryRunWritesReports
  <1>1. ASSUME ToolInv PROVE EveryRunWritesReports
    <2> SUFFICES ASSUME Compared, writable
                 PROVE  /\ json = [new |-> TRUE, rows |-> rows]
                        /\ md.new /\ Shows(md.lines, rows)
      BY DEF EveryRunWritesReports
    <2>1. json = [new |-> TRUE, rows |-> rows] /\ md = Report(Tally(rows))
      BY <1>1 DEF ToolInv, ReportsAreThisRuns
    <2>2. Shows(markdown, rows)
      BY <1>1 DEF ToolInv, TablesInv, TablesOfBase
    <2>3. md.new /\ md.lines = markdown
      BY <2>1 DEF Report
    <2>4. QED
      BY <2>1, <2>2, <2>3
  <1>2. QED
    BY <1>1, ToolInvAlways, PTL

(* A figure on the current side is one the current run measured of the     *)
(* same benchmark, with as many iterations where the tool compares those.  *)
THEOREM LikeIsComparedWithLike == Spec => []RowsCompareLikeWithLike
  <1>1. ASSUME ToolInv PROVE RowsCompareLikeWithLike
    <2> SUFFICES ASSUME NEW i \in DOMAIN rows, rows[i].cur # 0
                 PROVE  \E j \in DOMAIN cur :
                           /\ cur[j].op = rows[i].op /\ cur[j].ns = rows[i].cur
                           /\ tool = "custom" => cur[j].iter = rows[i].iter
      BY DEF RowsCompareLikeWithLike
    <2> DEFINE e == base[i]
               g == GetCns(cur, e)
    <2>1. rows[i] = Row(e, g)
      BY <1>1, RowsOfBase
    <2>2. tool \in {"custom", "google"} /\ cur \in Seq(Entries)
      BY <1>1 DEF ToolInv, TypeInv, DiskTyped, EntriesTyped
    <2>3. g # 0 => \E j \in DOMAIN cur : Matches(cur[j], e) /\ cur[j].ns = g
      BY <2>2, FigureIsMeasured
    <2> HIDE DEF e, g
    <2>4. /\ rows[i].op = e.op /\ rows[i].cur = g
          /\ tool = "custom" => rows[i].iter = e.iter
      BY <2>1, RowFields
    <2>5. PICK j \in DOMAIN cur : Matches(cur[j], e) /\ cur[j].ns = g
      BY <2>3, <2>4
    <2>6. cur[j].op = e.op /\ (tool = "custom" => cur[j].iter = e.iter)
      BY <2>5 DEF Matches, CustomMatches, GoogleMatches
    <2>7. QED
      BY <2>4, <2>5, <2>6
  <1>2. QED
    BY <1>1, ToolInvAlways, PTL

(* A run asked for one method or one letter's ends well only with entries  *)
(* of it on both sides, and compares and reports nothing else, whatever    *)
(* became of the files after the word was resolved.                        *)
THEOREM FilteredRunsCompareBothSides == Spec => []FilterNeedsBothSides
  <1>1. ASSUME ToolInv PROVE FilterNeedsBothSides
    <2> DEFINE f == Filter(args)
    <2> SUFFICES ASSUME Compared, f # << >>
                 PROVE  /\ base # << >> /\ cur # << >>
                        /\ OpsOf(base) \cup OpsOf(cur) \subseteq wanted
                        /\ {rows[i].op : i \in DOMAIN rows} = OpsOf(base)
                        /\ IsMethodId(f) =>
                              \E m \in wanted : /\ wanted = {m}
                                                /\ LetterOf[m] = MethodIds[f[1]].letter
                        /\ IsLetterGroup(f) => \A m \in wanted : LetterOf[m] = GroupLetters[f[1]]
      BY DEF FilterNeedsBothSides
    <2>1. WantedIsAsked /\ KeptIsWanted /\ TablesOfBase
      BY <1>1 DEF ToolInv, WantedInv, TablesInv, Resolved, Filtered
    <2>2. {rows[i].op : i \in DOMAIN rows} = OpsOf(base)
      <3>1. DOMAIN rows = DOMAIN base
        BY <2>1 DEF TablesOfBase
      <3>2. \A i \in DOMAIN rows : rows[i].op = base[i].op
        BY <1>1, RowsOfBase, RowFields
      <3>3. QED
        BY <3>1, <3>2 DEF OpsOf
    <2>3. QED
      BY <2>1, <2>2 DEF WantedIsAsked, KeptIsWanted
  <1>2. QED
    BY <1>1, ToolInvAlways, PTL

(* The tables on the screen: each row once, in the baseline's order, under *)
(* the heading of its own section; no table empty or left open.            *)
THEOREM TablesHoldTheirRows == Spec => []SectionsHoldTheirRows
  <1>1. ASSUME ToolInv PROVE SectionsHoldTheirRows
    <2>1. CASE NoTables
      <3>1. RowLines(<< >>) = {} /\ Len(<< >>) = 0 /\ DOMAIN << >> = {} /\ Cardinality({}) = 0
        BY FS_EmptySet DEF RowLines
      <3>2. Shows(printed, rows)
        BY <2>1, <3>1 DEF NoTables, Shows
      <3>3. rows = << >> /\ ~(Len(rows) > 0) /\ DOMAIN printed = {}
        BY <2>1, <3>1 DEF NoTables
      <3>4. QED
        BY <3>2, <3>3 DEF SectionsHoldTheirRows
    <2>2. CASE TablesOfBase
      <3>1. TablesClosed(printed, rows) /\ (rows # << >> => printed # << >>)
        BY <2>2 DEF TablesOfBase
      <3>2. DOMAIN rows = DOMAIN base
        BY <2>2 DEF TablesOfBase
      <3>3. \A i \in DOMAIN rows : rows[i].op = base[i].op /\ rows[i].base = base[i].ns
        BY <1>1, RowsOfBase, RowFields
      <3>4. [i \in DOMAIN rows |-> <<rows[i].op, rows[i].base>>] =
            [i \in DOMAIN base |-> <<base[i].op, base[i].ns>>]
        BY <3>2, <3>3
      <3>5. Len(rows) > 0 => rows # << >>
        OBVIOUS
      <3>6. QED
        BY <3>1, <3>4, <3>5 DEF SectionsHoldTheirRows, TablesClosed
    <2>3. QED
      BY <1>1, <2>1, <2>2 DEF ToolInv, TablesInv
  <1>2. QED
    BY <1>1, ToolInvAlways, PTL

(* A comparison that ends well leaves both reports with what it recorded.  *)
THEOREM ReportsHoldWhatWasPrinted == Spec => []ReportsAreThisRuns
  BY ReportsAlways, PTL
=============================================================================
