--------------------------- MODULE FrameworksProofs ---------------------------
(***************************************************************************)
(* What TLAPS proves about the test, benchmark and example programs, for   *)
(* every set of suites, order of static initialization, command word and   *)
(* run of the suites: which suites run, that the test counters agree with  *)
(* what is on the screen, and that the benchmark tables are well formed    *)
(* and agree with the JSON export.                                         *)
(***************************************************************************)
EXTENDS Frameworks, FiniteSetTheorems, TLAPS

-----------------------------------------------------------------------------
(* The driver.                                                             *)

Suite == [id : Ids, category : Categories, name : Files]

(* Where main() is, whichever suite runs at the moment.                    *)
InSuite == pc \in {"begin", "body"}
Phase   == IF InSuite THEN resume ELSE pc

Everywhere       == Len(registry) + 1
AskedBefore(end) == {i \in DOMAIN registry : i < end /\ Asked(registry[i])}

DriverTypeOK ==
    /\ program \in Programs
    /\ registry \in Seq(Suite) /\ counters \in [Categories -> Nat]
    /\ next \in Nat \ {0}
    /\ matches \in Seq(Suite) /\ ran \in Seq(Suite)
    /\ resume \in {"visit", "finish", "exit", "replay"}
    /\ InSuite => running \in Suite

(* No two suites share a name or an id: the ids of a directory go up to    *)
(* its counter, and no counter is ahead of the registry.                   *)
RegistryInv ==
    /\ \A i, j \in DOMAIN registry :
          registry[i].name = registry[j].name \/ registry[i].id = registry[j].id => i = j
    /\ \A i \in DOMAIN registry :
          \E n \in 1 .. counters[registry[i].category] : registry[i].id = Id(registry[i].category, n)
    /\ \A c \in Categories : counters[c] <= Len(registry)

Starting == next = 1 /\ matches = << >> /\ ran = << >> /\ exitCode = 0

Visiting ==
    /\ word \notin Options /\ exitCode = 0
    /\ \A i \in DOMAIN registry : i < next => ~IsExact(registry[i])
    /\ Lists(matches, registry, AskedBefore(next))
    /\ ran = IF program = "examples" THEN << >> ELSE matches

Replaying ==
    /\ word \notin Options /\ exitCode = 0
    /\ Lists(matches, registry, AskedBefore(Everywhere))
    /\ matches # << >> \/ word = NoWord
    /\ Len(ran) <= Len(matches) /\ \A p \in DOMAIN ran : ran[p] = matches[p]

Finishing ==
    /\ word \notin Options /\ exitCode = 0
    /\ Lists(ran, registry, AskedBefore(Everywhere))
    /\ ran # << >> \/ word = NoWord

Exiting ==
    /\ Lists(ran, registry, AskedBefore(Everywhere))
    /\ exitCode # 0 <=> AskedBefore(Everywhere) = {} /\ word \notin {NoWord} \cup Options

SearchInv ==
    /\ Phase = "static_init" => Starting
    /\ Phase = "visit"       => Visiting
    /\ Phase = "replay"      => Replaying
    /\ Phase = "finish"      => Finishing
    /\ Phase = "exit"        => Exiting

DriverInv == DriverTypeOK /\ RegistryInv /\ SearchInv

LEMMA ListsNothing ==
  ASSUME NEW all
  PROVE  Lists(<< >>, all, {})
  BY DEF Lists

LEMMA ListsOne ==
  ASSUME NEW i \in DOMAIN registry
  PROVE  Lists(<<registry[i]>>, registry, {i})
  BY DEF Lists

LEMMA ListsEmpty ==
  ASSUME NEW s \in Seq(Suite), NEW I, Lists(s, registry, I)
  PROVE  s = << >> <=> I = {}
  <1>1. s = << >> <=> DOMAIN s = {}
    OBVIOUS
  <1>2. {s[p] : p \in DOMAIN s} = {registry[i] : i \in I}
    BY DEF Lists
  <1>3. QED
    BY <1>1, <1>2

(* A suite further on in the registry is listed last.                      *)
LEMMA ListsMore ==
  ASSUME NEW s \in Seq(Suite), NEW I \in SUBSET DOMAIN registry, Lists(s, registry, I),
         DriverTypeOK, NEW k \in DOMAIN registry, \A i \in I : i < k
  PROVE  Lists(Append(s, registry[k]), registry, I \cup {k})
  <1> DEFINE t == Append(s, registry[k])
             n == Len(s) + 1
  <1>1. registry[k] \in Suite /\ k \in Nat
    BY DEF DriverTypeOK
  <1>2. /\ DOMAIN t = DOMAIN s \cup {n} /\ n \notin DOMAIN s /\ n \in Nat /\ DOMAIN s \subseteq Nat
        /\ \A p \in DOMAIN s : t[p] = s[p] /\ p < n
        /\ t[n] = registry[k]
    BY <1>1
  <1> HIDE DEF t, n
  <1>3. {t[p] : p \in DOMAIN t} = {registry[i] : i \in I \cup {k}}
    <2>1. {s[p] : p \in DOMAIN s} = {registry[i] : i \in I}
      BY DEF Lists
    <2>2. {t[p] : p \in DOMAIN t} = {s[p] : p \in DOMAIN s} \cup {registry[k]}
      BY <1>2
    <2>3. QED
      BY <2>1, <2>2
  <1>4. ASSUME NEW p \in DOMAIN t, NEW q \in DOMAIN t, p < q
        PROVE  \E i, j \in I \cup {k} : i < j /\ t[p] = registry[i] /\ t[q] = registry[j]
    <2>1. p \in DOMAIN s
      BY <1>2, <1>4
    <2>2. CASE q = n
      <3>1. PICK i \in I : s[p] = registry[i]
        BY <2>1 DEF Lists
      <3>2. i < k /\ t[p] = registry[i] /\ t[q] = registry[k]
        BY <1>2, <2>1, <2>2, <3>1
      <3>3. QED
        BY <3>2
    <2>3. CASE q \in DOMAIN s
      <3>1. PICK i \in I, j \in I : i < j /\ s[p] = registry[i] /\ s[q] = registry[j]
        BY <1>4, <2>1, <2>3 DEF Lists
      <3>2. QED
        BY <1>2, <2>1, <2>3, <3>1
    <2>4. QED
      BY <1>2, <2>2, <2>3
  <1>5. QED
    BY <1>3, <1>4 DEF Lists, t

LEMMA SuiteFields ==
  ASSUME DriverTypeOK, NEW i \in DOMAIN registry
  PROVE  /\ registry[i] \in Suite /\ registry[i].category \in Categories
         /\ registry[i].name \in Files /\ registry[i].id \in Ids
  <1>1. registry[i] \in Suite
    BY DEF DriverTypeOK
  <1>2. QED
    BY <1>1 DEF Suite

(* As long as a suite is missing an id is left for it.                     *)
LEMMA RoomForOne ==
  ASSUME DriverTypeOK, RegistryInv, NEW f \in Unregistered
  PROVE  Len(registry) + 1 <= Cardinality(Files) /\ Cardinality(Files) \in Nat
  <1> DEFINE names == [i \in DOMAIN registry |-> registry[i].name]
             n == Len(registry)
  <1>1. n \in Nat /\ DOMAIN registry = 1 .. n /\ \A i \in DOMAIN registry : registry[i] \in Suite
    BY DEF DriverTypeOK
  <1>2. IsFiniteSet(Files) /\ f \in Files
    BY WordsAreUnambiguous DEF Unregistered
  <1>3. /\ IsFiniteSet(Files \ {f}) /\ Cardinality(Files \ {f}) = Cardinality(Files) - 1
        /\ Cardinality(Files) \in Nat
    BY <1>2, FS_RemoveElement, FS_CardinalityType
  <1>4. names \in Injection(1 .. n, Files \ {f})
    <2>1. \A i \in 1 .. n : registry[i].name \in Files \ {f}
      BY <1>1 DEF Suite, Unregistered
    <2>2. \A i, j \in 1 .. n : registry[i].name = registry[j].name => i = j
      BY <1>1 DEF RegistryInv
    <2>3. QED
      BY <1>1, <2>1, <2>2 DEF Injection, IsInjective
  <1>5. IsFiniteSet(1 .. n) /\ Cardinality(1 .. n) = n
    BY <1>1, FS_Interval
  <1>6. n <= Cardinality(Files \ {f})
    BY <1>3, <1>4, <1>5, FS_Injection
  <1>7. QED
    BY <1>1, <1>3, <1>6

LEMMA DriverStart == Init => DriverInv
  <1> SUFFICES ASSUME Init PROVE DriverInv
    OBVIOUS
  <1> USE DEF Init, DriverInit
  <1>1. DriverTypeOK
    BY DEF DriverTypeOK, InSuite
  <1>2. RegistryInv
    BY DEF RegistryInv
  <1>3. SearchInv
    BY DEF SearchInv, Starting, Phase, InSuite
  <1>4. QED
    BY <1>1, <1>2, <1>3 DEF DriverInv

(* A suite that goes on or returns, and the end of the program.            *)
SuiteStep ==
    /\ UNCHANGED <<choice, registered, next, matches, resume, ran, exitCode>>
    /\ \/ Phase' = Phase
       \/ Phase = "finish" /\ Phase' = "exit"
    /\ InSuite' => InSuite /\ running' = running

LEMMA SearchFrame ==
  ASSUME UNCHANGED <<program, word, registry, next, matches, ran, exitCode>>
  PROVE  /\ Starting => Starting'
         /\ Visiting => Visiting'
         /\ Replaying => Replaying'
         /\ Finishing => Finishing'
         /\ Exiting => Exiting'
  <1>1. AskedBefore(next)' = AskedBefore(next) /\ AskedBefore(Everywhere)' = AskedBefore(Everywhere)
    BY DEF AskedBefore, Asked, Everywhere
  <1>2. /\ Lists(matches, registry, AskedBefore(next)) => Lists(matches, registry, AskedBefore(next))'
        /\ Lists(matches, registry, AskedBefore(Everywhere)) => Lists(matches, registry, AskedBefore(Everywhere))'
        /\ Lists(ran, registry, AskedBefore(Everywhere)) => Lists(ran, registry, AskedBefore(Everywhere))'
    BY <1>1
  <1>3. (\A i \in DOMAIN registry : i < next => ~IsExact(registry[i])) =>
           (\A i \in DOMAIN registry : i < next => ~IsExact(registry[i]))'
    BY DEF IsExact
  <1>4. QED
    BY <1>1, <1>2, <1>3 DEF Starting, Visiting, Replaying, Finishing, Exiting

LEMMA DriverAtRest ==
  ASSUME DriverInv, UNCHANGED driverVars
  PROVE  DriverInv'
  <1> USE DEF driverVars, choice, registered, DriverInv
  <1>1. DriverTypeOK'
    BY DEF DriverTypeOK, InSuite
  <1>2. RegistryInv'
    BY DEF RegistryInv
  <1>3. SearchInv'
    BY SearchFrame DEF SearchInv, Phase, InSuite
  <1>4. QED
    BY <1>1, <1>2, <1>3

LEMMA SuiteStepKeeps ==
  ASSUME DriverInv, SuiteStep
  PROVE  DriverInv'
  <1> USE DEF choice, registered, DriverInv, SuiteStep
  <1>1. DriverTypeOK'
    BY DEF DriverTypeOK
  <1>2. RegistryInv'
    BY DEF RegistryInv
  <1>3. /\ Starting => Starting'
        /\ Visiting => Visiting'
        /\ Replaying => Replaying'
        /\ Finishing => Finishing'
        /\ Exiting => Exiting'
    BY SearchFrame
  <1>4. CASE Phase' = Phase
    BY <1>1, <1>2, <1>3, <1>4 DEF SearchInv
  <1>5. CASE Phase = "finish" /\ Phase' = "exit"
    <2>1. Finishing /\ ran \in Seq(Suite)
      BY <1>5 DEF SearchInv, DriverTypeOK
    <2>2. AskedBefore(Everywhere) # {} \/ word = NoWord
      BY <2>1, ListsEmpty DEF Finishing
    <2>3. Exiting
      BY <2>1, <2>2 DEF Finishing, Exiting
    <2>4. QED
      BY <1>1, <1>2, <1>3, <1>5, <2>3 DEF SearchInv
  <1>6. QED
    BY <1>4, <1>5

LEMMA SuitesStep ==
  ASSUME DriverInv, TestNext \/ BenchNext \/ RunExample \/ FinishExamples
  PROVE  DriverInv'
  <1>1. ASSUME Goto("body"), pc = "begin"
        PROVE  SuiteStep
    BY <1>1 DEF Goto, SuiteStep, Phase, InSuite
  <1>2. ASSUME Return, InSuite
        PROVE  SuiteStep
    BY <1>2 DEF Return, SuiteStep, Phase, InSuite, DriverInv, DriverTypeOK
  <1>3. ASSUME Goto("exit"), pc = "finish"
        PROVE  SuiteStep
    BY <1>3 DEF Goto, SuiteStep, Phase, InSuite
  <1>4. CASE TestNext
    <2>1. CASE BeginSuite
      BY <2>1, <1>1, SuiteStepKeeps DEF BeginSuite
    <2>2. CASE EndSuite
      BY <2>2, <1>2, SuiteStepKeeps DEF EndSuite, InSuite
    <2>3. CASE FinishTests
      BY <2>3, <1>3, SuiteStepKeeps DEF FinishTests
    <2>4. CASE EnterTest \/ CheckPasses \/ CheckFails \/ TestReturns \/ TestThrows
      BY <2>4, DriverAtRest DEF EnterTest, CheckPasses, CheckFails, TestReturns, TestThrows, Conclude
    <2>5. QED
      BY <1>4, <2>1, <2>2, <2>3, <2>4 DEF TestNext
  <1>5. CASE BenchNext
    <2>1. CASE BeginBench
      BY <2>1, <1>1, SuiteStepKeeps DEF BeginBench
    <2>2. CASE Measure
      BY <2>2, DriverAtRest DEF Measure
    <2>3. CASE EndBench
      BY <2>3, <1>2, SuiteStepKeeps DEF EndBench, InSuite
    <2>4. CASE FinishBench
      BY <2>4, <1>3, SuiteStepKeeps DEF FinishBench
    <2>5. QED
      BY <1>5, <2>1, <2>2, <2>3, <2>4 DEF BenchNext
  <1>6. CASE RunExample
    BY <1>6, <1>2, SuiteStepKeeps DEF RunExample, InSuite
  <1>7. CASE FinishExamples
    <2>1. SuiteStep
      BY <1>7 DEF FinishExamples, SuiteStep, Phase, InSuite
    <2>2. QED
      BY <2>1, SuiteStepKeeps
  <1>8. QED
    BY <1>4, <1>5, <1>6, <1>7

LEMMA RegisterKeeps ==
  ASSUME DriverInv, Register
  PROVE  DriverInv'
  <1> USE DEF DriverInv
  <1>1. PICK f \in Unregistered :
           /\ counters' = [counters EXCEPT ![CategoryOf[f]] = @ + 1]
           /\ registry' = Append(registry, [id |-> Id(CategoryOf[f], counters'[CategoryOf[f]]),
                                            category |-> CategoryOf[f], name |-> f])
    BY DEF Register
  <1> DEFINE c == CategoryOf[f]
             n == counters[c] + 1
             l == Len(registry)
             s == [id |-> Id(c, n), category |-> c, name |-> f]
  <1>2. f \in Files /\ c \in Categories
    BY DEF Unregistered, Categories
  <1>3. /\ counters \in [Categories -> Nat] /\ counters[c] \in 0 .. l /\ l \in Nat
        /\ l + 1 <= Cardinality(Files) /\ Cardinality(Files) \in Nat
    BY <1>2, RoomForOne DEF DriverTypeOK, RegistryInv
  <1>4. /\ counters' = [counters EXCEPT ![c] = n] /\ n \in 1 .. Cardinality(Files)
        /\ counters' \in [Categories -> Nat]
        /\ \A d \in Categories : counters'[d] = IF d = c THEN n ELSE counters[d]
    BY <1>1, <1>2, <1>3
  <1>5. s \in Suite /\ registry' = Append(registry, s)
    BY <1>1, <1>2, <1>4 DEF Suite, Ids
  <1>6. /\ registry' \in Seq(Suite) /\ Len(registry') = l + 1
        /\ \A i \in DOMAIN registry : registry'[i] = registry[i]
        /\ registry'[l + 1] = s /\ DOMAIN registry' = DOMAIN registry \cup {l + 1}
        /\ DOMAIN registry = 1 .. l
    BY <1>3, <1>5 DEF DriverTypeOK
  <1> HIDE DEF s, n
  <1>7. DriverTypeOK'
    BY <1>4, <1>6 DEF DriverTypeOK, Register, InSuite, choice
  <1>8. \A i \in DOMAIN registry : registry[i].name # f /\ registry[i].id # Id(c, n)
    <2>1. SUFFICES ASSUME NEW i \in DOMAIN registry PROVE registry[i].id # Id(c, n)
      BY DEF Unregistered
    <2>2. registry[i].category \in Categories
      BY SuiteFields
    <2>3. PICK m \in 1 .. counters[registry[i].category] : registry[i].id = Id(registry[i].category, m)
      BY DEF RegistryInv
    <2>4. counters[registry[i].category] \in 0 .. l
      BY <1>3, <2>2 DEF RegistryInv
    <2>5. m \in 1 .. Cardinality(Files) /\ (registry[i].category = c => m < n)
      BY <1>3, <2>3, <2>4 DEF n
    <2>6. QED
      BY <1>2, <1>4, <2>2, <2>3, <2>5, WordsAreUnambiguous
  <1>9. RegistryInv'
    <2>1. s.name = f /\ s.id = Id(c, n) /\ s.category = c
      BY DEF s
    <2>2. ASSUME NEW i \in DOMAIN registry', NEW j \in DOMAIN registry',
                 registry'[i].name = registry'[j].name \/ registry'[i].id = registry'[j].id
          PROVE  i = j
      BY <1>6, <1>8, <2>1, <2>2 DEF RegistryInv
    <2>3. ASSUME NEW i \in DOMAIN registry'
          PROVE  \E m \in 1 .. counters'[registry'[i].category] :
                    registry'[i].id = Id(registry'[i].category, m)
      <3>1. CASE i = l + 1
        BY <1>2, <1>4, <1>6, <2>1, <3>1
      <3>2. CASE i \in DOMAIN registry
        <4>1. PICK m \in 1 .. counters[registry[i].category] :
                 registry[i].id = Id(registry[i].category, m)
          BY <3>2 DEF RegistryInv
        <4>2. registry[i].category \in Categories
          BY <3>2, SuiteFields
        <4>3. m \in 1 .. counters'[registry[i].category]
          BY <1>3, <1>4, <4>1, <4>2 DEF n
        <4>4. QED
          BY <1>6, <3>2, <4>1, <4>3
      <3>3. QED
        BY <1>6, <3>1, <3>2
    <2>4. \A d \in Categories : counters'[d] <= Len(registry')
      BY <1>3, <1>4, <1>6 DEF RegistryInv, n
    <2>5. QED
      BY <2>2, <2>3, <2>4 DEF RegistryInv
  <1>10. SearchInv'
    <2>1. Phase = "static_init" /\ Phase' = Phase
      BY DEF Register, Phase, InSuite
    <2>2. QED
      BY <2>1 DEF SearchInv, Starting, Register, Phase, InSuite
  <1>11. QED
    BY <1>7, <1>9, <1>10

(* Whether a suite is asked for, in the terms of the loop.                 *)
LEMMA AskedIsMatch ==
  ASSUME NEW s
  PROVE  Asked(s) <=> IsExact(s) \/ IsMatched(s)
  BY DEF Asked, IsExact, IsMatched

LEMMA NoOptionIsAsked ==
  ASSUME DriverTypeOK, word \in Options
  PROVE  \A i \in DOMAIN registry : ~Asked(registry[i])
  <1> SUFFICES ASSUME NEW i \in DOMAIN registry PROVE ~Asked(registry[i])
    OBVIOUS
  <1>1. /\ registry[i].category \in Categories
        /\ registry[i].name \in Files /\ registry[i].id \in Ids
    BY SuiteFields
  <1>2. word \notin Files \cup Categories \cup Ids
    BY WordsAreUnambiguous
  <1>3. word # NoWord
    BY DEF Options, NoWord
  <1>4. QED
    BY <1>1, <1>2, <1>3 DEF Asked

(* A word that names a suite, or is its id, asks for no other.             *)
LEMMA ExactIsAlone ==
  ASSUME DriverTypeOK, RegistryInv, NEW k \in DOMAIN registry, IsExact(registry[k]),
         NEW i \in DOMAIN registry, Asked(registry[i])
  PROVE  i = k
  <1>1. /\ registry[k].name \in Files /\ registry[k].id \in Ids
        /\ registry[i].name \in Files /\ registry[i].id \in Ids
        /\ registry[i].category \in Categories
    BY SuiteFields
  <1>2. word \in {registry[k].name, registry[k].id}
    BY DEF IsExact
  <1>3. word # NoWord /\ word # registry[i].category
    BY <1>1, <1>2, WordsAreUnambiguous
  <1>4. word \in {registry[i].name, registry[i].id}
    BY <1>3 DEF Asked
  <1>5. registry[i].name = registry[k].name \/ registry[i].id = registry[k].id
    BY <1>1, <1>2, <1>4, WordsAreUnambiguous
  <1>6. QED
    BY <1>5 DEF RegistryInv

(* A step of main() itself: what is left to show is where it leads.        *)
LEMMA MainStep ==
  ASSUME DriverInv,
         UNCHANGED <<choice, registered>>, next' \in Nat \ {0},
         matches' \in Seq(Suite), ran' \in Seq(Suite),
         resume' \in {"visit", "finish", "exit", "replay"},
         InSuite' => running' \in Suite,
         SearchInv'
  PROVE  DriverInv'
  <1>1. DriverTypeOK'
    BY DEF DriverInv, DriverTypeOK, choice, registered
  <1>2. RegistryInv'
    BY DEF DriverInv, RegistryInv, registered
  <1>3. QED
    BY <1>1, <1>2 DEF DriverInv

LEMMA MainKeeps ==
  ASSUME DriverInv, Main \/ RegistrationFails
  PROVE  DriverInv'
  <1> USE DEF DriverInv, Main, RegistrationFails, choice, registered
  <1>1. DriverTypeOK /\ Starting /\ Phase = "static_init"
    BY DEF SearchInv, Phase, InSuite
  <1>2. registry \in Seq(Suite) /\ AskedBefore(1) = {}
    BY <1>1 DEF DriverTypeOK, AskedBefore
  <1>3. SearchInv'
    <2>1. CASE RegistrationFails
      BY <2>1 DEF SearchInv, Phase, InSuite
    <2>2. CASE Main /\ word \in Options /\ pc' = "exit"
      <3>1. AskedBefore(Everywhere) = {}
        BY <1>1, <2>2, NoOptionIsAsked DEF AskedBefore
      <3>2. AskedBefore(Everywhere)' = {}
        BY <2>2, <3>1 DEF AskedBefore, Asked, Everywhere
      <3>3. Exiting'
        BY <1>1, <2>2, <3>2, ListsNothing DEF Exiting, Starting
      <3>4. QED
        BY <2>2, <3>3 DEF SearchInv, Phase, InSuite
    <2>3. CASE Main /\ StartMatching
      <3>1. AskedBefore(next)' = {}
        BY <1>1, <2>3 DEF AskedBefore, Starting
      <3>2. /\ matches' = << >> /\ ran' = << >> /\ next' = 1 /\ exitCode' = 0 /\ word' \notin Options
            /\ registry' \in Seq(Suite)
        BY <1>1, <1>2, <2>3 DEF Starting, StartMatching
      <3>3. Lists(matches, registry, AskedBefore(next))'
        BY <3>1, <3>2, ListsNothing
      <3>4. Visiting'
        BY <3>2, <3>3 DEF Visiting
      <3>5. QED
        BY <2>3, <3>4 DEF SearchInv, Phase, InSuite, StartMatching
    <2>4. QED
      BY <2>1, <2>2, <2>3 DEF PrintUsage, PrintSuiteList, Options
  <1>4. QED
    BY <1>1, <1>3, MainStep DEF DriverTypeOK, InSuite, PrintUsage, PrintSuiteList, StartMatching

LEMMA VisitKeeps ==
  ASSUME DriverInv, Visit
  PROVE  DriverInv'
  <1> DEFINE s == registry[next]
  <1> USE DEF DriverInv, Visit, choice, registered
  <1>1. /\ DriverTypeOK /\ RegistryInv /\ Visiting
        /\ registry \in Seq(Suite) /\ matches \in Seq(Suite) /\ ran \in Seq(Suite)
    BY DEF SearchInv, Phase, InSuite, DriverTypeOK
  <1>2. next \in DOMAIN registry /\ next \in Nat \ {0} /\ s \in Suite /\ Everywhere \in Nat
    BY <1>1 DEF DriverTypeOK, Everywhere
  <1>3. AskedBefore(next + 1) = AskedBefore(next) \cup (IF Asked(s) THEN {next} ELSE {})
    BY <1>1, <1>2 DEF AskedBefore
  <1>4. /\ AskedBefore(next)' = AskedBefore(next + 1)
        /\ AskedBefore(Everywhere)' = AskedBefore(Everywhere)
    BY DEF AskedBefore, Asked, Everywhere
  <1>5. AskedBefore(next) \in SUBSET DOMAIN registry /\ \A i \in AskedBefore(next) : i < next
    BY DEF AskedBefore
  <1>6. ASSUME ~IsExact(s)
        PROVE  (\A i \in DOMAIN registry : i < next => ~IsExact(registry[i]))'
    BY <1>1, <1>2, <1>6 DEF Visiting, IsExact
  <1>7. CASE VisitExact
    <2>1. AskedBefore(Everywhere) = {next}
      <3>1. Asked(s) /\ next < Everywhere
        BY <1>1, <1>2, <1>7, AskedIsMatch DEF VisitExact, Everywhere
      <3>2. \A i \in DOMAIN registry : Asked(registry[i]) => i = next
        BY <1>1, <1>2, <1>7, ExactIsAlone DEF VisitExact
      <3>3. QED
        BY <1>2, <3>1, <3>2 DEF AskedBefore
    <2>2. AskedBefore(next) = {}
      BY <1>2, <2>1 DEF AskedBefore, Everywhere
    <2>3. matches = << >> /\ ran = << >>
      BY <1>1, <2>2, ListsEmpty DEF Visiting
    <2>4. ran' = <<s>> /\ ran' \in Seq(Suite) /\ ran' # << >>
      BY <1>2, <1>7, <2>3 DEF VisitExact, Call
    <2>5. Lists(ran, registry, AskedBefore(Everywhere))'
      BY <1>2, <1>4, <2>1, <2>4, ListsOne
    <2>6. Finishing' /\ Exiting'
      BY <1>1, <1>4, <2>1, <2>4, <2>5 DEF Finishing, Exiting, Visiting
    <2>7. SearchInv' /\ resume' \in {"finish", "exit"} /\ running' = s
      BY <1>7, <2>6 DEF SearchInv, Phase, InSuite, VisitExact, Call
    <2>8. QED
      BY <1>1, <1>2, <1>7, <2>4, <2>7, MainStep DEF VisitExact
  <1>8. CASE VisitAndRun \/ VisitAndCollect
    <2>1. ~IsExact(s) /\ Asked(s) /\ matches' = Append(matches, s)
      BY <1>8, AskedIsMatch DEF VisitAndRun, VisitAndCollect
    <2>2. /\ Lists(matches, registry, AskedBefore(next))'
          /\ matches' \in Seq(Suite)
      BY <1>1, <1>2, <1>3, <1>4, <1>5, <2>1, ListsMore DEF Visiting
    <2>3. /\ ran' = IF program = "examples" THEN << >> ELSE matches'
          /\ ran' \in Seq(Suite)
      BY <1>1, <1>8, <2>1, <2>2 DEF Visiting, VisitAndRun, VisitAndCollect, Call
    <2>4. Visiting'
      BY <1>1, <1>6, <2>1, <2>2, <2>3 DEF Visiting
    <2>5. /\ SearchInv' /\ resume' \in {"visit", "finish", "exit", "replay"}
          /\ InSuite' => running' = s
      BY <1>1, <1>8, <2>4 DEF SearchInv, Phase, InSuite, VisitAndRun, VisitAndCollect, Call, DriverTypeOK
    <2>6. QED
      BY <1>1, <1>2, <2>2, <2>3, <2>5, MainStep
  <1>9. CASE VisitOther
    <2>1. ~IsExact(s) /\ ~Asked(s)
      BY <1>9, AskedIsMatch DEF VisitOther
    <2>2. Visiting'
      BY <1>1, <1>3, <1>4, <1>6, <1>9, <2>1 DEF Visiting, VisitOther
    <2>3. SearchInv' /\ ~InSuite'
      BY <1>9, <2>2 DEF SearchInv, Phase, InSuite, VisitOther
    <2>4. QED
      BY <1>1, <1>2, <1>9, <2>3, MainStep DEF VisitOther, DriverTypeOK
  <1>10. QED
    BY <1>7, <1>8, <1>9

LEMMA EndVisitKeeps ==
  ASSUME DriverInv, EndVisit
  PROVE  DriverInv'
  <1> DEFINE asked == AskedBefore(Everywhere)
  <1>1. /\ DriverTypeOK /\ Visiting
        /\ registry \in Seq(Suite) /\ matches \in Seq(Suite) /\ ran \in Seq(Suite)
    BY DEF DriverInv, SearchInv, Phase, InSuite, DriverTypeOK, EndVisit
  <1>2. UNCHANGED <<program, word, registry, counters, next, matches, running, resume, ran>>
    BY DEF EndVisit, choice, registered
  <1>3. /\ AskedBefore(next) = asked /\ asked' = asked
    <2>1. next \in Nat /\ next > Len(registry)
      BY <1>1 DEF DriverTypeOK, EndVisit
    <2>2. Len(registry) \in Nat /\ DOMAIN registry = 1 .. Len(registry)
      BY <1>1
    <2>3. \A i \in DOMAIN registry : i < next /\ i < Everywhere
      BY <2>1, <2>2 DEF Everywhere
    <2>4. AskedBefore(next) = asked
      BY <2>3 DEF AskedBefore
    <2>5. asked' = asked
      BY <1>2 DEF AskedBefore, Everywhere, Asked
    <2>6. QED
      BY <2>4, <2>5
  <1> HIDE DEF asked
  <1>4. matches = << >> <=> asked = {}
    BY <1>1, <1>3, ListsEmpty DEF Visiting
  <1>5. Lists(matches, registry, asked) /\ Lists(matches, registry, asked)'
    BY <1>1, <1>2, <1>3 DEF Visiting
  <1>6. /\ word \notin Options /\ exitCode = 0
        /\ ran = IF program = "examples" THEN << >> ELSE matches
    BY <1>1 DEF Visiting
  <1>7. /\ Replaying' <=> /\ (word \notin Options /\ exitCode = 0)'
                          /\ Lists(matches, registry, asked)'
                          /\ (matches # << >> \/ word = NoWord)'
                          /\ (Len(ran) <= Len(matches) /\ \A p \in DOMAIN ran : ran[p] = matches[p])'
        /\ Finishing' <=> /\ (word \notin Options /\ exitCode = 0)'
                          /\ Lists(ran, registry, asked)' /\ (ran # << >> \/ word = NoWord)'
        /\ Exiting' <=> /\ Lists(ran, registry, asked)'
                        /\ (exitCode # 0 <=> asked = {} /\ word \notin {NoWord} \cup Options)'
    BY DEF Replaying, Finishing, Exiting, asked
  <1>8. SearchInv'
    <2>1. CASE (matches # << >> \/ word = NoWord) /\ program = "examples"
      <3>1. pc' = "replay" /\ exitCode' = exitCode
        BY <2>1 DEF EndVisit
      <3>2. /\ (Len(ran) <= Len(matches))'
            /\ (\A p \in DOMAIN ran : ran[p] = matches[p])'
        BY <1>1, <1>2, <1>6, <2>1
      <3>3. Replaying'
        BY <1>2, <1>5, <1>6, <1>7, <2>1, <3>1, <3>2
      <3>4. QED
        BY <3>1, <3>3 DEF SearchInv, Phase, InSuite
    <2>2. CASE (matches # << >> \/ word = NoWord) /\ program # "examples"
      <3>1. pc' = "finish" /\ exitCode' = exitCode
        BY <2>2 DEF EndVisit
      <3>2. Finishing'
        BY <1>2, <1>5, <1>6, <1>7, <2>2, <3>1
      <3>3. QED
        BY <3>1, <3>2 DEF SearchInv, Phase, InSuite
    <2>3. CASE matches = << >> /\ word # NoWord
      <3>1. pc' = "exit" /\ exitCode' = 1
        BY <2>3 DEF EndVisit
      <3>2. ran' = matches' /\ asked' = {}
        BY <1>2, <1>3, <1>4, <1>6, <2>3
      <3>3. Exiting'
        BY <1>2, <1>5, <1>6, <1>7, <2>3, <3>1, <3>2
      <3>4. QED
        BY <3>1, <3>3 DEF SearchInv, Phase, InSuite
    <2>4. QED
      BY <2>1, <2>2, <2>3
  <1>9. ~InSuite' /\ UNCHANGED <<choice, registered>>
    BY <1>2 DEF EndVisit, InSuite, choice, registered
  <1>10. QED
    BY <1>1, <1>2, <1>8, <1>9, MainStep DEF DriverTypeOK

LEMMA ReplayKeeps ==
  ASSUME DriverInv, Replay
  PROVE  DriverInv'
  <1> USE DEF DriverInv, Replay, choice, registered
  <1>1. /\ DriverTypeOK /\ Replaying
        /\ registry \in Seq(Suite) /\ matches \in Seq(Suite) /\ ran \in Seq(Suite)
    BY DEF SearchInv, Phase, InSuite, DriverTypeOK
  <1>2. AskedBefore(Everywhere)' = AskedBefore(Everywhere)
    BY DEF AskedBefore, Everywhere, Asked
  <1>3. CASE Len(ran) < Len(matches)
    <2> DEFINE n == Len(ran) + 1
    <2>1. n \in DOMAIN matches /\ matches[n] \in Suite
      BY <1>1, <1>3
    <2>2. /\ ran' = Append(ran, matches[n]) /\ ran' \in Seq(Suite) /\ running' = matches[n]
          /\ Len(ran') = n /\ \A p \in DOMAIN ran' : ran'[p] = IF p = n THEN matches[n] ELSE ran[p]
      <3>1. ran' = Append(ran, matches[n]) /\ running' = matches[n]
        BY <1>3 DEF Call
      <3>2. QED
        BY <1>1, <2>1, <3>1
    <2>3. Replaying'
      BY <1>1, <1>2, <1>3, <2>2 DEF Replaying
    <2>4. SearchInv' /\ resume' = "replay"
      BY <1>3, <2>3 DEF SearchInv, Phase, InSuite, Call
    <2>5. QED
      BY <1>1, <2>1, <2>2, <2>4, MainStep DEF DriverTypeOK
  <1>4. CASE Len(ran) = Len(matches)
    <2>1. ran = matches
      BY <1>1, <1>4 DEF Replaying
    <2>2. Finishing'
      BY <1>1, <1>2, <1>4, <2>1 DEF Finishing, Replaying
    <2>3. SearchInv' /\ ~InSuite'
      BY <1>4, <2>2 DEF SearchInv, Phase, InSuite
    <2>4. QED
      BY <1>1, <1>4, <2>3, MainStep DEF DriverTypeOK
  <1>5. QED
    BY <1>3, <1>4

LEMMA DriverInvAlways == Spec => []DriverInv
  <1>1. DriverInv /\ [Next]_vars => DriverInv'
    <2> SUFFICES ASSUME DriverInv, [Next]_vars PROVE DriverInv'
      OBVIOUS
    <2>1. CASE DriverNext
      BY <2>1, RegisterKeeps, MainKeeps, VisitKeeps, EndVisitKeeps, ReplayKeeps, SuitesStep DEF DriverNext
    <2>2. CASE TestNext \/ BenchNext
      BY <2>2, SuitesStep
    <2>3. CASE UNCHANGED vars
      BY <2>3, DriverAtRest DEF vars
    <2>4. QED
      BY <2>1, <2>2, <2>3 DEF Next
  <1>2. QED
    BY <1>1, DriverStart, PTL DEF Spec

(* Of the registered suites exactly those run that the word on the command *)
(* line asks for, each once and in the order of the registry, whatever the *)
(* order of static initialization was; and only an unknown word is an      *)
(* error.                                                                  *)
THEOREM AskedSuitesRun == Spec => []RequestedSuitesRun
  <1>1. DriverInv => RequestedSuitesRun
    <2> SUFFICES ASSUME DriverInv, pc = "exit" PROVE RequestedSuitesRun
      BY DEF RequestedSuitesRun
    <2>1. Exiting /\ registry \in Seq(Suite)
      BY DEF DriverInv, DriverTypeOK, SearchInv, Phase, InSuite
    <2>2. AskedBefore(Everywhere) = {i \in DOMAIN registry : Asked(registry[i])}
      BY <2>1 DEF AskedBefore, Everywhere
    <2>3. QED
      BY <2>1, <2>2 DEF Exiting, RequestedSuitesRun
  <1>2. QED
    BY <1>1, DriverInvAlways, PTL

-----------------------------------------------------------------------------
(* The body of a test suite.                                               *)

TestOf == Files \X Nat
Line == [kind : {"title"}, suite : Files]
        \cup [kind : {"mark"}, test : TestOf, ok : BOOLEAN]
        \cup [kind : Trouble, test : TestOf]
        \cup [kind : {"stats"}, total : Nat, pass : Nat, fail : Nat]

TestTypeOK ==
    /\ total \in Nat /\ pass \in Nat /\ fail \in Nat /\ test \in Nat
    /\ inTest \in BOOLEAN /\ failBefore \in Nat
    /\ capture \in Seq(Line) /\ terminal \in Seq(Line)

(* While a test runs its output is captured, a line for every failed check *)
(* and nothing else; the screen is as the test before has left it.         *)
Capturing ==
    /\ cout = IF inTest THEN "capture" ELSE "terminal"
    /\ inTest => /\ InsideTest
                 /\ Len(capture) = fail - failBefore
                 /\ \A i \in DOMAIN capture : capture[i] = Detail

TroubleFollowsItsMark ==
    \A i \in LinesOf(Trouble) :
       \E j \in 1 .. i - 1 :
          /\ terminal[j].kind = "mark" /\ ~terminal[j].ok
          /\ \A k \in j + 1 .. i : terminal[k].kind \in Trouble
          /\ terminal[j].test = terminal[i].test

CrossesHaveTrouble ==
    \A j \in LinesOf({"mark"}) : ~terminal[j].ok => j + 1 \in LinesOf(Trouble)

FailuresCounted ==
    /\ (IF inTest THEN failBefore ELSE fail) = Cardinality(LinesOf(Trouble))
    /\ pass + fail = total + Cardinality(LinesOf({"threw"}))

TestInv == TestTypeOK /\ Capturing /\ TroubleFollowsItsMark /\ CrossesHaveTrouble /\ FailuresCounted

LEMMA ConcatParts ==
  ASSUME NEW S, NEW s \in Seq(S), NEW u \in Seq(S)
  PROVE  /\ s \o u \in Seq(S) /\ Len(s \o u) = Len(s) + Len(u)
         /\ \A i \in 1 .. Len(s) : (s \o u)[i] = s[i]
         /\ \A i \in Len(s) + 1 .. Len(s) + Len(u) : (s \o u)[i] = u[i - Len(s)]
  OBVIOUS

LEMMA CountDisjoint ==
  ASSUME NEW S, NEW T, IsFiniteSet(S), IsFiniteSet(T), S \cap T = {}
  PROVE  /\ IsFiniteSet(S \cup T) /\ Cardinality(S) \in Nat /\ Cardinality(T) \in Nat
         /\ Cardinality(S \cup T) = Cardinality(S) + Cardinality(T)
  <1>1. Cardinality(S) \in Nat /\ Cardinality(T) \in Nat /\ Cardinality(S \cap T) = 0
    BY FS_CardinalityType, FS_EmptySet
  <1>2. /\ IsFiniteSet(S \cup T)
        /\ Cardinality(S \cup T) = Cardinality(S) + Cardinality(T) - Cardinality(S \cap T)
    BY FS_Union
  <1>3. QED
    BY <1>1, <1>2

(* The lines of the kinds that a step does not print stay what they are.   *)
LEMMA LinesFinite ==
  ASSUME TestTypeOK, NEW kinds
  PROVE  /\ IsFiniteSet(LinesOf(kinds)) /\ Cardinality(LinesOf(kinds)) \in Nat
         /\ LinesOf(kinds) \in SUBSET (1 .. Len(terminal)) /\ Len(terminal) \in Nat
  <1>1. terminal \in Seq(Line)
    BY DEF TestTypeOK
  <1>2. DOMAIN terminal = 1 .. Len(terminal) /\ Len(terminal) \in Nat
    BY <1>1
  <1>3. LinesOf(kinds) \in SUBSET (1 .. Len(terminal))
    BY <1>2 DEF LinesOf
  <1>4. IsFiniteSet(1 .. Len(terminal))
    BY <1>2, FS_Interval
  <1>5. QED
    BY <1>2, <1>3, <1>4, FS_Subset, FS_CardinalityType

(* A heading or the statistics on the screen say nothing of a test.        *)
LEMMA OtherLine ==
  ASSUME TestInv, NEW l \in Line, l.kind \in {"title", "stats"}, terminal' = Append(terminal, l)
  PROVE  /\ terminal' \in Seq(Line)
         /\ LinesOf(Trouble)' = LinesOf(Trouble)
         /\ LinesOf({"threw"})' = LinesOf({"threw"})
         /\ TroubleFollowsItsMark' /\ CrossesHaveTrouble'
  <1> DEFINE n == Len(terminal)
  <1>1. terminal \in Seq(Line)
    BY DEF TestInv, TestTypeOK
  <1>2. /\ terminal' \in Seq(Line) /\ n \in Nat
        /\ DOMAIN terminal = 1 .. n /\ DOMAIN terminal' = 1 .. n + 1
        /\ \A i \in 1 .. n : terminal'[i] = terminal[i]
        /\ terminal'[n + 1] = l
    BY <1>1
  <1>3. /\ LinesOf(Trouble)' = LinesOf(Trouble)
        /\ LinesOf({"mark"})' = LinesOf({"mark"})
        /\ LinesOf({"threw"})' = LinesOf({"threw"})
    BY <1>2 DEF LinesOf, Trouble
  <1>4. LinesOf(Trouble) \subseteq 1 .. n /\ LinesOf({"mark"}) \subseteq 1 .. n
    BY <1>2 DEF LinesOf
  <1>5. TroubleFollowsItsMark'
    <2> SUFFICES ASSUME NEW i \in LinesOf(Trouble)
                 PROVE  \E j \in 1 .. i - 1 :
                           /\ terminal'[j].kind = "mark" /\ ~terminal'[j].ok
                           /\ \A k \in j + 1 .. i : terminal'[k].kind \in Trouble
                           /\ terminal'[j].test = terminal'[i].test
      BY <1>3 DEF TroubleFollowsItsMark, Trouble
    <2>1. PICK j \in 1 .. i - 1 :
                  /\ terminal[j].kind = "mark" /\ ~terminal[j].ok
                  /\ \A k \in j + 1 .. i : terminal[k].kind \in Trouble
                  /\ terminal[j].test = terminal[i].test
      BY DEF TestInv, TroubleFollowsItsMark
    <2>2. j \in 1 .. n /\ i \in 1 .. n /\ \A k \in j + 1 .. i : k \in 1 .. n
      BY <1>2, <1>4
    <2>3. QED
      BY <1>2, <2>1, <2>2
  <1>6. CrossesHaveTrouble'
    BY <1>2, <1>3, <1>4 DEF TestInv, CrossesHaveTrouble
  <1>7. QED
    BY <1>2, <1>3, <1>5, <1>6

(* The end of a test, with or without an exception.                        *)
LEMMA Concluded ==
  ASSUME TestInv, DriverTypeOK, InsideTest,
         NEW passed \in BOOLEAN, NEW extra \in {<< >>, <<Threw>>},
         Conclude(passed, extra), passed <=> capture = << >> /\ extra = << >>
  PROVE  /\ terminal' \in Seq(Line)
         /\ Cardinality(LinesOf(Trouble))' = Cardinality(LinesOf(Trouble)) + Len(capture) + Len(extra)
         /\ Cardinality(LinesOf({"threw"}))' = Cardinality(LinesOf({"threw"})) + Len(extra)
         /\ TroubleFollowsItsMark' /\ CrossesHaveTrouble'
  <1> DEFINE n == Len(terminal)
             c == Len(capture)
             e == Len(extra)
             m == n + 1
  <1>1. /\ terminal \in Seq(Line) /\ capture \in Seq(Line)
        /\ \A i \in DOMAIN capture : capture[i] = Detail
    BY DEF TestInv, TestTypeOK, Capturing, InsideTest
  <1>2. ThisTest \in TestOf
    BY DEF ThisTest, TestOf, TestInv, TestTypeOK, InsideTest, DriverTypeOK, InSuite, Suite
  <1>3. /\ Mark(passed) \in Line /\ Threw \in Line
        /\ Mark(passed).kind = "mark" /\ Mark(passed).ok = passed /\ Mark(passed).test = ThisTest
        /\ Detail.kind = "detail" /\ Detail.test = ThisTest
        /\ Threw.kind = "threw" /\ Threw.test = ThisTest
    BY <1>2 DEF Mark, Threw, Detail, Line, Trouble
  <1>4. /\ n \in Nat /\ c \in Nat /\ e \in 0 .. 1 /\ extra \in Seq(Line)
        /\ \A i \in 1 .. e : extra[i] = Threw
        /\ passed <=> c + e = 0
    <2>1. n \in Nat /\ c \in Nat /\ (capture = << >> <=> c = 0)
      BY <1>1
    <2>2. CASE extra = << >>
      BY <2>1, <2>2
    <2>3. CASE extra = <<Threw>>
      BY <1>3, <2>1, <2>3
    <2>4. QED
      BY <2>2, <2>3
  <1>5. /\ terminal' \in Seq(Line) /\ Len(terminal') = m + c + e
        /\ DOMAIN terminal' = 1 .. m + c + e
        /\ \A i \in 1 .. n : terminal'[i] = terminal[i]
        /\ terminal'[m] = Mark(passed)
        /\ \A i \in m + 1 .. m + c : terminal'[i] = Detail
        /\ \A i \in m + c + 1 .. m + c + e : terminal'[i] = Threw
    <2>1. terminal' = ((terminal \o <<Mark(passed)>>) \o capture) \o extra
      BY DEF Conclude
    <2> DEFINE p == terminal \o <<Mark(passed)>>
               q == p \o capture
    <2>2. /\ p \in Seq(Line) /\ Len(p) = m
          /\ \A i \in 1 .. n : p[i] = terminal[i]
          /\ p[m] = Mark(passed)
      BY <1>1, <1>3
    <2> HIDE DEF p
    <2>3. /\ q \in Seq(Line) /\ Len(q) = m + c
          /\ \A i \in 1 .. m : q[i] = p[i]
          /\ \A i \in m + 1 .. m + c : q[i] = capture[i - m]
      <3>1. /\ p \o capture \in Seq(Line) /\ Len(p \o capture) = Len(p) + Len(capture)
            /\ \A i \in 1 .. Len(p) : (p \o capture)[i] = p[i]
            /\ \A i \in Len(p) + 1 .. Len(p) + Len(capture) : (p \o capture)[i] = capture[i - Len(p)]
        BY <1>1, <2>2, ConcatParts
      <3>2. QED
        BY <2>2, <3>1
    <2> HIDE DEF q
    <2>4. /\ q \o extra \in Seq(Line) /\ Len(q \o extra) = m + c + e
          /\ \A i \in 1 .. m + c : (q \o extra)[i] = q[i]
          /\ \A i \in m + c + 1 .. m + c + e : (q \o extra)[i] = extra[i - (m + c)]
      <3>1. /\ q \o extra \in Seq(Line) /\ Len(q \o extra) = Len(q) + Len(extra)
            /\ \A i \in 1 .. Len(q) : (q \o extra)[i] = q[i]
            /\ \A i \in Len(q) + 1 .. Len(q) + Len(extra) : (q \o extra)[i] = extra[i - Len(q)]
        <4>1. extra \in Seq(Line) /\ q \in Seq(Line)
          BY <1>4, <2>3
        <4>2. QED
          BY <4>1, ConcatParts
      <3>2. QED
        BY <2>3, <3>1
    <2>5. terminal' = q \o extra
      BY <2>1 DEF p, q
    <2>6. \A i \in m + 1 .. m + c : terminal'[i] = Detail
      <3>1. \A i \in m + 1 .. m + c : i - m \in DOMAIN capture
        BY <1>1, <1>4
      <3>2. QED
        BY <1>1, <1>4, <2>3, <2>4, <2>5, <3>1
    <2>7. \A i \in m + c + 1 .. m + c + e : terminal'[i] = Threw
      <3>1. \A i \in m + c + 1 .. m + c + e : i - (m + c) \in 1 .. e
        BY <1>4
      <3>2. QED
        BY <1>4, <2>4, <2>5, <3>1
    <2>8. /\ terminal' \in Seq(Line) /\ Len(terminal') = m + c + e
          /\ DOMAIN terminal' = 1 .. m + c + e
      BY <2>4, <2>5
    <2>9. \A i \in 1 .. m : terminal'[i] = p[i]
      BY <1>4, <2>3, <2>4, <2>5
    <2>10. QED
      BY <1>4, <2>2, <2>6, <2>7, <2>8, <2>9
  <1>6. DOMAIN terminal = 1 .. n
    BY <1>1
  <1> HIDE DEF n, c, e
  <1>7. /\ LinesOf(Trouble)' = LinesOf(Trouble) \cup (m + 1 .. m + c + e)
        /\ LinesOf({"mark"})' = LinesOf({"mark"}) \cup {m}
        /\ LinesOf({"threw"})' = LinesOf({"threw"}) \cup (m + c + 1 .. m + c + e)
        /\ \A i \in m + 1 .. m + c + e : terminal'[i].test = ThisTest
    <2>1. \A i \in 1 .. m + c + e : \/ i \in 1 .. n \/ i = m
                                     \/ i \in m + 1 .. m + c \/ i \in m + c + 1 .. m + c + e
      BY <1>4
    <2>2. LinesOf(Trouble)' = LinesOf(Trouble) \cup (m + 1 .. m + c + e)
      BY <1>3, <1>4, <1>5, <1>6, <2>1 DEF LinesOf, Trouble
    <2>3. LinesOf({"mark"})' = LinesOf({"mark"}) \cup {m}
      BY <1>3, <1>4, <1>5, <1>6, <2>1 DEF LinesOf
    <2>4. LinesOf({"threw"})' = LinesOf({"threw"}) \cup (m + c + 1 .. m + c + e)
      BY <1>3, <1>4, <1>5, <1>6, <2>1 DEF LinesOf
    <2>5. \A i \in m + 1 .. m + c + e : terminal'[i].test = ThisTest
      BY <1>3, <1>4, <1>5, <2>1
    <2>6. QED
      BY <2>2, <2>3, <2>4, <2>5
  <1>8. /\ Cardinality(LinesOf(Trouble))' = Cardinality(LinesOf(Trouble)) + c + e
        /\ Cardinality(LinesOf({"threw"}))' = Cardinality(LinesOf({"threw"})) + e
    <2>1. ASSUME NEW kinds, NEW a \in Nat, NEW b \in Nat, a > n, a <= b + 1
          PROVE  Cardinality(LinesOf(kinds) \cup (a .. b)) = Cardinality(LinesOf(kinds)) + (b - a + 1)
      <3>1. /\ IsFiniteSet(LinesOf(kinds)) /\ Cardinality(LinesOf(kinds)) \in Nat
            /\ LinesOf(kinds) \in SUBSET (1 .. n)
        BY LinesFinite DEF TestInv, n
      <3>2. IsFiniteSet(a .. b) /\ Cardinality(a .. b) = b - a + 1
        BY <2>1, FS_Interval
      <3>3. LinesOf(kinds) \cap (a .. b) = {}
        BY <1>4, <2>1, <3>1
      <3>4. QED
        BY <3>1, <3>2, <3>3, CountDisjoint
    <2>2. Cardinality(LinesOf(Trouble) \cup (m + 1 .. m + c + e)) = Cardinality(LinesOf(Trouble)) + (c + e)
      <3>1. (m + c + e) - (m + 1) + 1 = c + e
        BY <1>4
      <3>2. QED
        BY <1>4, <2>1, <3>1
    <2>3. Cardinality(LinesOf({"threw"}) \cup (m + c + 1 .. m + c + e)) = Cardinality(LinesOf({"threw"})) + e
      <3>1. (m + c + e) - (m + c + 1) + 1 = e
        BY <1>4
      <3>2. QED
        BY <1>4, <2>1, <3>1
    <2>4. Cardinality(LinesOf(Trouble)) \in Nat
      BY LinesFinite DEF TestInv
    <2>5. Cardinality(LinesOf(Trouble))' = Cardinality(LinesOf(Trouble)) + c + e
      BY <1>4, <1>7, <2>2, <2>4
    <2>6. Cardinality(LinesOf({"threw"}))' = Cardinality(LinesOf({"threw"})) + e
      BY <1>7, <2>3
    <2>7. QED
      BY <2>5, <2>6
  <1>9. LinesOf(Trouble) \subseteq 1 .. n /\ LinesOf({"mark"}) \subseteq 1 .. n
    BY <1>6 DEF LinesOf
  <1>10. TroubleFollowsItsMark'
    <2> SUFFICES ASSUME NEW i \in LinesOf(Trouble)'
                 PROVE  \E j \in 1 .. i - 1 :
                           /\ terminal'[j].kind = "mark" /\ ~terminal'[j].ok
                           /\ \A k \in j + 1 .. i : terminal'[k].kind \in Trouble
                           /\ terminal'[j].test = terminal'[i].test
      BY DEF TroubleFollowsItsMark, Trouble
    <2>1. CASE i \in LinesOf(Trouble)
      <3>1. PICK j \in 1 .. i - 1 :
                    /\ terminal[j].kind = "mark" /\ ~terminal[j].ok
                    /\ \A k \in j + 1 .. i : terminal[k].kind \in Trouble
                    /\ terminal[j].test = terminal[i].test
        BY <2>1 DEF TestInv, TroubleFollowsItsMark
      <3>2. j \in 1 .. n /\ i \in 1 .. n /\ \A k \in j + 1 .. i : k \in 1 .. n
        BY <1>4, <1>9, <2>1
      <3>3. QED
        BY <1>5, <3>1, <3>2
    <2>2. CASE i \in m + 1 .. m + c + e
      <3>1. m \in 1 .. i - 1 /\ terminal'[m].kind = "mark" /\ ~terminal'[m].ok
        BY <1>3, <1>4, <1>5, <2>2
      <3>2. \A k \in m + 1 .. i : terminal'[k].kind \in Trouble
        <4>1. \A k \in m + 1 .. i : k \in LinesOf(Trouble)'
          BY <1>4, <1>7, <2>2
        <4>2. QED
          BY <4>1 DEF LinesOf, Trouble
      <3>3. terminal'[m].test = terminal'[i].test
        BY <1>3, <1>5, <1>7, <2>2
      <3>4. QED
        BY <3>1, <3>2, <3>3
    <2>3. QED
      BY <1>7, <2>1, <2>2
  <1>11. CrossesHaveTrouble'
    <2> SUFFICES ASSUME NEW j \in LinesOf({"mark"})', ~terminal'[j].ok
                 PROVE  j + 1 \in LinesOf(Trouble)'
      BY DEF CrossesHaveTrouble
    <2>1. CASE j = m
      BY <1>3, <1>4, <1>5, <1>7, <2>1
    <2>2. CASE j \in LinesOf({"mark"})
      BY <1>5, <1>7, <1>9, <2>2 DEF TestInv, CrossesHaveTrouble
    <2>3. QED
      BY <1>7, <2>1, <2>2
  <1>12. QED
    BY <1>5, <1>8, <1>10, <1>11 DEF c, e

LEMMA TestStart == Init => TestInv
  <1> SUFFICES ASSUME Init PROVE TestInv
    OBVIOUS
  <1> USE DEF Init, TestInit
  <1>1. TestTypeOK /\ Capturing
    <2>1. << >> \in Seq(Line)
      OBVIOUS
    <2>2. TestTypeOK
      BY <2>1 DEF TestTypeOK
    <2>3. Capturing
      BY DEF Capturing
    <2>4. QED
      BY <2>2, <2>3
  <1>2. \A kinds : LinesOf(kinds) = {}
    BY DEF LinesOf
  <1>3. Cardinality(LinesOf(Trouble)) = 0 /\ Cardinality(LinesOf({"threw"})) = 0
    BY <1>2, FS_EmptySet
  <1>4. FailuresCounted
    BY <1>3 DEF FailuresCounted
  <1>5. TroubleFollowsItsMark /\ CrossesHaveTrouble
    BY <1>2 DEF TroubleFollowsItsMark, CrossesHaveTrouble
  <1>6. QED
    BY <1>1, <1>4, <1>5 DEF TestInv

(* A step that leaves the screen as it is.                                 *)
LEMMA SameScreen ==
  ASSUME TestInv, terminal' = terminal
  PROVE  /\ LinesOf(Trouble)' = LinesOf(Trouble)
         /\ LinesOf({"threw"})' = LinesOf({"threw"})
         /\ TroubleFollowsItsMark' /\ CrossesHaveTrouble'
  <1>1. TroubleFollowsItsMark /\ CrossesHaveTrouble
    BY DEF TestInv
  <1>2. LinesOf(Trouble)' = LinesOf(Trouble) /\ LinesOf({"threw"})' = LinesOf({"threw"})
    BY DEF LinesOf, Trouble
  <1>3. TroubleFollowsItsMark'
    BY <1>1 DEF TroubleFollowsItsMark, LinesOf, Trouble
  <1>4. CrossesHaveTrouble'
    BY <1>1 DEF CrossesHaveTrouble, LinesOf, Trouble
  <1>5. QED
    BY <1>2, <1>3, <1>4

(* Between two tests, and in the other programs.                           *)
LEMMA TestsAtRest ==
  ASSUME TestInv, UNCHANGED testVars, ~inTest \/ UNCHANGED driverVars
  PROVE  TestInv'
  <1> USE DEF testVars, counts, case, streams
  <1>1. TestTypeOK' /\ Capturing'
    BY DEF TestInv, TestTypeOK, Capturing, InsideTest, Detail, ThisTest, driverVars, choice
  <1>2. FailuresCounted'
    BY SameScreen DEF TestInv, FailuresCounted
  <1>3. QED
    BY <1>1, <1>2, SameScreen DEF TestInv

LEMMA BeginSuiteKeeps ==
  ASSUME TestInv, DriverTypeOK, BeginSuite
  PROVE  TestInv'
  <1> USE DEF BeginSuite, counts
  <1>1. ~inTest /\ cout = "terminal"
    BY DEF TestInv, Capturing, InsideTest
  <1>2. Title \in Line /\ Title.kind = "title"
    BY DEF Title, Line, DriverTypeOK, InSuite, Suite
  <1>3. terminal' = Append(terminal, Title) /\ UNCHANGED <<cout, capture>>
    BY <1>1 DEF Emit
  <1>4. TestTypeOK' /\ Capturing'
    BY <1>1, <1>2, <1>3, OtherLine DEF TestInv, TestTypeOK, Capturing
  <1>5. FailuresCounted'
    BY <1>1, <1>2, <1>3, OtherLine DEF TestInv, FailuresCounted
  <1>6. QED
    BY <1>2, <1>3, <1>4, <1>5, OtherLine DEF TestInv

LEMMA FinishTestsKeeps ==
  ASSUME TestInv, FinishTests
  PROVE  TestInv'
  <1> USE DEF FinishTests, counts, case
  <1>1. ~inTest /\ cout = "terminal"
    BY DEF TestInv, Capturing, InsideTest
  <1>2. Stats \in Line /\ Stats.kind = "stats"
    BY DEF Stats, Line, TestInv, TestTypeOK
  <1>3. terminal' = Append(terminal, Stats) /\ UNCHANGED <<cout, capture>>
    BY <1>1 DEF Emit
  <1>4. TestTypeOK' /\ Capturing'
    BY <1>1, <1>2, <1>3, OtherLine DEF TestInv, TestTypeOK, Capturing
  <1>5. FailuresCounted'
    BY <1>1, <1>2, <1>3, OtherLine DEF TestInv, FailuresCounted
  <1>6. QED
    BY <1>2, <1>3, <1>4, <1>5, OtherLine DEF TestInv

LEMMA EnterTestKeeps ==
  ASSUME TestInv, EnterTest
  PROVE  TestInv'
  <1> USE DEF EnterTest, counts
  <1>1. TestTypeOK' /\ Capturing'
    BY DEF TestInv, TestTypeOK, Capturing, InsideTest, driverVars, choice
  <1>2. FailuresCounted'
    BY SameScreen DEF TestInv, FailuresCounted
  <1>3. QED
    BY <1>1, <1>2, SameScreen DEF TestInv

LEMMA ChecksKeep ==
  ASSUME TestInv, DriverTypeOK, CheckPasses \/ CheckFails
  PROVE  TestInv'
  <1> USE DEF InsideTest, driverVars, choice
  <1>1. /\ TestTypeOK /\ capture \in Seq(Line) /\ cout = "capture" /\ UNCHANGED terminal
        /\ UNCHANGED <<pc, program, running, test, inTest, failBefore, cout>>
        /\ Cardinality(LinesOf({"threw"})) \in Nat
    BY LinesFinite DEF TestInv, TestTypeOK, Capturing, CheckPasses, CheckFails, streams, Emit
  <1>2. Detail' = Detail /\ Detail \in Line
    <2>1. ThisTest \in TestOf
      BY DEF ThisTest, TestOf, TestInv, TestTypeOK, DriverTypeOK, InSuite, Suite, CheckPasses, CheckFails
    <2>2. QED
      BY <1>1, <2>1 DEF Detail, ThisTest, Line, Trouble
  <1>3. CASE CheckPasses
    <2>1. TestTypeOK' /\ Capturing'
      BY <1>1, <1>2, <1>3 DEF TestInv, TestTypeOK, Capturing, CheckPasses, streams
    <2>2. FailuresCounted'
      BY <1>1, <1>3, SameScreen DEF TestInv, TestTypeOK, FailuresCounted, CheckPasses
    <2>3. QED
      BY <1>1, <2>1, <2>2, SameScreen DEF TestInv
  <1>4. CASE CheckFails
    <2>1. capture' = Append(capture, Detail) /\ fail' = fail + 1
      BY <1>1, <1>4 DEF CheckFails, Emit
    <2>2. /\ capture' \in Seq(Line) /\ Len(capture') = Len(capture) + 1
          /\ \A i \in DOMAIN capture' : \/ i \in DOMAIN capture /\ capture'[i] = capture[i]
                                        \/ capture'[i] = Detail
      BY <1>1, <1>2, <2>1
    <2>3. TestTypeOK'
      BY <1>1, <1>4, <2>2 DEF TestTypeOK, CheckFails
    <2>4. Capturing'
      BY <1>1, <1>2, <1>4, <2>1, <2>2 DEF TestInv, TestTypeOK, Capturing, CheckFails
    <2>5. FailuresCounted'
      BY <1>1, <1>4, SameScreen DEF TestInv, TestTypeOK, FailuresCounted, CheckFails
    <2>6. QED
      BY <1>1, <2>3, <2>4, <2>5, SameScreen DEF TestInv
  <1>5. QED
    BY <1>3, <1>4

LEMMA TestEndsKeep ==
  ASSUME TestInv, DriverTypeOK, TestReturns \/ TestThrows
  PROVE  TestInv'
  <1>1. PICK p \in BOOLEAN, x \in {<< >>, <<Threw>>} :
           /\ Conclude(p, x) /\ (p <=> capture = << >> /\ x = << >>)
           /\ fail' = fail + Len(x) /\ UNCHANGED <<total, pass>> /\ Len(x) \in Nat
    <2>1. InsideTest /\ fail - failBefore = Len(capture) /\ capture \in Seq(Line) /\ fail \in Nat
          /\ failBefore \in Nat
      BY DEF TestInv, TestTypeOK, Capturing, InsideTest, TestReturns, TestThrows
    <2>2. capture = << >> <=> fail = failBefore
      BY <2>1
    <2>3. CASE TestReturns
      <3>1. Conclude(fail = failBefore, << >>) /\ UNCHANGED counts /\ (fail = failBefore) \in BOOLEAN
        BY <2>3 DEF TestReturns
      <3>2. fail' = fail + Len(<< >>) /\ UNCHANGED <<total, pass>> /\ Len(<< >>) \in Nat
        BY <2>1, <3>1 DEF counts
      <3>3. QED
        BY <2>2, <3>1, <3>2
    <2>4. CASE TestThrows
      <3>1. Conclude(FALSE, <<Threw>>) /\ fail' = fail + Len(<<Threw>>) /\ UNCHANGED <<total, pass>>
        BY <2>4 DEF TestThrows
      <3>2. <<Threw>> # << >> /\ Len(<<Threw>>) \in Nat
        OBVIOUS
      <3>3. QED
        BY <3>1, <3>2
    <2>5. QED
      BY <2>3, <2>4
  <1>2. InsideTest
    BY DEF TestReturns, TestThrows
  <1>3. /\ terminal' \in Seq(Line)
        /\ Cardinality(LinesOf(Trouble))' = Cardinality(LinesOf(Trouble)) + Len(capture) + Len(x)
        /\ Cardinality(LinesOf({"threw"}))' = Cardinality(LinesOf({"threw"})) + Len(x)
        /\ TroubleFollowsItsMark' /\ CrossesHaveTrouble'
    BY <1>1, <1>2, Concluded
  <1>4. /\ total \in Nat /\ pass \in Nat /\ fail \in Nat /\ failBefore \in Nat
        /\ Cardinality(LinesOf(Trouble)) \in Nat /\ Cardinality(LinesOf({"threw"})) \in Nat
        /\ failBefore = Cardinality(LinesOf(Trouble)) /\ Len(capture) = fail - failBefore
        /\ pass + fail = total + Cardinality(LinesOf({"threw"}))
    BY <1>2, LinesFinite DEF TestInv, TestTypeOK, Capturing, FailuresCounted, InsideTest
  <1>5. ~inTest' /\ inTest' \in BOOLEAN /\ cout' = "terminal"
        /\ UNCHANGED <<test, failBefore, capture>>
    BY <1>1 DEF Conclude
  <1>6. TestTypeOK' /\ Capturing'
    BY <1>1, <1>3, <1>4, <1>5 DEF TestInv, TestTypeOK, Capturing
  <1>7. FailuresCounted'
    <2>1. fail' = Cardinality(LinesOf(Trouble))'
      BY <1>1, <1>3, <1>4
    <2>2. (pass + fail)' = total' + Cardinality(LinesOf({"threw"}))'
      <3>1. pass' = pass /\ total' = total /\ fail' = fail + Len(x) /\ Len(x) \in Nat
        BY <1>1
      <3>2. Cardinality(LinesOf({"threw"}))' = Cardinality(LinesOf({"threw"})) + Len(x)
        BY <1>3
      <3> DEFINE e == Len(x)
                 z == Cardinality(LinesOf({"threw"}))
      <3> HIDE DEF e, z
      <3>3. pass' + fail' = total' + (z + e)
        BY <1>4, <3>1 DEF e, z
      <3>4. QED
        BY <3>2, <3>3 DEF e, z
    <2>3. QED
      BY <1>5, <2>1, <2>2 DEF FailuresCounted
  <1>8. QED
    BY <1>3, <1>6, <1>7 DEF TestInv

LEMMA TestInvAlways == Spec => []TestInv
  <1>1. DriverTypeOK /\ TestInv /\ [Next]_vars => TestInv'
    <2> SUFFICES ASSUME DriverTypeOK, TestInv, [Next]_vars PROVE TestInv'
      OBVIOUS
    <2>1. inTest => pc = "body" /\ program = "tests"
      BY DEF TestInv, Capturing, InsideTest
    <2>2. CASE DriverNext /\ UNCHANGED testVars
      <3>1. ~inTest
        BY <2>1, <2>2 DEF DriverNext, Register, RegistrationFails, Main, Visit, EndVisit, Replay,
                          RunExample, FinishExamples
      <3>2. QED
        BY <2>2, <3>1, TestsAtRest
    <2>3. CASE BenchNext /\ UNCHANGED testVars
      <3>1. ~inTest
        BY <2>1, <2>3 DEF BenchNext, BeginBench, Measure, EndBench, FinishBench
      <3>2. QED
        BY <2>3, <3>1, TestsAtRest
    <2>4. CASE TestNext
      <3>1. CASE EndSuite
        BY <3>1, TestsAtRest DEF EndSuite
      <3>2. QED
        BY <2>4, <3>1, BeginSuiteKeeps, EnterTestKeeps, ChecksKeep, TestEndsKeep, FinishTestsKeeps DEF TestNext
    <2>5. CASE UNCHANGED vars
      BY <2>5, TestsAtRest DEF vars
    <2>6. QED
      BY <2>2, <2>3, <2>4, <2>5 DEF Next
  <1>2. DriverInv => DriverTypeOK
    BY DEF DriverInv
  <1>3. QED
    BY <1>1, <1>2, TestStart, DriverInvAlways, PTL DEF Spec

(* Whatever went wrong in a test is on the screen, right below the cross   *)
(* of that test, also after a test that threw; and there is one such line  *)
(* for every failure counted.                                              *)
THEOREM FailuresAreReported == Spec => []FailuresReported
  <1>1. TestInv => FailuresReported
    BY DEF TestInv, FailuresReported, TroubleFollowsItsMark, CrossesHaveTrouble, FailuresCounted
  <1>2. QED
    BY <1>1, TestInvAlways, PTL

(* Between two tests nothing failed if and only if every mark is a tick,   *)
(* and every check is counted once; a test that threw adds one failure.    *)
THEOREM CountersAgreeWithMarks == Spec => []CountersMatchMarks
  <1>1. TestInv => CountersMatchMarks
    <2> SUFFICES ASSUME TestInv, ~inTest PROVE CountersMatchMarks
      BY DEF CountersMatchMarks
    <2>1. /\ fail = Cardinality(LinesOf(Trouble)) /\ IsFiniteSet(LinesOf(Trouble))
          /\ pass + fail = total + Cardinality(LinesOf({"threw"}))
      BY LinesFinite DEF TestInv, FailuresCounted
    <2>2. fail = 0 <=> LinesOf(Trouble) = {}
      BY <2>1, FS_EmptySet
    <2>3. LinesOf(Trouble) = {} => \A j \in LinesOf({"mark"}) : terminal[j].ok
      BY DEF TestInv, CrossesHaveTrouble
    <2>4. ASSUME NEW i \in LinesOf(Trouble)
          PROVE  \E j \in LinesOf({"mark"}) : ~terminal[j].ok
      <3>1. PICK j \in 1 .. i - 1 : terminal[j].kind = "mark" /\ ~terminal[j].ok
        BY DEF TestInv, TroubleFollowsItsMark
      <3>2. LinesOf(Trouble) \subseteq 1 .. Len(terminal) /\ Len(terminal) \in Nat
        BY LinesFinite DEF TestInv
      <3>3. terminal \in Seq(Line)
        BY DEF TestInv, TestTypeOK
      <3>4. j \in DOMAIN terminal
        BY <3>2, <3>3
      <3>5. QED
        BY <3>1, <3>4 DEF LinesOf
    <2>5. QED
      BY <2>1, <2>2, <2>3, <2>4 DEF CountersMatchMarks
  <1>2. QED
    BY <1>1, TestInvAlways, PTL

-----------------------------------------------------------------------------
(* The body of a benchmark suite.                                          *)

SuiteNames == Files \cup {""}
TallySet   == [win : Nat, loss : Nat, tie : Nat]
TableLine ==
    [kind : {"header"}, solo : BOOLEAN, suite : SuiteNames]
    \cup [kind : {"footer", "separator"}, solo : BOOLEAN]
    \cup [kind : {"row"}, solo : BOOLEAN, op : Operations, tier : Nat, ns : Seq(Nat)]
    \cup [kind : {"summary"}, tally : TallySet]
Result == [suite : SuiteNames, op : Operations, tier : Nat, ns : Nat]

BenchState ==
    [suiteName : SuiteNames, lastRowGroup : Operations \cup {""},
     tableOpen : BOOLEAN, tableIsSolo : BOOLEAN,
     screen : Seq(TableLine), markdown : Seq(TableLine), results : Seq(Result), tally : TallySet]

LastOf(lines) == lines[Len(lines)]

Proper(screen) ==
    /\ \A i \in 1 .. Len(screen) - 1 : Follows(screen, i)
    /\ screen # << >> => screen[1].kind = "header"

(* The screen is a sequence of tables, of which the last may be open.      *)
ScreenInv(b) ==
    /\ Proper(b.screen)
    /\ b.screen # << >> => LastOf(b.screen).kind = IF b.tableOpen THEN "row" ELSE "footer"
    /\ b.tableOpen => /\ b.screen # << >>
                      /\ LastOf(b.screen).solo = b.tableIsSolo
                      /\ LastOf(b.screen).op = b.lastRowGroup

(* What is counted for the summary is what the lines compare.              *)
Tallied(lines, tally) ==
    /\ tally.win = Cardinality(WinsOf(lines))
    /\ tally.loss = Cardinality(LossesOf(lines))
    /\ Total(tally) = Cardinality(PairsOf(lines))

HeadedBy(lines, name) ==
    \E h \in DOMAIN lines : StandsUnder(lines, Len(lines), h) /\ lines[h].suite = name

(* What is recorded for the JSON, what is counted for the summary and what *)
(* is written into the markdown agree, row by row.                         *)
ReportInv(b) ==
    /\ SameRows(b.results, b.markdown) /\ Tallied(b.markdown, b.tally)
    /\ b.tableOpen => HeadedBy(b.markdown, b.suiteName)
    /\ b.screen = << >> => Total(b.tally) = 0

BenchInv ==
    /\ bench \in BenchState
    /\ pc # "exit" => /\ ScreenInv(bench) /\ ReportInv(bench)
                      /\ bench.tableOpen => program = "benchmarks" /\ pc = "body"
                      /\ json = Earlier /\ report = Earlier
    /\ pc = "exit" => TablesWellFormed /\ ReportsAgree

LEMMA TableLines ==
  ASSUME NEW b \in BenchState
  PROVE  /\ b.tally \in TallySet /\ Summary(b) \in TableLine
         /\ \A solo \in BOOLEAN : Header(b, solo) \in TableLine
         /\ \A kind \in {"footer", "separator"} : Border(b, kind) \in TableLine
  BY DEF BenchState, TableLine, Summary, Header, Border

LEMMA DrawFields ==
  ASSUME NEW b \in BenchState, NEW l \in TableLine
  PROVE  /\ Draw(b, l) \in BenchState
         /\ Draw(b, l).screen = Append(b.screen, l)
         /\ Draw(b, l).markdown = b.markdown /\ Draw(b, l).results = b.results
         /\ Draw(b, l).tally = b.tally /\ Draw(b, l).suiteName = b.suiteName
         /\ Draw(b, l).tableOpen = b.tableOpen /\ Draw(b, l).tableIsSolo = b.tableIsSolo
         /\ Draw(b, l).lastRowGroup = b.lastRowGroup
  <1> DEFINE x == Append(b.screen, l)
  <1>1. x \in Seq(TableLine)
    <2>1. b.screen \in Seq(TableLine)
      BY DEF BenchState
    <2>2. QED
      BY <2>1
  <1>2. Draw(b, l) = [b EXCEPT !.screen = x]
    BY DEF Draw
  <1> HIDE DEF x
  <1>3. QED
    BY <1>1, <1>2 DEF BenchState, x

LEMMA WriteFields ==
  ASSUME NEW b \in BenchState, NEW l \in TableLine
  PROVE  /\ Write(b, l) \in BenchState
         /\ Write(b, l).screen = Append(b.screen, l)
         /\ Write(b, l).markdown = Append(b.markdown, l) /\ Write(b, l).results = b.results
         /\ Write(b, l).tally = b.tally /\ Write(b, l).suiteName = b.suiteName
         /\ Write(b, l).tableOpen = b.tableOpen /\ Write(b, l).tableIsSolo = b.tableIsSolo
         /\ Write(b, l).lastRowGroup = b.lastRowGroup
  <1> DEFINE x == Append(b.screen, l)
             y == Append(b.markdown, l)
  <1>1. x \in Seq(TableLine) /\ y \in Seq(TableLine)
    <2>1. b.screen \in Seq(TableLine) /\ b.markdown \in Seq(TableLine)
      BY DEF BenchState
    <2>2. QED
      BY <2>1
  <1>2. Write(b, l) = [b EXCEPT !.screen = x, !.markdown = y]
    BY DEF Write
  <1> HIDE DEF x, y
  <1>3. QED
    BY <1>1, <1>2 DEF BenchState, x, y

LEMMA LineAppended ==
  ASSUME NEW s \in Seq(TableLine), NEW l \in TableLine
  PROVE  /\ Append(s, l) \in Seq(TableLine) /\ Len(s) \in Nat /\ Len(Append(s, l)) = Len(s) + 1
         /\ DOMAIN s = 1 .. Len(s) /\ DOMAIN Append(s, l) = 1 .. Len(s) + 1
         /\ \A i \in 1 .. Len(s) : Append(s, l)[i] = s[i]
         /\ Append(s, l)[Len(s) + 1] = l /\ LastOf(Append(s, l)) = l
         /\ Append(s, l) # << >>
  BY DEF LastOf

(* A screen stays proper if the next line may follow the last one.         *)
LEMMA ProperMore ==
  ASSUME NEW s \in Seq(TableLine), NEW l \in TableLine, Proper(s),
         IF s = << >> THEN l.kind = "header" ELSE Follows(Append(s, l), Len(s))
  PROVE  Proper(Append(s, l))
  <1> DEFINE n == Len(s)
             a == Append(s, l)
  <1>1. /\ n \in Nat /\ Len(a) = n + 1 /\ a[n + 1] = l
        /\ \A i \in 1 .. n : a[i] = s[i]
    BY LineAppended
  <1>2. s = << >> <=> n = 0
    OBVIOUS
  <1> HIDE DEF n, a
  <1>3. a[1].kind = "header"
    BY <1>1, <1>2 DEF Proper, a, n
  <1>4. ASSUME NEW i \in 1 .. n PROVE Follows(a, i)
    <2>1. CASE i = n
      BY <1>1, <1>2, <2>1 DEF a, n
    <2>2. CASE i < n
      <3>1. Follows(s, i) /\ a[i] = s[i] /\ a[i + 1] = s[i + 1]
        BY <1>1, <2>2 DEF Proper, n
      <3>2. CASE i = 1
        BY <1>3, <3>1, <3>2 DEF Follows
      <3>3. CASE i > 1
        <4>1. a[i - 1] = s[i - 1]
          BY <1>1, <3>3
        <4>2. QED
          BY <3>1, <4>1 DEF Follows
      <3>4. QED
        BY <3>2, <3>3
    <2>3. QED
      BY <1>1, <2>1, <2>2
  <1>5. QED
    BY <1>1, <1>3, <1>4 DEF Proper, a

-----------------------------------------------------------------------------
(* What a line does to the markdown's account.                             *)

LEMMA RowsFinite ==
  ASSUME NEW s \in Seq(TableLine)
  PROVE  /\ IsFiniteSet(RowsOf(s)) /\ Cardinality(RowsOf(s)) \in Nat
         /\ RowsOf(s) \in SUBSET (1 .. Len(s))
         /\ IsFiniteSet(PairsOf(s)) /\ Cardinality(PairsOf(s)) \in Nat
         /\ IsFiniteSet(WinsOf(s)) /\ Cardinality(WinsOf(s)) \in Nat
         /\ IsFiniteSet(LossesOf(s)) /\ Cardinality(LossesOf(s)) \in Nat
  <1>1. RowsOf(s) \in SUBSET (1 .. Len(s)) /\ IsFiniteSet(1 .. Len(s))
    BY FS_Interval DEF RowsOf
  <1>2. PairsOf(s) \in SUBSET RowsOf(s) /\ WinsOf(s) \in SUBSET PairsOf(s)
        /\ LossesOf(s) \in SUBSET PairsOf(s)
    BY DEF PairsOf, WinsOf, LossesOf
  <1>3. IsFiniteSet(RowsOf(s)) /\ IsFiniteSet(PairsOf(s)) /\ IsFiniteSet(WinsOf(s))
        /\ IsFiniteSet(LossesOf(s))
    BY <1>1, <1>2, FS_Subset
  <1>4. QED
    BY <1>1, <1>3, FS_CardinalityType

(* Row i has a place among the recorded results.                           *)
LEMMA PlacesAreResults ==
  ASSUME NEW s \in Seq(TableLine), NEW i \in RowsOf(s)
  PROVE  PlaceOf(s, i) \in 1 .. Cardinality(RowsOf(s))
  <1> DEFINE T == {j \in RowsOf(s) : j <= i}
  <1>1. T \in SUBSET RowsOf(s) /\ i \in T
    BY RowsFinite
  <1>2. /\ IsFiniteSet(T) /\ Cardinality(T) <= Cardinality(RowsOf(s))
        /\ Cardinality(T) \in Nat /\ Cardinality(RowsOf(s)) \in Nat
    BY <1>1, RowsFinite, FS_Subset, FS_CardinalityType
  <1>3. Cardinality(T) # 0
    BY <1>1, <1>2, FS_EmptySet
  <1>4. QED
    BY <1>2, <1>3 DEF PlaceOf

LEMMA OtherLineAppended ==
  ASSUME NEW s \in Seq(TableLine), NEW l \in TableLine, l.kind # "row"
  PROVE  /\ \A rs : SameRows(rs, s) => SameRows(rs, Append(s, l))
         /\ \A tally : Tallied(s, tally) => Tallied(Append(s, l), tally)
         /\ PairsOf(Append(s, l)) = PairsOf(s)
  <1> DEFINE n == Len(s)
             a == Append(s, l)
  <1>1. /\ n \in Nat /\ DOMAIN s = 1 .. n /\ DOMAIN a = 1 .. n + 1 /\ a[n + 1] = l
        /\ \A i \in 1 .. n : a[i] = s[i]
    BY LineAppended
  <1> HIDE DEF n, a
  <1>2. RowsOf(a) = RowsOf(s) /\ RowsOf(s) \subseteq 1 .. n
    BY <1>1 DEF RowsOf
  <1>3. PairsOf(a) = PairsOf(s)
    BY <1>1, <1>2 DEF PairsOf
  <1>4. WinsOf(a) = WinsOf(s) /\ LossesOf(a) = LossesOf(s)
    BY <1>1, <1>2, <1>3 DEF WinsOf, LossesOf, PairsOf
  <1>5. ASSUME NEW rs, SameRows(rs, s) PROVE SameRows(rs, a)
    <2> SUFFICES ASSUME NEW i \in RowsOf(s)
                 PROVE  \E h \in 1 .. i : /\ StandsUnder(a, i, h)
                                          /\ rs[PlaceOf(a, i)] = EntryFor(a[i], a[h])
      BY <1>2, <1>5 DEF SameRows
    <2>1. PICK h \in 1 .. i : StandsUnder(s, i, h) /\ rs[PlaceOf(s, i)] = EntryFor(s[i], s[h])
      BY <1>5 DEF SameRows
    <2>2. i \in 1 .. n /\ h \in 1 .. n /\ \A k \in h + 1 .. i : k \in 1 .. n
      BY <1>1, <1>2
    <2>3. StandsUnder(a, i, h)
      BY <1>1, <2>1, <2>2 DEF StandsUnder
    <2>4. PlaceOf(a, i) = PlaceOf(s, i)
      BY <1>2 DEF PlaceOf
    <2>5. QED
      BY <1>1, <2>1, <2>2, <2>3, <2>4
  <1>6. QED
    BY <1>3, <1>4, <1>5 DEF Tallied, a

LEMMA RowAppended ==
  ASSUME NEW s \in Seq(TableLine), NEW l \in TableLine, l.kind = "row",
         NEW rs \in Seq(Result), NEW e \in Result, SameRows(rs, s),
         NEW h \in DOMAIN s, StandsUnder(s, Len(s), h), e = EntryFor(l, s[h])
  PROVE  /\ SameRows(Append(rs, e), Append(s, l))
         /\ RowsOf(Append(s, l)) = RowsOf(s) \cup {Len(s) + 1}
         /\ h \in DOMAIN Append(s, l) /\ Append(s, l)[h] = s[h]
         /\ StandsUnder(Append(s, l), Len(s) + 1, h)
  <1> DEFINE n == Len(s)
             a == Append(s, l)
             t == Append(rs, e)
  <1>1. /\ n \in Nat /\ DOMAIN s = 1 .. n /\ DOMAIN a = 1 .. n + 1 /\ a[n + 1] = l
        /\ \A i \in 1 .. n : a[i] = s[i]
    BY LineAppended
  <1>2. /\ Len(rs) \in Nat /\ Len(t) = Len(rs) + 1 /\ t[Len(rs) + 1] = e
        /\ \A i \in 1 .. Len(rs) : t[i] = rs[i]
    OBVIOUS
  <1>3. /\ RowsOf(s) \subseteq 1 .. n /\ Len(rs) = Cardinality(RowsOf(s)) /\ IsFiniteSet(RowsOf(s))
        /\ StandsUnder(s, n, h) /\ h \in 1 .. n
    BY <1>1, RowsFinite DEF SameRows
  <1> HIDE DEF n, a, t
  <1>4. RowsOf(a) = RowsOf(s) \cup {n + 1}
    BY <1>1 DEF RowsOf
  <1>5. Cardinality(RowsOf(a)) = Len(rs) + 1
    <2>1. n + 1 \notin RowsOf(s)
      BY <1>1, <1>3
    <2>2. QED
      BY <1>3, <1>4, <2>1, FS_AddElement
  <1>6. StandsUnder(a, n + 1, h) /\ a[h] = s[h]
    <2>1. \A k \in h + 1 .. n + 1 :
             \/ k = n + 1
             \/ k \in h + 1 .. n /\ k \in 1 .. n
      BY <1>1, <1>3
    <2>2. QED
      BY <1>1, <1>3, <2>1 DEF StandsUnder
  <1>7. ASSUME NEW i \in RowsOf(a)
        PROVE  \E g \in 1 .. i : StandsUnder(a, i, g) /\ t[PlaceOf(a, i)] = EntryFor(a[i], a[g])
    <2>1. CASE i = n + 1
      <3>1. {j \in RowsOf(a) : j <= i} = RowsOf(a)
        BY <1>1, <1>3, <1>4, <2>1
      <3>2. PlaceOf(a, i) = Len(rs) + 1
        BY <1>5, <3>1 DEF PlaceOf
      <3>3. h \in 1 .. i
        BY <1>1, <1>3, <2>1
      <3>4. QED
        BY <1>1, <1>2, <1>6, <2>1, <3>2, <3>3
    <2>2. CASE i \in RowsOf(s)
      <3>1. PICK g \in 1 .. i : StandsUnder(s, i, g) /\ rs[PlaceOf(s, i)] = EntryFor(s[i], s[g])
        BY <2>2 DEF SameRows
      <3>2. i \in 1 .. n /\ g \in 1 .. n /\ \A k \in g + 1 .. i : k \in 1 .. n
        BY <1>1, <1>3, <2>2
      <3>3. StandsUnder(a, i, g)
        BY <1>1, <3>1, <3>2 DEF StandsUnder
      <3>4. {j \in RowsOf(a) : j <= i} = {j \in RowsOf(s) : j <= i}
        BY <1>1, <1>4, <3>2
      <3>5. PlaceOf(a, i) = PlaceOf(s, i) /\ PlaceOf(s, i) \in 1 .. Len(rs)
        BY <1>3, <2>2, <3>4, PlacesAreResults DEF PlaceOf
      <3>6. QED
        BY <1>1, <1>2, <3>1, <3>2, <3>3, <3>5
    <2>3. QED
      BY <1>4, <2>1, <2>2
  <1>8. SameRows(t, a)
    BY <1>2, <1>5, <1>7 DEF SameRows
  <1>9. QED
    BY <1>1, <1>3, <1>4, <1>6, <1>8 DEF a, t, n

LEMMA TallyOfRow ==
  ASSUME NEW s \in Seq(TableLine), NEW l \in TableLine, l.kind = "row",
         NEW tally \in TallySet, Tallied(s, tally)
  PROVE  /\ l.solo => Tallied(Append(s, l), tally)
         /\ ~l.solo /\ l.ns[1] \in Nat /\ l.ns[2] \in Nat =>
               Tallied(Append(s, l), [tally EXCEPT ![Verdict(l.ns[1], l.ns[2])] = @ + 1])
  <1> DEFINE n == Len(s)
             a == Append(s, l)
  <1>1. /\ n \in Nat /\ DOMAIN s = 1 .. n /\ DOMAIN a = 1 .. n + 1 /\ a[n + 1] = l
        /\ \A i \in 1 .. n : a[i] = s[i]
    BY LineAppended
  <1> HIDE DEF n, a
  <1>2. /\ tally.win \in Nat /\ tally.loss \in Nat /\ tally.tie \in Nat
        /\ tally.win = Cardinality(WinsOf(s)) /\ tally.loss = Cardinality(LossesOf(s))
        /\ tally.win + tally.loss + tally.tie = Cardinality(PairsOf(s))
    BY DEF Tallied, Total, TallySet
  <1>3. /\ RowsOf(s) \subseteq 1 .. n /\ n + 1 \notin RowsOf(s)
        /\ RowsOf(a) = RowsOf(s) \cup {n + 1}
        /\ IsFiniteSet(PairsOf(s)) /\ IsFiniteSet(WinsOf(s)) /\ IsFiniteSet(LossesOf(s))
    <2>1. RowsOf(s) \subseteq 1 .. n /\ n + 1 \notin RowsOf(s)
      BY <1>1 DEF RowsOf
    <2>2. RowsOf(a) = RowsOf(s) \cup {n + 1}
      BY <1>1 DEF RowsOf
    <2>3. QED
      BY <2>1, <2>2, RowsFinite
  <1>4. ASSUME l.solo
        PROVE  Tallied(a, tally)
    <2>1. PairsOf(a) = PairsOf(s)
      BY <1>1, <1>3, <1>4 DEF PairsOf
    <2>2. PairsOf(s) \subseteq 1 .. n
      BY <1>3 DEF PairsOf
    <2>3. WinsOf(a) = WinsOf(s) /\ LossesOf(a) = LossesOf(s)
      BY <1>1, <2>1, <2>2 DEF WinsOf, LossesOf
    <2>4. QED
      BY <2>1, <2>3 DEF Tallied
  <1>5. ASSUME ~l.solo, l.ns[1] \in Nat, l.ns[2] \in Nat
        PROVE  Tallied(a, [tally EXCEPT ![Verdict(l.ns[1], l.ns[2])] = @ + 1])
    <2> DEFINE v == Verdict(l.ns[1], l.ns[2])
               t == [tally EXCEPT ![v] = @ + 1]
               new == {n + 1}
    <2>1. PairsOf(a) = PairsOf(s) \cup new
      BY <1>1, <1>3, <1>5 DEF PairsOf
    <2>2. PairsOf(s) \subseteq 1 .. n
      BY <1>3 DEF PairsOf
    <2>3. /\ WinsOf(a) = WinsOf(s) \cup IF l.ns[1] < l.ns[2] THEN new ELSE {}
          /\ LossesOf(a) = LossesOf(s) \cup IF 0 < l.ns[2] /\ l.ns[2] < l.ns[1] THEN new ELSE {}
      BY <1>1, <2>1, <2>2 DEF WinsOf, LossesOf
    <2>4. n + 1 \notin PairsOf(s) /\ n + 1 \notin WinsOf(s) /\ n + 1 \notin LossesOf(s)
      BY <1>3 DEF PairsOf, WinsOf, LossesOf
    <2>5. /\ Cardinality(PairsOf(s) \cup new) = Cardinality(PairsOf(s)) + 1
          /\ Cardinality(WinsOf(s) \cup new) = Cardinality(WinsOf(s)) + 1
          /\ Cardinality(LossesOf(s) \cup new) = Cardinality(LossesOf(s)) + 1
      BY <1>3, <2>4, FS_AddElement
    <2>6. /\ v = "win" <=> l.ns[1] < l.ns[2]
          /\ v = "loss" <=> 0 < l.ns[2] /\ l.ns[2] < l.ns[1]
          /\ v \in {"win", "loss", "tie"}
      BY <1>5 DEF Verdict
    <2> HIDE DEF v, new
    <2>7. /\ t.win = IF v = "win" THEN tally.win + 1 ELSE tally.win
          /\ t.loss = IF v = "loss" THEN tally.loss + 1 ELSE tally.loss
          /\ t.tie = IF v = "tie" THEN tally.tie + 1 ELSE tally.tie
      BY <2>6 DEF TallySet
    <2> HIDE DEF t
    <2>8. t.win = Cardinality(WinsOf(a))
      BY <1>2, <2>3, <2>5, <2>6, <2>7
    <2>9. t.loss = Cardinality(LossesOf(a))
      BY <1>2, <2>3, <2>5, <2>6, <2>7
    <2>10. t.win + t.loss + t.tie = Cardinality(PairsOf(a))
      BY <1>2, <2>1, <2>5, <2>6, <2>7
    <2>11. Tallied(a, t)
      BY <2>8, <2>9, <2>10 DEF Tallied, Total
    <2>12. QED
      BY <2>11 DEF t, v
  <1>6. QED
    BY <1>4, <1>5 DEF a

-----------------------------------------------------------------------------
(* The tables.                                                             *)

(* A table of the layout solo is open and can take a row.                  *)
Ready(b, solo) ==
    /\ b \in BenchState /\ b.tableOpen /\ b.tableIsSolo = solo
    /\ Proper(b.screen) /\ b.screen # << >> /\ LastOf(b.screen).solo = solo
    /\ \/ LastOf(b.screen).kind = "header" /\ b.lastRowGroup = ""
       \/ LastOf(b.screen).kind = "row" /\ b.lastRowGroup = LastOf(b.screen).op
    /\ HeadedBy(b.markdown, b.suiteName)

(* The tables of c tell of the rows what those of b do.                    *)
Carries(b, c) ==
    /\ c.results = b.results /\ c.tally = b.tally /\ c.suiteName = b.suiteName
    /\ \A results : SameRows(results, b.markdown) => SameRows(results, c.markdown)
    /\ \A tally : Tallied(b.markdown, tally) => Tallied(c.markdown, tally)

LEMMA RowsHaveNames ==
  ASSUME NEW l \in TableLine, l.kind = "row"
  PROVE  l.op \in Operations /\ l.op # "" /\ l.solo \in BOOLEAN
  BY BenchAssumption DEF TableLine

LEMMA LastLine ==
  ASSUME NEW s \in Seq(TableLine), s # << >>
  PROVE  LastOf(s) \in TableLine /\ Len(s) \in Nat \ {0} /\ LastOf(s) = s[Len(s)]
  BY DEF LastOf

LEMMA OpenTableReady ==
  ASSUME NEW b \in BenchState, NEW solo \in BOOLEAN, ScreenInv(b), ~b.tableOpen
  PROVE  Ready(OpenTable(b, solo), solo) /\ Carries(b, OpenTable(b, solo))
  <1> DEFINE l == Header(b, solo)
             w == Write(b, l)
             o == OpenTable(b, solo)
  <1>1. l \in TableLine /\ l.kind = "header" /\ l.solo = solo /\ l.suite = b.suiteName
    BY TableLines DEF Header
  <1>2. b.screen \in Seq(TableLine) /\ b.markdown \in Seq(TableLine)
    BY DEF BenchState
  <1> HIDE DEF l
  <1>3. /\ w \in BenchState /\ w.screen = Append(b.screen, l) /\ w.markdown = Append(b.markdown, l)
        /\ w.results = b.results /\ w.tally = b.tally /\ w.suiteName = b.suiteName
    BY <1>1, WriteFields
  <1>4. o = [w EXCEPT !.tableOpen = TRUE, !.tableIsSolo = solo, !.lastRowGroup = ""]
    BY DEF OpenTable, l
  <1> HIDE DEF w, o
  <1>5. /\ o \in BenchState /\ o.screen = w.screen /\ o.markdown = w.markdown /\ o.results = w.results
        /\ o.tally = w.tally /\ o.suiteName = w.suiteName
        /\ o.tableOpen /\ o.tableIsSolo = solo /\ o.lastRowGroup = ""
    BY <1>3, <1>4 DEF BenchState
  <1>6. /\ LastOf(o.screen) = l /\ o.screen # << >>
    <2>1. o.screen = Append(b.screen, l)
      BY <1>3, <1>5
    <2>2. QED
      BY <1>1, <1>2, <2>1, LineAppended
  <1>7. Proper(o.screen)
    <2>1. CASE b.screen = << >>
      BY <1>1, <1>2, <1>3, <1>5, <2>1, ProperMore DEF ScreenInv
    <2>2. CASE b.screen # << >>
      <3>1. b.screen[Len(b.screen)].kind = "footer" /\ Len(b.screen) \in Nat \ {0}
        BY <1>2, <2>2, LastLine DEF ScreenInv
      <3>2. Follows(Append(b.screen, l), Len(b.screen))
        BY <1>1, <1>2, <3>1, LineAppended DEF Follows
      <3>3. QED
        BY <1>1, <1>2, <1>3, <1>5, <2>2, <3>2, ProperMore DEF ScreenInv
    <2>3. QED
      BY <2>1, <2>2
  <1>8. HeadedBy(o.markdown, o.suiteName)
    <2> DEFINE h == Len(b.markdown) + 1
    <2>1. /\ h \in Nat /\ h = Len(o.markdown) /\ h \in DOMAIN o.markdown /\ o.markdown[h] = l
      <3>1. o.markdown = Append(b.markdown, l)
        BY <1>3, <1>5
      <3>2. QED
        BY <1>1, <1>2, <3>1
    <2> HIDE DEF h
    <2>2. StandsUnder(o.markdown, h, h)
      BY <1>1, <2>1 DEF StandsUnder
    <2>3. QED
      BY <1>1, <1>3, <1>5, <2>1, <2>2 DEF HeadedBy
  <1>9. Carries(b, o)
    <2>1. l.kind # "row"
      BY <1>1
    <2>2. /\ \A rs : SameRows(rs, b.markdown) => SameRows(rs, o.markdown)
          /\ \A tally : Tallied(b.markdown, tally) => Tallied(o.markdown, tally)
      BY <1>1, <1>2, <1>3, <1>5, <2>1, OtherLineAppended
    <2>3. QED
      BY <1>3, <1>5, <2>2 DEF Carries
  <1>10. QED
    BY <1>1, <1>5, <1>6, <1>7, <1>8, <1>9 DEF Ready, o

LEMMA CloseTableKeeps ==
  ASSUME NEW b \in BenchState, ScreenInv(b)
  PROVE  /\ CloseTable(b) \in BenchState /\ ScreenInv(CloseTable(b)) /\ ~CloseTable(b).tableOpen
         /\ CloseTable(b).markdown = b.markdown /\ CloseTable(b).results = b.results
         /\ CloseTable(b).tally = b.tally /\ CloseTable(b).suiteName = b.suiteName
         /\ CloseTable(b).screen = << >> => b.screen = << >>
  <1>1. CASE ~b.tableOpen
    BY <1>1 DEF CloseTable
  <1>2. CASE b.tableOpen
    <2> DEFINE l == Border(b, "footer")
               d == Draw(b, l)
               c == CloseTable(b)
    <2>1. l \in TableLine /\ l.kind = "footer" /\ l.solo = b.tableIsSolo
      BY TableLines DEF Border
    <2> HIDE DEF l
    <2>2. /\ d \in BenchState /\ d.screen = Append(b.screen, l) /\ d.markdown = b.markdown
          /\ d.results = b.results /\ d.tally = b.tally /\ d.suiteName = b.suiteName
      BY <2>1, DrawFields
    <2>3. c = [d EXCEPT !.tableOpen = FALSE]
      BY <1>2 DEF CloseTable, l
    <2> HIDE DEF d, c
    <2>4. /\ c \in BenchState /\ c.screen = d.screen /\ c.markdown = d.markdown /\ c.results = d.results
          /\ c.tally = d.tally /\ c.suiteName = d.suiteName /\ ~c.tableOpen
      BY <2>2, <2>3 DEF BenchState
    <2>5. b.screen \in Seq(TableLine) /\ b.screen # << >>
      BY <1>2 DEF BenchState, ScreenInv
    <2>6. /\ b.screen[Len(b.screen)].kind = "row" /\ b.screen[Len(b.screen)].solo = b.tableIsSolo
          /\ Len(b.screen) \in Nat \ {0}
      BY <1>2, <2>5, LastLine DEF ScreenInv
    <2>7. Follows(Append(b.screen, l), Len(b.screen))
      BY <2>1, <2>5, <2>6, LineAppended DEF Follows
    <2>8. Proper(c.screen) /\ LastOf(c.screen) = l /\ c.screen # << >>
      BY <2>1, <2>2, <2>4, <2>5, <2>7, ProperMore, LineAppended DEF ScreenInv
    <2>9. ScreenInv(c)
      BY <2>1, <2>4, <2>8 DEF ScreenInv
    <2>10. QED
      BY <2>2, <2>4, <2>8, <2>9 DEF c
  <1>3. QED
    BY <1>1, <1>2 DEF BenchState

LEMMA EnsureTableReady ==
  ASSUME NEW b \in BenchState, NEW solo \in BOOLEAN, ScreenInv(b),
         b.tableOpen => HeadedBy(b.markdown, b.suiteName)
  PROVE  Ready(EnsureTable(b, solo), solo) /\ Carries(b, EnsureTable(b, solo))
  <1>1. CASE b.tableOpen /\ b.tableIsSolo = solo
    <2>1. EnsureTable(b, solo) = b
      BY <1>1 DEF EnsureTable
    <2>2. Ready(b, solo)
      BY <1>1 DEF Ready, ScreenInv
    <2>3. Carries(b, b)
      BY DEF Carries
    <2>4. QED
      BY <2>1, <2>2, <2>3
  <1>2. CASE b.tableOpen /\ b.tableIsSolo # solo
    <2> DEFINE c == CloseTable(b)
    <2>1. /\ c \in BenchState /\ ScreenInv(c) /\ ~c.tableOpen /\ c.markdown = b.markdown
          /\ c.results = b.results /\ c.tally = b.tally /\ c.suiteName = b.suiteName
      BY CloseTableKeeps
    <2>2. EnsureTable(b, solo) = OpenTable(c, solo)
      BY <1>2, <2>1 DEF EnsureTable
    <2> HIDE DEF c
    <2>3. Ready(OpenTable(c, solo), solo) /\ Carries(c, OpenTable(c, solo))
      BY <2>1, OpenTableReady
    <2>4. QED
      BY <2>1, <2>2, <2>3 DEF Carries
  <1>3. CASE ~b.tableOpen
    <2>1. EnsureTable(b, solo) = OpenTable(b, solo)
      BY <1>3 DEF EnsureTable
    <2>2. QED
      BY <1>3, <2>1, OpenTableReady
  <1>4. QED
    BY <1>1, <1>2, <1>3

(* The separator stands between two rows of different names.               *)
LEMMA Separated ==
  ASSUME NEW b, NEW solo \in BOOLEAN, Ready(b, solo), NEW op \in Operations
  PROVE  /\ Separate(b, op) \in BenchState /\ Separate(b, op).tableOpen
         /\ Separate(b, op).tableIsSolo = solo /\ Separate(b, op).lastRowGroup = op
         /\ Separate(b, op).markdown = b.markdown /\ Separate(b, op).results = b.results
         /\ Separate(b, op).tally = b.tally /\ Separate(b, op).suiteName = b.suiteName
         /\ Proper(Separate(b, op).screen) /\ Separate(b, op).screen # << >>
         /\ \A l \in TableLine :
               l.kind = "row" /\ l.solo = solo /\ l.op = op =>
                  Follows(Append(Separate(b, op).screen, l), Len(Separate(b, op).screen))
  <1> DEFINE s == Separate(b, op)
             end == LastOf(b.screen)
             n == Len(b.screen)
  <1>1. /\ b \in BenchState /\ b.screen \in Seq(TableLine) /\ b.screen # << >> /\ Proper(b.screen)
        /\ n \in Nat \ {0} /\ end \in TableLine /\ end = b.screen[n] /\ end.solo = solo
        /\ b.tableOpen /\ b.tableIsSolo = solo
    BY LastLine DEF Ready, BenchState
  <1>2. CASE b.lastRowGroup \in {"", op}
    <2>1. s = [b EXCEPT !.lastRowGroup = op]
      BY <1>2 DEF Separate
    <2> HIDE DEF s
    <2>2. /\ s \in BenchState /\ s.screen = b.screen /\ s.lastRowGroup = op
          /\ s.tableOpen /\ s.tableIsSolo = solo /\ s.markdown = b.markdown
          /\ s.results = b.results /\ s.tally = b.tally /\ s.suiteName = b.suiteName
      BY <1>1, <2>1 DEF BenchState
    <2>3. \/ end.kind = "header"
          \/ end.kind = "row" /\ end.op = op
      BY <1>1, <1>2, RowsHaveNames DEF Ready
    <2>4. ASSUME NEW l \in TableLine, l.kind = "row", l.solo = solo, l.op = op
          PROVE  Follows(Append(s.screen, l), Len(s.screen))
      <3>1. Append(b.screen, l)[n] = end /\ Append(b.screen, l)[n + 1] = l
        BY <1>1, LineAppended
      <3>2. QED
        BY <1>1, <2>2, <2>3, <2>4, <3>1 DEF Follows
    <2>5. QED
      BY <1>1, <2>2, <2>4 DEF s
  <1>3. CASE b.lastRowGroup \notin {"", op}
    <2> DEFINE l0 == Border(b, "separator")
               d == Draw(b, l0)
    <2>1. l0 \in TableLine /\ l0.kind = "separator" /\ l0.solo = solo
      BY <1>1, TableLines DEF Border
    <2> HIDE DEF l0
    <2>2. /\ d \in BenchState /\ d.screen = Append(b.screen, l0) /\ d.markdown = b.markdown
          /\ d.results = b.results /\ d.tally = b.tally /\ d.suiteName = b.suiteName
          /\ d.tableOpen /\ d.tableIsSolo = solo
      BY <1>1, <2>1, DrawFields
    <2>3. s = [d EXCEPT !.lastRowGroup = op]
      BY <1>3 DEF Separate, l0
    <2> HIDE DEF s, d
    <2>4. /\ s \in BenchState /\ s.screen = Append(b.screen, l0) /\ s.lastRowGroup = op
          /\ s.tableOpen /\ s.tableIsSolo = solo /\ s.markdown = b.markdown
          /\ s.results = b.results /\ s.tally = b.tally /\ s.suiteName = b.suiteName
      BY <2>2, <2>3 DEF BenchState
    <2>5. end.kind = "row" /\ end.op # op
      BY <1>3 DEF Ready
    <2>6. /\ s.screen \in Seq(TableLine) /\ Len(s.screen) = n + 1 /\ s.screen # << >>
          /\ s.screen[n] = end /\ s.screen[n + 1] = l0
      BY <1>1, <2>1, <2>4, LineAppended
    <2>7. Proper(s.screen)
      <3>1. Follows(Append(b.screen, l0), n)
        BY <1>1, <2>1, <2>4, <2>5, <2>6 DEF Follows
      <3>2. QED
        BY <1>1, <2>1, <2>4, <3>1, ProperMore
    <2>8. ASSUME NEW l \in TableLine, l.kind = "row", l.solo = solo, l.op = op
          PROVE  Follows(Append(s.screen, l), Len(s.screen))
      <3> DEFINE a == Append(s.screen, l)
      <3>1. a[n] = end /\ a[n + 1] = l0 /\ a[n + 2] = l
        BY <1>1, <2>6, LineAppended
      <3> HIDE DEF a
      <3>2. Follows(a, n + 1)
        <4>1. (n + 1) - 1 = n /\ (n + 1) + 1 = n + 2
          BY <1>1
        <4>2. QED
          BY <2>1, <2>5, <2>8, <3>1, <4>1 DEF Follows
      <3>3. QED
        BY <2>6, <3>2 DEF a
    <2>9. QED
      BY <2>4, <2>6, <2>7, <2>8 DEF s
  <1>4. QED
    BY <1>2, <1>3

(* The row on the screen.                                                  *)
LEMMA RowOnScreen ==
  ASSUME NEW s \in BenchState, s.tableOpen, Proper(s.screen), s.screen # << >>,
         NEW l \in TableLine, l.kind = "row", l.solo = s.tableIsSolo, l.op = s.lastRowGroup,
         Follows(Append(s.screen, l), Len(s.screen))
  PROVE  /\ Write(s, l) \in BenchState /\ ScreenInv(Write(s, l)) /\ Write(s, l).tableOpen
         /\ Write(s, l).screen # << >>
  <1> DEFINE w == Write(s, l)
  <1>1. /\ w \in BenchState /\ w.screen = Append(s.screen, l) /\ w.tableOpen = s.tableOpen
        /\ w.tableIsSolo = s.tableIsSolo /\ w.lastRowGroup = s.lastRowGroup
    BY WriteFields
  <1> HIDE DEF w
  <1>2. s.screen \in Seq(TableLine)
    BY DEF BenchState
  <1>3. Proper(Append(s.screen, l))
    BY <1>2, ProperMore
  <1>4. LastOf(Append(s.screen, l)) = l /\ Append(s.screen, l) # << >>
    BY <1>2, LineAppended
  <1>5. ScreenInv(w)
    BY <1>1, <1>3, <1>4 DEF ScreenInv
  <1>6. QED
    BY <1>1, <1>4, <1>5 DEF w

(* The row in the markdown, and the entry recorded for it.                 *)
LEMMA RowInMarkdown ==
  ASSUME NEW s \in BenchState, NEW l \in TableLine, l.kind = "row",
         NEW rs \in Seq(Result), NEW e \in Result, s.results = Append(rs, e),
         SameRows(rs, s.markdown), HeadedBy(s.markdown, s.suiteName),
         \A head : head.suite = s.suiteName => e = EntryFor(l, head)
  PROVE  /\ SameRows(Write(s, l).results, Write(s, l).markdown)
         /\ HeadedBy(Write(s, l).markdown, Write(s, l).suiteName)
  <1> DEFINE m == s.markdown
             a == Append(m, l)
  <1>1. /\ Write(s, l).markdown = a /\ Write(s, l).results = Append(rs, e)
        /\ Write(s, l).suiteName = s.suiteName
    BY WriteFields
  <1>2. m \in Seq(TableLine)
    BY DEF BenchState
  <1>3. PICK h \in DOMAIN m : StandsUnder(m, Len(m), h) /\ m[h].suite = s.suiteName
    BY DEF HeadedBy
  <1>4. e = EntryFor(l, m[h])
    BY <1>3
  <1> HIDE DEF m
  <1>5. SameRows(rs, m)
    BY DEF m
  <1>6. /\ SameRows(Append(rs, e), a) /\ h \in DOMAIN a /\ a[h] = m[h]
        /\ StandsUnder(a, Len(m) + 1, h)
    BY <1>2, <1>3, <1>4, <1>5, RowAppended
  <1>7. Len(a) = Len(m) + 1
    BY <1>2, LineAppended
  <1> HIDE DEF a
  <1>8. HeadedBy(a, s.suiteName)
    BY <1>3, <1>6, <1>7 DEF HeadedBy
  <1>9. QED
    BY <1>1, <1>6, <1>8

RowLine(solo, op, tier, ns) ==
    [kind |-> "row", solo |-> solo, op |-> op, tier |-> tier, ns |-> ns]

RowOf(b, solo, op, tier, ns) ==
    Write(Separate(EnsureTable(Record(b, op, tier, ns[1]), solo), op), RowLine(solo, op, tier, ns))

LEMMA Recorded ==
  ASSUME NEW b \in BenchState, NEW op \in Operations, NEW tier \in Nat, NEW x \in Nat,
         ScreenInv(b), ReportInv(b)
  PROVE  LET c == Record(b, op, tier, x)
             e == [suite |-> b.suiteName, op |-> op, tier |-> tier, ns |-> x]
         IN  /\ c \in BenchState /\ ScreenInv(c)
             /\ (c.tableOpen => HeadedBy(c.markdown, c.suiteName))
             /\ e \in Result /\ b.results \in Seq(Result) /\ c.results = Append(b.results, e)
             /\ c.markdown = b.markdown /\ c.tally = b.tally /\ c.suiteName = b.suiteName
  <1> DEFINE e == [suite |-> b.suiteName, op |-> op, tier |-> tier, ns |-> x]
             r == Append(b.results, e)
             c == Record(b, op, tier, x)
  <1>1. e \in Result /\ b.results \in Seq(Result)
    BY DEF Result, BenchState
  <1> HIDE DEF e
  <1>2. r \in Seq(Result)
    BY <1>1
  <1>3. c = [b EXCEPT !.results = r]
    BY DEF Record, e
  <1> HIDE DEF r, c
  <1>4. /\ c \in BenchState /\ c.results = r /\ c.screen = b.screen
        /\ c.markdown = b.markdown /\ c.tally = b.tally /\ c.suiteName = b.suiteName
        /\ c.tableOpen = b.tableOpen /\ c.tableIsSolo = b.tableIsSolo /\ c.lastRowGroup = b.lastRowGroup
    BY <1>2, <1>3 DEF BenchState
  <1>5. ScreenInv(c) /\ (c.tableOpen => HeadedBy(c.markdown, c.suiteName))
    BY <1>4 DEF ScreenInv, ReportInv
  <1>6. QED
    BY <1>1, <1>4, <1>5 DEF c, r, e

(* A recorded figure and its row, whatever the layout.                     *)
LEMMA RowWritten ==
  ASSUME NEW b \in BenchState, ScreenInv(b), ReportInv(b), NEW solo \in BOOLEAN,
         NEW op \in Operations, NEW tier \in Nat, NEW ns \in Seq(Nat), ns # << >>
  PROVE  LET w == RowOf(b, solo, op, tier, ns)
         IN  /\ w \in BenchState /\ ScreenInv(w) /\ w.tableOpen /\ w.tally = b.tally
             /\ w.screen # << >>
             /\ SameRows(w.results, w.markdown) /\ HeadedBy(w.markdown, w.suiteName)
             /\ \E m \in Seq(TableLine) :
                   Tallied(m, b.tally) /\ w.markdown = Append(m, RowLine(solo, op, tier, ns))
  <1> DEFINE l == RowLine(solo, op, tier, ns)
             e == [suite |-> b.suiteName, op |-> op, tier |-> tier, ns |-> ns[1]]
             c == Record(b, op, tier, ns[1])
             o == EnsureTable(c, solo)
             s == Separate(o, op)
             w == Write(s, l)
  <1>1. /\ l \in TableLine /\ l.kind = "row" /\ l.solo = solo /\ l.op = op /\ l.tier = tier /\ l.ns = ns
    BY DEF TableLine, RowLine
  <1>2. ns[1] \in Nat
    OBVIOUS
  <1>3. /\ c \in BenchState /\ ScreenInv(c) /\ (c.tableOpen => HeadedBy(c.markdown, c.suiteName))
        /\ e \in Result /\ b.results \in Seq(Result) /\ c.results = Append(b.results, e)
        /\ c.markdown = b.markdown /\ c.tally = b.tally /\ c.suiteName = b.suiteName
    BY <1>2, Recorded
  <1>4. RowOf(b, solo, op, tier, ns) = w
    BY DEF RowOf
  <1>5. \A head : head.suite = b.suiteName => e = EntryFor(l, head)
    BY <1>1 DEF EntryFor
  <1> HIDE DEF c, l, e
  <1>6. Ready(o, solo) /\ Carries(c, o)
    BY <1>3, EnsureTableReady
  <1> HIDE DEF o
  <1>7. /\ s \in BenchState /\ s.tableOpen /\ s.tableIsSolo = solo /\ s.lastRowGroup = op
        /\ s.markdown = o.markdown /\ s.results = o.results /\ s.tally = o.tally
        /\ s.suiteName = o.suiteName /\ Proper(s.screen) /\ s.screen # << >>
        /\ \A x \in TableLine : x.kind = "row" /\ x.solo = solo /\ x.op = op =>
               Follows(Append(s.screen, x), Len(s.screen))
    BY <1>6, Separated
  <1> HIDE DEF s
  <1>8. Follows(Append(s.screen, l), Len(s.screen))
    BY <1>1, <1>7
  <1>9. w \in BenchState /\ ScreenInv(w) /\ w.tableOpen /\ w.screen # << >>
    BY <1>1, <1>7, <1>8, RowOnScreen
  <1>10. /\ SameRows(b.results, b.markdown) /\ Tallied(b.markdown, b.tally)
    BY DEF ReportInv
  <1>11. /\ SameRows(b.results, s.markdown) /\ Tallied(s.markdown, b.tally)
         /\ s.results = Append(b.results, e) /\ s.tally = b.tally /\ s.suiteName = b.suiteName
         /\ HeadedBy(s.markdown, s.suiteName)
    BY <1>3, <1>6, <1>7, <1>10 DEF Carries, Ready
  <1>12. SameRows(w.results, w.markdown) /\ HeadedBy(w.markdown, w.suiteName)
    <2>1. \A head : head.suite = s.suiteName => e = EntryFor(l, head)
      BY <1>5, <1>11
    <2>2. l \in TableLine /\ l.kind = "row" /\ e \in Result /\ b.results \in Seq(Result)
          /\ s \in BenchState
      BY <1>1, <1>3, <1>7
    <2>3. QED
      BY <1>11, <2>1, <2>2, RowInMarkdown
  <1>13. w.markdown = Append(s.markdown, l) /\ w.tally = s.tally
    BY <1>1, <1>7, WriteFields
  <1>14. s.markdown \in Seq(TableLine)
    BY <1>7 DEF BenchState
  <1> HIDE DEF w
  <1>15. QED
    BY <1>4, <1>9, <1>11, <1>12, <1>13, <1>14 DEF l

(* What holds of the tables while a suite is measured.                     *)
Measured(b) == b \in BenchState /\ ScreenInv(b) /\ ReportInv(b)

LEMMA SoloTierKeeps ==
  ASSUME NEW b, Measured(b), NEW op \in Operations, NEW tier \in Nat, NEW ns \in Nat
  PROVE  Measured(SoloTier(b, op, tier, ns))
  <1> DEFINE l == RowLine(TRUE, op, tier, <<ns>>)
             w == RowOf(b, TRUE, op, tier, <<ns>>)
  <1>1. <<ns>> \in Seq(Nat) /\ <<ns>> # << >> /\ <<ns>>[1] = ns
    OBVIOUS
  <1>2. SoloTier(b, op, tier, ns) = w
    BY <1>1 DEF SoloTier, PrintSoloRow, RowOf, RowLine
  <1>3. b \in BenchState /\ ScreenInv(b) /\ ReportInv(b) /\ b.tally \in TallySet
    BY DEF Measured, BenchState
  <1>4. /\ w \in BenchState /\ ScreenInv(w) /\ w.tableOpen /\ w.tally = b.tally /\ w.screen # << >>
        /\ SameRows(w.results, w.markdown) /\ HeadedBy(w.markdown, w.suiteName)
        /\ \E m \in Seq(TableLine) : Tallied(m, b.tally) /\ w.markdown = Append(m, l)
    <2> DEFINE q == <<ns>>
    <2>1. q \in Seq(Nat) /\ q # << >>
      BY <1>1
    <2> HIDE DEF q
    <2>2. LET z == RowOf(b, TRUE, op, tier, q)
          IN  /\ z \in BenchState /\ ScreenInv(z) /\ z.tableOpen /\ z.tally = b.tally
              /\ z.screen # << >>
              /\ SameRows(z.results, z.markdown) /\ HeadedBy(z.markdown, z.suiteName)
              /\ \E m \in Seq(TableLine) :
                    Tallied(m, b.tally) /\ z.markdown = Append(m, RowLine(TRUE, op, tier, q))
      BY <1>3, <2>1, RowWritten
    <2>3. QED
      BY <2>2 DEF q
  <1>5. l \in TableLine /\ l.kind = "row" /\ l.solo
    BY <1>1 DEF TableLine, RowLine
  <1> HIDE DEF w, l
  <1>6. PICK m \in Seq(TableLine) : Tallied(m, b.tally) /\ w.markdown = Append(m, l)
    BY <1>4
  <1>7. Tallied(w.markdown, w.tally)
    BY <1>3, <1>4, <1>5, <1>6, TallyOfRow
  <1>8. QED
    BY <1>2, <1>4, <1>7 DEF Measured, ReportInv

LEMMA PairTierKeeps ==
  ASSUME NEW b, Measured(b), NEW op \in Operations, NEW tier \in Nat, NEW ns \in Timings
  PROVE  Measured(PairTier(b, op, tier, ns))
  <1> DEFINE l == RowLine(FALSE, op, tier, ns)
             w == RowOf(b, FALSE, op, tier, ns)
             v == Verdict(ns[1], ns[2])
             t == [w.tally EXCEPT ![v] = @ + 1]
             p == PairTier(b, op, tier, ns)
  <1>1. /\ ns \in Seq(Nat) /\ ns # << >> /\ ns[1] \in Nat /\ ns[2] \in Nat
    <2>1. ns \in Nat \X Nat
      BY BenchAssumption
    <2>2. PICK x \in Nat, y \in Nat : ns = <<x, y>>
      BY <2>1
    <2>3. QED
      BY <2>2
  <1>2. l \in TableLine /\ l.kind = "row" /\ ~l.solo /\ l.ns = ns
    BY <1>1 DEF TableLine, RowLine
  <1>3. p = [w EXCEPT !.tally = t]
    BY DEF PairTier, PrintComparisonRow, RowOf, RowLine
  <1>4. b \in BenchState /\ ScreenInv(b) /\ ReportInv(b) /\ b.tally \in TallySet
    BY DEF Measured, BenchState
  <1>5. /\ w \in BenchState /\ ScreenInv(w) /\ w.tableOpen /\ w.tally = b.tally /\ w.screen # << >>
        /\ SameRows(w.results, w.markdown) /\ HeadedBy(w.markdown, w.suiteName)
        /\ \E m \in Seq(TableLine) : Tallied(m, b.tally) /\ w.markdown = Append(m, l)
    BY <1>1, <1>4, RowWritten
  <1> HIDE DEF w, l, p
  <1>6. PICK m \in Seq(TableLine) : Tallied(m, b.tally) /\ w.markdown = Append(m, l)
    BY <1>5
  <1>7. Tallied(w.markdown, t)
    BY <1>1, <1>2, <1>4, <1>5, <1>6, TallyOfRow
  <1>8. v \in {"win", "loss", "tie"}
    BY DEF Verdict
  <1>9. w.tally \in TallySet
    BY <1>4, <1>5
  <1> HIDE DEF v
  <1>10. t \in TallySet
    <2>1. CASE v = "win"
      BY <1>9, <2>1 DEF TallySet
    <2>2. CASE v = "loss"
      BY <1>9, <2>2 DEF TallySet
    <2>3. CASE v = "tie"
      BY <1>9, <2>3 DEF TallySet
    <2>4. QED
      BY <1>8, <2>1, <2>2, <2>3
  <1> HIDE DEF t
  <1>11. /\ p \in BenchState /\ p.tally = t /\ p.screen = w.screen /\ p.markdown = w.markdown
         /\ p.results = w.results /\ p.tableOpen = w.tableOpen /\ p.tableIsSolo = w.tableIsSolo
         /\ p.lastRowGroup = w.lastRowGroup /\ p.suiteName = w.suiteName
    BY <1>3, <1>5, <1>10 DEF BenchState
  <1>12. ScreenInv(p) /\ ReportInv(p)
    BY <1>5, <1>7, <1>11 DEF ScreenInv, ReportInv
  <1>13. QED
    BY <1>11, <1>12 DEF Measured, p

(* One call of a macro.                                                    *)
LEMMA BenchCallKeeps ==
  ASSUME NEW b, Measured(b), NEW op \in Operations, NEW ns \in Timings
  PROVE  Measured(BenchSolo(b, op, ns[1])) /\ Measured(BenchPair(b, op, ns))
  <1>1. /\ SoloTiers(op)[1] \in Nat /\ SoloTiers(op)[2] \in Nat /\ SoloTiers(op)[3] \in Nat
        /\ PairTiers(op)[1] \in Nat /\ PairTiers(op)[2] \in Nat /\ PairTiers(op)[3] \in Nat
    BY DEF SoloTiers, PairTiers, StandardTiers
  <1>2. ns[1] \in Nat
    BY BenchAssumption
  <1>3. Measured(BenchSolo(b, op, ns[1]))
    <2> DEFINE x == SoloTier(b, op, SoloTiers(op)[1], ns[1])
               y == SoloTier(x, op, SoloTiers(op)[2], ns[1])
               z == SoloTier(y, op, SoloTiers(op)[3], ns[1])
    <2>1. BenchSolo(b, op, ns[1]) = z
      BY DEF BenchSolo
    <2>2. Measured(x)
      BY <1>1, <1>2, SoloTierKeeps
    <2> HIDE DEF x
    <2>3. Measured(y)
      BY <1>1, <1>2, <2>2, SoloTierKeeps
    <2> HIDE DEF y
    <2>4. Measured(z)
      BY <1>1, <1>2, <2>3, SoloTierKeeps
    <2>5. QED
      BY <2>1, <2>4
  <1>4. Measured(BenchPair(b, op, ns))
    <2> DEFINE x == PairTier(b, op, PairTiers(op)[1], ns)
               y == PairTier(x, op, PairTiers(op)[2], ns)
               z == PairTier(y, op, PairTiers(op)[3], ns)
    <2>1. BenchPair(b, op, ns) = z
      BY DEF BenchPair
    <2>2. Measured(x)
      BY <1>1, PairTierKeeps
    <2> HIDE DEF x
    <2>3. Measured(y)
      BY <1>1, <2>2, PairTierKeeps
    <2> HIDE DEF y
    <2>4. Measured(z)
      BY <1>1, <2>3, PairTierKeeps
    <2>5. QED
      BY <2>1, <2>4
  <1>5. QED
    BY <1>3, <1>4

(* The tables are closed and nothing is exported yet.                      *)
LEMMA NothingWritten ==
  ASSUME bench' \in BenchState, ScreenInv(bench'), ~bench'.tableOpen,
         json' = Earlier, report' = Earlier
  PROVE  TablesWellFormed' /\ ReportsAgree'
  <1> DEFINE s == bench'.screen
  <1>1. s \in Seq(TableLine) /\ Len(s) \in Nat /\ (Len(s) > 0 <=> s # << >>)
    <2>1. s \in Seq(TableLine)
      BY DEF BenchState
    <2> HIDE DEF s
    <2>2. QED
      BY <2>1
  <1>2. Proper(s) /\ (s # << >> => s[Len(s)].kind = "footer")
    BY DEF ScreenInv, LastOf
  <1>3. TablesWellFormed'
    BY <1>1, <1>2 DEF TablesWellFormed, Proper
  <1>4. ReportsAgree'
    BY DEF ReportsAgree, Earlier
  <1>5. QED
    BY <1>3, <1>4

(* Each export is opened on its own: any of the two may stay as it was.    *)
LEMMA EachExportAlone ==
  ASSUME json' \in {Earlier, Written(bench'.results)},
         report' \in {Earlier, Written(bench'.markdown)},
         SameRows(bench'.results, bench'.markdown), SumsUp(bench'.markdown)
  PROVE  ReportsAgree'
  <1>1. json'.new => json'.lines = bench'.results
    BY DEF Earlier, Written
  <1>2. report'.new => report'.lines = bench'.markdown
    BY DEF Earlier, Written
  <1>3. QED
    BY <1>1, <1>2 DEF ReportsAgree

LEMMA BeforeTheExport ==
  ASSUME bench' \in BenchState, ScreenInv(bench'), ReportInv(bench'),
         bench'.tableOpen => program' = "benchmarks" /\ pc' = "body",
         json' = Earlier, report' = Earlier
  PROVE  BenchInv'
  <1>1. CASE pc' = "exit"
    <2>1. ~bench'.tableOpen
      BY <1>1
    <2>2. QED
      BY <1>1, <2>1, NothingWritten DEF BenchInv
  <1>2. CASE pc' # "exit"
    BY <1>2 DEF BenchInv
  <1>3. QED
    BY <1>1, <1>2

LEMMA EmptyTables ==
  /\ \A S : << >> \in Seq(S)
  /\ Proper(<< >>) /\ SameRows(<< >>, << >>) /\ Tallied(<< >>, Zero) /\ Total(Zero) = 0
  <1>1. \A S : << >> \in Seq(S)
    OBVIOUS
  <1>2. Len(<< >>) = 0 /\ DOMAIN << >> = {}
    OBVIOUS
  <1>3. RowsOf(<< >>) = {}
    BY <1>2 DEF RowsOf
  <1>4. PairsOf(<< >>) = {} /\ WinsOf(<< >>) = {} /\ LossesOf(<< >>) = {}
    BY <1>3 DEF PairsOf, WinsOf, LossesOf
  <1>5. Cardinality({}) = 0
    BY FS_EmptySet
  <1>6. Proper(<< >>)
    BY DEF Proper
  <1>7. SameRows(<< >>, << >>)
    BY <1>2, <1>3, <1>5 DEF SameRows
  <1>8. Zero.win = 0 /\ Zero.loss = 0 /\ Total(Zero) = 0
    BY DEF Zero, Total
  <1>9. Tallied(<< >>, Zero)
    BY <1>4, <1>5, <1>8 DEF Tallied
  <1>10. QED
    BY <1>1, <1>6, <1>7, <1>8, <1>9

LEMMA BenchStart == Init => BenchInv
  <1> SUFFICES ASSUME Init PROVE BenchInv
    OBVIOUS
  <1>1. /\ bench = [suiteName |-> "", lastRowGroup |-> "", tableOpen |-> FALSE, tableIsSolo |-> FALSE,
                    screen |-> << >>, markdown |-> << >>, results |-> << >>, tally |-> Zero]
        /\ json = Earlier /\ report = Earlier /\ pc # "exit"
    BY DEF Init, DriverInit, BenchInit
  <1>2. bench \in BenchState
    BY <1>1, EmptyTables DEF BenchState, SuiteNames, TallySet, Zero
  <1>3. /\ bench.screen = << >> /\ bench.markdown = << >> /\ bench.results = << >>
        /\ bench.tally = Zero /\ ~bench.tableOpen
    BY <1>1
  <1>4. ScreenInv(bench) /\ ReportInv(bench)
    BY <1>3, EmptyTables DEF ScreenInv, ReportInv
  <1>5. QED
    BY <1>1, <1>2, <1>3, <1>4 DEF BenchInv

LEMMA BenchAtRest ==
  ASSUME BenchInv, UNCHANGED benchVars, pc # "exit", ~bench.tableOpen
  PROVE  BenchInv'
  BY BeforeTheExport DEF BenchInv, benchVars

LEMMA BeginBenchKeeps ==
  ASSUME BenchInv, DriverTypeOK, BeginBench
  PROVE  BenchInv'
  <1>1. /\ bench \in BenchState /\ ScreenInv(bench) /\ ReportInv(bench) /\ ~bench.tableOpen
        /\ json' = Earlier /\ report' = Earlier /\ pc' = "body"
    BY DEF BenchInv, BeginBench, Goto
  <1>2. running.name \in Files
    BY DEF DriverTypeOK, BeginBench, InSuite, Suite
  <1>3. bench' = [bench EXCEPT !.suiteName = running.name, !.tableOpen = FALSE, !.lastRowGroup = ""]
    BY DEF BeginBench, BeginTables
  <1>4. /\ bench' \in BenchState /\ ~bench'.tableOpen /\ bench'.screen = bench.screen
        /\ bench'.markdown = bench.markdown /\ bench'.results = bench.results
        /\ bench'.tally = bench.tally
    BY <1>1, <1>2, <1>3 DEF BenchState, SuiteNames
  <1>5. ScreenInv(bench') /\ ReportInv(bench')
    BY <1>1, <1>4 DEF ScreenInv, ReportInv
  <1>6. QED
    BY <1>1, <1>4, <1>5, BeforeTheExport

LEMMA MeasureKeeps ==
  ASSUME BenchInv, Measure
  PROVE  BenchInv'
  <1>1. /\ Measured(bench) /\ json' = Earlier /\ report' = Earlier
        /\ program' = "benchmarks" /\ pc' = "body"
    BY DEF BenchInv, Measure, Measured, driverVars, choice
  <1>2. PICK op \in Operations, ns \in Timings :
           bench' = BenchSolo(bench, op, ns[1]) \/ bench' = BenchPair(bench, op, ns)
    BY DEF Measure
  <1>3. Measured(bench')
    BY <1>1, <1>2, BenchCallKeeps
  <1>4. QED
    BY <1>1, <1>3, BeforeTheExport DEF Measured

LEMMA EndBenchKeeps ==
  ASSUME BenchInv, EndBench
  PROVE  BenchInv'
  <1>1. /\ bench \in BenchState /\ ScreenInv(bench) /\ ReportInv(bench)
        /\ json' = Earlier /\ report' = Earlier /\ bench' = CloseTable(bench)
    BY DEF BenchInv, EndBench
  <1>2. /\ bench' \in BenchState /\ ScreenInv(bench') /\ ~bench'.tableOpen
        /\ bench'.markdown = bench.markdown /\ bench'.results = bench.results
        /\ bench'.tally = bench.tally /\ (bench'.screen = << >> => bench.screen = << >>)
    BY <1>1, CloseTableKeeps
  <1>3. ReportInv(bench')
    BY <1>1, <1>2 DEF ReportInv
  <1>4. QED
    BY <1>1, <1>2, <1>3, BeforeTheExport

LEMMA FinishBenchKeeps ==
  ASSUME BenchInv, FinishBench
  PROVE  BenchInv'
  <1> DEFINE l == Summary(bench)
             w == Write(bench, l)
  <1>1. /\ bench \in BenchState /\ ScreenInv(bench) /\ ReportInv(bench) /\ ~bench.tableOpen
        /\ bench' = PrintSummary(bench) /\ pc' = "exit"
        /\ json' \in {Earlier, Written(bench'.results)}
        /\ report' \in {Earlier, Written(bench'.markdown)}
    BY DEF BenchInv, FinishBench, Goto, ExportJson, ExportMarkdown
  <1>2. /\ bench.screen \in Seq(TableLine) /\ bench.markdown \in Seq(TableLine)
        /\ bench.results \in Seq(Result) /\ bench.tally \in TallySet
    BY <1>1 DEF BenchState
  <1>3. /\ SameRows(bench.results, bench.markdown) /\ Tallied(bench.markdown, bench.tally)
        /\ (bench.screen = << >> => Total(bench.tally) = 0)
        /\ Proper(bench.screen) /\ (bench.screen # << >> => LastOf(bench.screen).kind = "footer")
    BY <1>1 DEF ReportInv, ScreenInv
  <1>4. CASE Total(bench.tally) = 0
    <2>1. bench' = bench
      BY <1>1, <1>4 DEF PrintSummary
    <2>2. TablesWellFormed'
      BY <1>2, <1>3, <2>1 DEF TablesWellFormed, Proper, LastOf
    <2>3. PairsOf(bench.markdown) = {}
      <3>1. IsFiniteSet(PairsOf(bench.markdown)) /\ Cardinality(PairsOf(bench.markdown)) = 0
        BY <1>2, <1>3, <1>4, RowsFinite DEF Tallied
      <3>2. QED
        BY <3>1, FS_EmptySet
    <2>4. SumsUp(bench.markdown)
      BY <2>3 DEF SumsUp
    <2>5. ReportsAgree'
      BY <1>1, <1>3, <2>1, <2>4, EachExportAlone
    <2>6. QED
      BY <1>1, <2>1, <2>2, <2>5 DEF BenchInv
  <1>5. CASE Total(bench.tally) # 0
    <2>1. bench' = w
      BY <1>1, <1>5 DEF PrintSummary
    <2>2. l \in TableLine /\ l.kind = "summary" /\ l.tally = bench.tally
      BY <1>1, TableLines DEF Summary
    <2> HIDE DEF l
    <2>3. /\ w \in BenchState /\ w.screen = Append(bench.screen, l)
          /\ w.markdown = Append(bench.markdown, l) /\ w.results = bench.results
      BY <1>1, <2>2, WriteFields
    <2> HIDE DEF w
    <2> DEFINE s == Append(bench.screen, l)
               m == Append(bench.markdown, l)
    <2>4. bench.screen # << >> /\ bench.screen[Len(bench.screen)].kind = "footer"
      BY <1>3, <1>5 DEF LastOf
    <2>5. Follows(s, Len(bench.screen))
      <3>1. /\ Len(bench.screen) \in Nat \ {0} /\ s[Len(bench.screen)] = bench.screen[Len(bench.screen)]
            /\ s[Len(bench.screen) + 1] = l
        BY <1>2, <2>2, <2>4, LineAppended, LastLine
      <3> HIDE DEF s
      <3>2. QED
        BY <2>2, <2>4, <3>1 DEF Follows
    <2>6. Proper(s)
      BY <1>2, <1>3, <2>2, <2>4, <2>5, ProperMore
    <2>7. s # << >> /\ Len(s) \in Nat /\ s[Len(s)] = l
      BY <1>2, <2>2, LineAppended DEF LastOf
    <2>8. m[Len(m)] = l
      BY <1>2, <2>2, LineAppended DEF LastOf
    <2>9. SameRows(bench.results, m) /\ Tallied(m, bench.tally)
      BY <1>2, <1>3, <2>2, OtherLineAppended
    <2> HIDE DEF s, m
    <2>10. TablesWellFormed'
      BY <2>1, <2>2, <2>3, <2>6, <2>7 DEF TablesWellFormed, Proper, s
    <2>11. ReportsAgree'
      <3>1. bench'.markdown = m /\ bench'.results = bench.results
        BY <2>1, <2>3 DEF m
      <3>2. SumsUp(m)
        BY <2>2, <2>8, <2>9 DEF SumsUp, Tallied
      <3>3. QED
        BY <1>1, <2>9, <3>1, <3>2, EachExportAlone
    <2>12. QED
      BY <1>1, <2>1, <2>3, <2>10, <2>11 DEF BenchInv
  <1>6. QED
    BY <1>4, <1>5

LEMMA BenchInvAlways == Spec => []BenchInv
  <1>1. DriverTypeOK /\ BenchInv /\ [Next]_vars => BenchInv'
    <2> SUFFICES ASSUME DriverTypeOK, BenchInv, [Next]_vars PROVE BenchInv'
      OBVIOUS
    <2>1. pc # "exit" /\ bench.tableOpen => program = "benchmarks" /\ pc = "body"
      BY DEF BenchInv
    <2>2. CASE DriverNext /\ UNCHANGED benchVars
      <3>1. pc # "exit" /\ pc # "body"
        BY <2>2 DEF DriverNext, Register, RegistrationFails, Main, Visit, EndVisit, Replay,
                    RunExample, FinishExamples
      <3>2. QED
        BY <2>1, <2>2, <3>1, BenchAtRest
    <2>3. CASE TestNext /\ UNCHANGED benchVars
      <3>1. pc # "exit" /\ program = "tests"
        BY <2>3 DEF TestNext, BeginSuite, EnterTest, CheckPasses, CheckFails, TestReturns,
                    TestThrows, EndSuite, FinishTests, InsideTest
      <3>2. QED
        BY <2>1, <2>3, <3>1, BenchAtRest
    <2>4. CASE BenchNext
      BY <2>4, BeginBenchKeeps, MeasureKeeps, EndBenchKeeps, FinishBenchKeeps DEF BenchNext
    <2>5. CASE UNCHANGED vars
      <3>1. UNCHANGED <<bench, json, report, pc, program>>
        BY <2>5 DEF vars, driverVars, choice, benchVars
      <3>2. TablesWellFormed => TablesWellFormed'
        BY <3>1 DEF TablesWellFormed
      <3>3. ReportsAgree => ReportsAgree'
        BY <3>1 DEF ReportsAgree
      <3>4. QED
        BY <3>1, <3>2, <3>3 DEF BenchInv
    <2>6. QED
      BY <2>2, <2>3, <2>4, <2>5 DEF Next
  <1>2. DriverInv => DriverTypeOK
    BY DEF DriverInv
  <1>3. QED
    BY <1>1, <1>2, BenchStart, DriverInvAlways, PTL DEF Spec

(* However a suite mixes the two layouts, every table is closed by its own *)
(* border before the next is opened, no row stands in a table of the other *)
(* layout, a separator stands exactly between rows of different names, and *)
(* nothing is left open when the program ends.                             *)
THEOREM TablesAreWellFormed == Spec => []TablesWellFormed
  <1>1. BenchInv => TablesWellFormed
    <2> SUFFICES ASSUME BenchInv, pc # "exit" PROVE TablesWellFormed
      BY DEF BenchInv
    <2>1. /\ bench.screen \in Seq(TableLine) /\ ScreenInv(bench)
          /\ pc \in {"visit", "finish"} => ~bench.tableOpen
      BY DEF BenchInv, BenchState
    <2>2. QED
      BY <2>1 DEF ScreenInv, Proper, LastOf, TablesWellFormed
  <1>2. QED
    BY <1>1, BenchInvAlways, PTL

(* Whichever of the two exports could be opened: a JSON that was written   *)
(* has exactly the rows that were printed, in their order, each with the   *)
(* suite whose heading it stands under; a markdown report that was written *)
(* has them too, with a summary that counts the comparisons by who was     *)
(* faster; and if both were written they list the same rows.               *)
THEOREM ExportsAgree == Spec => []ReportsAgree
  <1>1. BenchInv => ReportsAgree
    BY DEF BenchInv, ReportsAgree
  <1>2. QED
    BY <1>1, BenchInvAlways, PTL
=============================================================================
