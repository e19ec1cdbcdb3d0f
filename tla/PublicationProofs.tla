-------------------------- MODULE PublicationProofs --------------------------
(***************************************************************************)
(* What TLAPS proves about Publication for any number of jobs, tags and    *)
(* branches, whatever fails and in whatever order requests are merged: the *)
(* package files stay together, a merge brings in nothing but its job's    *)
(* own files, a rerun is not stopped by the request of the run before, and *)
(* a job that ended well has settled its tag.                              *)
(***************************************************************************)
EXTENDS Publication, TLAPS

Content   == Tags \cup Jobs \cup {Old}
FileTrees == [Paths -> Content]
Proposals == Kinds \X Tags
Labels    == PackageFiles \cup
             {"idle", "measure", "checkout", "download", "copy", "commit", "push", "list",
              "create", "arm", "succeeded", "failed"}
Requests  == [state : {"none", "open", "merged"}, auto : BOOLEAN]
Reasons   == {"nothing", "network", "script", "no results", "exists"}

-----------------------------------------------------------------------------
(* The types.                                                              *)

(* What GitHub has, and what a job has.                                    *)
GithubTypes ==
    /\ branches \in [Branches -> FileTrees]
    /\ heads \in [Proposals -> [tree : FileTrees, from : FileTrees]]
    /\ requests \in [Proposals -> Requests]
    /\ landed \subseteq Proposals

JobTypes ==
    /\ pc \in [Jobs -> Labels]
    /\ kind \in [Jobs -> Kinds]
    /\ tag \in [Jobs -> Tags \cup {Old}]
    /\ from \in [Jobs -> FileTrees]
    /\ tree \in [Jobs -> FileTrees]
    /\ sawOpen \in [Jobs -> BOOLEAN]
    /\ alone \in [Jobs -> BOOLEAN]
    /\ why \in [Jobs -> Reasons]
    /\ \A j \in Jobs : pc[j] # "idle" => tag[j] \in Tags

Types == shape \in Shapes /\ GithubTypes /\ JobTypes

LEMMA LabelFacts ==
  /\ PackageFiles \subseteq Labels
  /\ \A l \in {"idle", "measure", "checkout", "download", "copy", "commit", "push", "list",
             "create", "arm", "succeeded", "failed", "CMakeLists.txt"} : l \in Labels
  /\ \A r \in {"nothing", "network", "script", "no results", "exists"} : r \in Reasons
  BY DEF Labels, Reasons, PackageFiles

LEMMA TypesInit == Init => Types
  <1> SUFFICES ASSUME Init PROVE Types
    OBVIOUS
  <1>1. OldTree \in FileTrees
    BY DEF OldTree, FileTrees, Content
  <1>2. GithubTypes
    BY <1>1 DEF Init, GithubTypes, NoHead, NoRequest, Proposals, Requests
  <1>3. JobTypes
    BY <1>1, LabelFacts DEF Init, JobTypes, Kinds
  <1>4. QED
    BY <1>2, <1>3 DEF Init, Types

(* A job whose tag is set has a proposal.                                  *)
LEMMA KeyIsProposal ==
  ASSUME Types, NEW j \in Jobs, pc[j] # "idle"
  PROVE  Key(j) \in Proposals /\ Key(j)[1] = kind[j] /\ Key(j)[2] = tag[j] /\ tag[j] \in Tags
  BY DEF Types, JobTypes, Key, Proposals

(* The steps of a job, those of the script as one.                         *)
After(file) == CASE file = "CMakeLists.txt" -> "conanfile.py"
                 [] file = "conanfile.py"   -> "conandata.yml"
                 [] file = "conandata.yml"  -> "portfile.cmake"
                 [] file = "portfile.cmake" -> "vcpkg.json"
                 [] OTHER                   -> "commit"

LEMMA JobSteps ==
  ASSUME NEW j \in Jobs, JobStep(j)
  PROVE  \/ Start(j) \/ Checkout(j) \/ CopyResults(j) \/ Push(j)
         \/ NetworkFails(j) \/ Download(j) \/ Measure(j) \/ Commit(j) \/ ListRequests(j)
         \/ CreateRequest(j) \/ ArmMerge(j)
         \/ \E file \in PackageFiles : Rewrite(j, file, After(file))
  <1>1. \/ RewriteCMakeLists(j) \/ RewriteConanfile(j) \/ RewriteConandata(j)
        \/ RewritePortfile(j) \/ RewriteVcpkg(j)
        => \E file \in PackageFiles : Rewrite(j, file, After(file))
    <2>1. RewriteCMakeLists(j) => Rewrite(j, "CMakeLists.txt", After("CMakeLists.txt"))
      BY DEF RewriteCMakeLists, After
    <2>2. RewriteConanfile(j) => Rewrite(j, "conanfile.py", After("conanfile.py"))
      BY DEF RewriteConanfile, After
    <2>3. RewriteConandata(j) => Rewrite(j, "conandata.yml", After("conandata.yml"))
      BY DEF RewriteConandata, After
    <2>4. RewritePortfile(j) => Rewrite(j, "portfile.cmake", After("portfile.cmake"))
      BY DEF RewritePortfile, After
    <2>5. RewriteVcpkg(j) => Rewrite(j, "vcpkg.json", After("vcpkg.json"))
      BY DEF RewriteVcpkg, After
    <2>6. QED
      BY <2>1, <2>2, <2>3, <2>4, <2>5 DEF PackageFiles
  <1>2. QED
    BY <1>1 DEF JobStep

(* gh pr merge --auto touches nothing but the one request's flag.          *)
LEMMA ArmedOnly ==
  ASSUME NEW f \in [Proposals -> Requests], NEW k \in Proposals,
         NEW g, g = [f EXCEPT ![k].auto = TRUE]
  PROVE  /\ g \in [Proposals -> Requests]
         /\ g[k].auto /\ g[k].state = f[k].state
         /\ \A i \in Proposals : i # k => g[i] = f[i]
  <1>1. g \in [Proposals -> Requests]
    BY Zenon DEF Requests
  <1>2. g[k].auto
    BY Zenon DEF Requests
  <1>3. g[k].state = f[k].state
    BY Zenon DEF Requests
  <1>4. QED
    BY <1>1, <1>2, <1>3

LEMMA TypesStep ==
  ASSUME Types, [Next]_vars
  PROVE  Types'
  <1>0. "main" \in Branches
    BY DEF Branches
  <1>1. ASSUME NEW j \in Jobs, Start(j)
        PROVE  Types'
    <2>1. UNCHANGED <<shape, branches, heads, requests, landed, from, tree, sawOpen, why>>
      BY <1>1 DEF Start, github
    <2>2. PICK k \in Kinds, t \in Tags :
             /\ kind' = [kind EXCEPT ![j] = k]
             /\ tag' = [tag EXCEPT ![j] = t]
             /\ alone' = [i \in Jobs |->
                   IF i = j THEN {m \in Jobs : ~Over(m) /\ Key(m) = <<k, t>>} = {}
                   ELSE alone[i] /\ i \notin {m \in Jobs : ~Over(m) /\ Key(m) = <<k, t>>}]
             /\ pc' = [pc EXCEPT ![j] = IF k = "recipes" THEN "checkout" ELSE "measure"]
      BY <1>1, LabelFacts DEF Start, Goto
    <2>3. alone' \in [Jobs -> BOOLEAN]
      BY <2>2 DEF Types, JobTypes
    <2>4. JobTypes'
      BY <2>1, <2>2, <2>3, LabelFacts DEF Types, JobTypes
    <2>5. QED
      BY <2>1, <2>4 DEF Types, GithubTypes
  <1>2. ASSUME NEW j \in Jobs,
               NetworkFails(j) \/ Download(j) \/ Measure(j) \/ Commit(j) \/ ListRequests(j)
        PROVE  Types'
    <2>1. /\ pc[j] # "idle" /\ \E l \in Labels : pc' = [pc EXCEPT ![j] = l]
          /\ UNCHANGED <<shape, branches, heads, requests, landed, kind, tag, from, tree, alone>>
      BY <1>2, LabelFacts DEF NetworkFails, Download, Measure, Commit, ListRequests, Goto, Fails,
                  github, job, history
    <2>2. why' \in [Jobs -> Reasons] /\ sawOpen' \in [Jobs -> BOOLEAN]
      BY <1>2, LabelFacts DEF NetworkFails, Download, Measure, Commit, ListRequests, IsOpen, Fails,
                  job, history, Types, JobTypes
    <2>3. JobTypes'
      BY <2>1, <2>2, LabelFacts DEF Types, JobTypes
    <2>4. QED
      BY <2>1, <2>3 DEF Types, GithubTypes
  <1>3. ASSUME NEW j \in Jobs, Checkout(j)
        PROVE  Types'
    BY <1>0, <1>3, LabelFacts DEF Checkout, Goto, github, history, Types, GithubTypes, JobTypes
  <1>4. ASSUME NEW j \in Jobs, NEW file \in PackageFiles, Rewrite(j, file, After(file))
        PROVE  Types'
    <2>1. /\ pc[j] = file
          /\ UNCHANGED <<shape, branches, heads, requests, landed, kind, tag, from, sawOpen, alone>>
      BY <1>4 DEF Rewrite, github
    <2>2. /\ \E l \in Labels : pc' = [pc EXCEPT ![j] = l]
          /\ why' \in [Jobs -> Reasons]
      <3>1. After(file) \in Labels
        BY LabelFacts DEF After, PackageFiles
      <3>2. QED
        BY <1>4, <3>1, LabelFacts DEF Rewrite, Goto, Fails, Types, JobTypes
    <2>3. tree' \in [Jobs -> FileTrees]
      <3>1. pc[j] # "idle" /\ tag[j] \in Tags
        BY <2>1 DEF Types, JobTypes, PackageFiles
      <3>2. [tree EXCEPT ![j][file] = tag[j]] \in [Jobs -> FileTrees]
        BY <3>1 DEF Types, JobTypes, FileTrees, Content, Paths
      <3>3. QED
        BY <1>4, <3>2 DEF Rewrite, Types, JobTypes
    <2>4. JobTypes'
      BY <2>1, <2>2, <2>3, LabelFacts DEF Types, JobTypes, PackageFiles
    <2>5. QED
      BY <2>1, <2>4 DEF Types, GithubTypes
  <1>5. ASSUME NEW j \in Jobs, CopyResults(j)
        PROVE  Types'
    <2>1. [tree EXCEPT ![j][tag[j]] = j] \in [Jobs -> FileTrees]
      BY DEF Types, JobTypes, FileTrees, Content
    <2>2. QED
      BY <1>5, <2>1, LabelFacts DEF CopyResults, Goto, github, history, Types, GithubTypes, JobTypes
  <1>6. ASSUME NEW j \in Jobs, Push(j)
        PROVE  Types'
    <2>1. UNCHANGED <<shape, branches, requests, landed, kind, tag, from, tree, sawOpen, alone, why>>
      BY <1>6 DEF Push, job, history
    <2>2. heads' \in [Proposals -> [tree : FileTrees, from : FileTrees]]
      BY <1>6 DEF Push, Types, GithubTypes, JobTypes
    <2>3. QED
      BY <1>6, <2>1, <2>2, LabelFacts DEF Push, Goto, Types, GithubTypes, JobTypes
  <1>7. ASSUME NEW j \in Jobs, CreateRequest(j) \/ ArmMerge(j)
        PROVE  Types'
    <2>1. /\ pc[j] # "idle"
          /\ UNCHANGED <<shape, branches, heads, landed, kind, tag, from, tree, sawOpen, alone>>
      BY <1>7, LabelFacts DEF CreateRequest, ArmMerge, job, history
    <2>2. requests' \in [Proposals -> Requests]
      <3>1. CASE CreateRequest(j)
        <4>1. PICK r \in Requests : requests' = requests \/ requests' = [requests EXCEPT ![Key(j)] = r]
          <5>1. [state |-> "open", auto |-> FALSE] \in Requests
            BY DEF Requests
          <5>2. QED
            BY <3>1, <5>1 DEF CreateRequest
        <4>2. QED
          BY <4>1 DEF Types, GithubTypes
      <3>2. CASE ArmMerge(j)
        <4>1. requests \in [Proposals -> Requests] /\ Key(j) \in Proposals
          BY <2>1, KeyIsProposal DEF Types, GithubTypes
        <4>2. requests' = [requests EXCEPT ![Key(j)].auto = TRUE]
          BY <3>2 DEF ArmMerge
        <4>3. QED
          BY <4>1, <4>2, ArmedOnly
      <3>3. QED
        BY <1>7, <3>1, <3>2
    <2>3. /\ why' \in [Jobs -> Reasons]
          /\ \E l \in Labels : pc' = [pc EXCEPT ![j] = l]
      BY <1>7, LabelFacts DEF CreateRequest, ArmMerge, Goto, Fails, history, Types, JobTypes
    <2>4. QED
      BY <2>1, <2>2, <2>3 DEF Types, GithubTypes, JobTypes
  <1>8. ASSUME NEW k \in Proposals, MergeRequest(k)
        PROVE  Types'
    <2>1. /\ UNCHANGED <<shape, heads, pc, kind, tag, from, tree, sawOpen, alone, why>>
          /\ requests' = [requests EXCEPT ![k].state = "merged"]
          /\ landed' = landed \cup {k}
          /\ branches' = [branches EXCEPT ![Base(k)] = Merged(k)]
      BY <1>8 DEF MergeRequest, job, history
    <2>2. Base(k) \in Branches
      BY DEF Base, Branches, Proposals
    <2>3. Merged(k) \in FileTrees
      BY <2>2 DEF Merged, Types, GithubTypes, FileTrees
    <2>4. requests' \in [Proposals -> Requests]
      BY <2>1 DEF Types, GithubTypes, Requests
    <2>5. QED
      BY <2>1, <2>3, <2>4 DEF Types, GithubTypes, JobTypes
  <1>9. CASE UNCHANGED vars
    BY <1>9 DEF vars, github, job, history, Types, GithubTypes, JobTypes
  <1>10. QED
    <2>1. ASSUME NEW j \in Jobs, JobStep(j)
          PROVE  Types'
      BY <1>1, <1>2, <1>3, <1>4, <1>5, <1>6, <1>7, <2>1, JobSteps
    <2>2. QED
      BY <1>8, <1>9, <2>1 DEF Next, Proposals

LEMMA TypesAlways == Spec => []Types
  BY TypesInit, TypesStep, PTL DEF Spec

-----------------------------------------------------------------------------
(* What each step does, seen from one job and from the others.             *)

SameElsewhere(j) == \A i \in Jobs \ {j} : pc'[i] = pc[i] /\ why'[i] = why[i]
SameKeys         == UNCHANGED <<shape, kind, tag>>

LEMMA StartDoes ==
  ASSUME Types, NEW j \in Jobs, Start(j)
  PROVE  /\ pc[j] = "idle" /\ kind'[j] \in Kinds /\ tag'[j] \in Tags
         /\ pc'[j] = IF kind'[j] = "recipes" THEN "checkout" ELSE "measure"
         /\ \A i \in Jobs \ {j} : pc'[i] = pc[i] /\ kind'[i] = kind[i] /\ tag'[i] = tag[i]
         /\ UNCHANGED <<shape, branches, heads, requests, landed, from, tree, why>>
         /\ \A i \in Jobs \ {j} :
               /\ alone'[i] => alone[i]
               /\ ~Over(i) /\ Key(i) = <<kind'[j], tag'[j]>> => ~alone'[i] /\ ~alone'[j]
  <1>1. /\ pc[j] = "idle"
        /\ UNCHANGED <<shape, branches, heads, requests, landed, from, tree, why>>
    BY DEF Start, github
  <1>2. PICK k \in Kinds, t \in Tags, rivals \in SUBSET Jobs :
           /\ rivals = {i \in Jobs : ~Over(i) /\ Key(i) = <<k, t>>}
           /\ kind' = [kind EXCEPT ![j] = k]
           /\ tag' = [tag EXCEPT ![j] = t]
           /\ alone' = [i \in Jobs |-> IF i = j THEN rivals = {} ELSE alone[i] /\ i \notin rivals]
           /\ pc' = [pc EXCEPT ![j] = IF k = "recipes" THEN "checkout" ELSE "measure"]
    BY DEF Start, Goto
  <1>3. /\ kind'[j] = k /\ tag'[j] = t
        /\ pc'[j] = IF k = "recipes" THEN "checkout" ELSE "measure"
        /\ \A i \in Jobs \ {j} : pc'[i] = pc[i] /\ kind'[i] = kind[i] /\ tag'[i] = tag[i]
    BY <1>2 DEF Types, JobTypes
  <1>4. ASSUME NEW i \in Jobs \ {j}
        PROVE  /\ alone'[i] => alone[i]
               /\ ~Over(i) /\ Key(i) = <<k, t>> => ~alone'[i] /\ ~alone'[j]
    <2>1. alone'[i] = (alone[i] /\ i \notin rivals) /\ alone'[j] = (rivals = {})
      BY <1>2, <1>4, Zenon
    <2>2. ~Over(i) /\ Key(i) = <<k, t>> => i \in rivals
      BY <1>2, <1>4, Zenon
    <2>3. QED
      BY <2>1, <2>2
  <1>5. QED
    BY <1>1, <1>2, <1>3, <1>4

LEMMA QuietStepDoes ==
  ASSUME Types, NEW j \in Jobs,
         NetworkFails(j) \/ Download(j) \/ Measure(j) \/ Commit(j) \/ ListRequests(j)
  PROVE  /\ SameKeys /\ UNCHANGED <<branches, heads, requests, landed, from, tree, alone>>
         /\ SameElsewhere(j)
         /\ why'[j] # "exists" \/ why'[j] = why[j]
         /\ pc[j] \notin {"idle", "succeeded", "failed"} \cup PackageFiles
         /\ \/ pc'[j] = "failed"
            \/ pc[j] = "download" /\ pc'[j] = "CMakeLists.txt"
            \/ pc[j] = "measure" /\ pc'[j] = "checkout"
            \/ pc[j] = "commit" /\ pc'[j] = IF tree[j] = from[j] THEN "succeeded" ELSE "push"
            \/ pc[j] = "list" /\ pc'[j] = IF IsOpen(Key(j)) THEN "arm" ELSE "create"
  <1>1. /\ SameKeys /\ UNCHANGED <<branches, heads, requests, landed, from, tree, alone>>
        /\ pc[j] \notin {"idle", "succeeded", "failed"} \cup PackageFiles
    BY DEF NetworkFails, Download, Measure, Commit, ListRequests, SameKeys, github, job,
           history, PackageFiles
  <1>2. CASE NetworkFails(j)
    BY <1>1, <1>2 DEF NetworkFails, Fails, Goto, SameElsewhere, Types, JobTypes
  <1>3. CASE Download(j)
    BY <1>1, <1>3 DEF Download, Goto, history, SameElsewhere, Types, JobTypes
  <1>4. CASE Measure(j)
    BY <1>1, <1>4 DEF Measure, Fails, Goto, SameElsewhere, Types, JobTypes
  <1>5. CASE Commit(j)
    BY <1>1, <1>5 DEF Commit, Goto, history, SameElsewhere, Types, JobTypes
  <1>6. CASE ListRequests(j)
    <2>1. sawOpen'[j] = IsOpen(Key(j))
      BY <1>6, Zenon DEF ListRequests, Types, JobTypes
    <2>2. QED
      BY <1>1, <1>6, <2>1 DEF ListRequests, Goto, history, SameElsewhere, Types, JobTypes
  <1>7. QED
    BY <1>2, <1>3, <1>4, <1>5, <1>6

LEMMA CheckoutDoes ==
  ASSUME Types, NEW j \in Jobs, Checkout(j)
  PROVE  /\ SameKeys /\ UNCHANGED <<branches, heads, requests, landed, alone, why>>
         /\ SameElsewhere(j)
         /\ \A i \in Jobs \ {j} : from'[i] = from[i] /\ tree'[i] = tree[i]
         /\ from'[j] = branches["main"] /\ tree'[j] = branches["main"]
         /\ pc[j] = "checkout"
         /\ pc'[j] = IF kind[j] = "recipes" THEN "download" ELSE "copy"
  BY DEF Checkout, Goto, github, history, SameKeys, SameElsewhere, Types, JobTypes

LEMMA RewriteDoes ==
  ASSUME Types, NEW j \in Jobs, NEW file \in PackageFiles, Rewrite(j, file, After(file))
  PROVE  /\ SameKeys /\ UNCHANGED <<branches, heads, requests, landed, from, alone>>
         /\ SameElsewhere(j)
         /\ why'[j] # "exists" \/ why'[j] = why[j]
         /\ \A i \in Jobs \ {j} : tree'[i] = tree[i]
         /\ \A p \in Paths \ {file} : tree'[j][p] = tree[j][p]
         /\ tree'[j][file] \in {tree[j][file], tag[j]}
         /\ pc[j] = file
         /\ \/ pc'[j] = "failed"
            \/ pc'[j] = After(file) /\ (shape[file] # "no field" => tree'[j][file] = tag[j])
  <1>1. /\ SameKeys /\ UNCHANGED <<branches, heads, requests, landed, from, alone>>
        /\ pc[j] = file
    BY DEF Rewrite, github, SameKeys
  <1>2. shape[file] \in {"fits", "refused", "no field"}
    BY PublicationAssumption DEF Types
  <1>3. file \in Paths /\ tree \in [Jobs -> FileTrees]
    BY DEF Paths, Types, JobTypes
  <1>4. CASE shape[file] = "refused"
    BY <1>1, <1>3, <1>4 DEF Rewrite, Fails, Goto, SameElsewhere, Types, JobTypes
  <1>5. CASE shape[file] # "refused"
    <2>1. /\ pc' = [pc EXCEPT ![j] = After(file)] /\ why' = why
          /\ tree' = IF shape[file] = "fits" THEN [tree EXCEPT ![j][file] = tag[j]] ELSE tree
      BY <1>5 DEF Rewrite, Goto
    <2>2. SameElsewhere(j) /\ pc'[j] = After(file)
      BY <2>1 DEF SameElsewhere, Types, JobTypes
    <2>3. /\ \A i \in Jobs \ {j} : tree'[i] = tree[i]
          /\ \A p \in Paths \ {file} : tree'[j][p] = tree[j][p]
          /\ shape[file] = "fits" => tree'[j][file] = tag[j]
          /\ shape[file] # "fits" => tree'[j][file] = tree[j][file]
      BY <1>3, <2>1 DEF FileTrees
    <2>4. QED
      BY <1>1, <1>2, <1>5, <2>1, <2>2, <2>3
  <1>6. QED
    BY <1>4, <1>5

LEMMA CopyDoes ==
  ASSUME Types, NEW j \in Jobs, CopyResults(j)
  PROVE  /\ SameKeys /\ UNCHANGED <<branches, heads, requests, landed, from, alone, why>>
         /\ SameElsewhere(j)
         /\ \A i \in Jobs \ {j} : tree'[i] = tree[i]
         /\ tag[j] \in Tags /\ tree'[j][tag[j]] = j
         /\ \A p \in Paths \ {tag[j]} : tree'[j][p] = tree[j][p]
         /\ pc[j] = "copy" /\ pc'[j] = "commit"
  <1>1. /\ SameKeys /\ UNCHANGED <<branches, heads, requests, landed, from, alone, why>>
        /\ pc[j] = "copy" /\ pc'[j] = "commit" /\ SameElsewhere(j)
        /\ tree' = [tree EXCEPT ![j][tag[j]] = j]
    BY DEF CopyResults, Goto, github, history, SameKeys, SameElsewhere, Types, JobTypes
  <1>2. tag[j] \in Tags /\ tag[j] \in Paths /\ tree \in [Jobs -> FileTrees]
    BY <1>1 DEF Types, JobTypes, Paths
  <1>3. QED
    BY <1>1, <1>2 DEF FileTrees

LEMMA PushDoes ==
  ASSUME Types, NEW j \in Jobs, Push(j)
  PROVE  /\ SameKeys /\ UNCHANGED <<branches, requests, landed, from, tree, alone, why>>
         /\ SameElsewhere(j)
         /\ Key(j) \in Proposals
         /\ heads'[Key(j)].tree = tree[j] /\ heads'[Key(j)].from = from[j]
         /\ \A k \in Proposals : k # Key(j) => heads'[k] = heads[k]
         /\ pc[j] = "push"
         /\ pc'[j] = IF kind[j] = "recipes" THEN "list" ELSE "create"
  <1>1. /\ SameKeys /\ UNCHANGED <<branches, requests, landed, from, tree, alone, why>>
        /\ SameElsewhere(j) /\ pc[j] = "push"
        /\ pc'[j] = IF kind[j] = "recipes" THEN "list" ELSE "create"
        /\ heads' = [heads EXCEPT ![Key(j)] = [tree |-> tree[j], from |-> from[j]]]
    BY DEF Push, Goto, job, history, SameKeys, SameElsewhere, Types, JobTypes
  <1>2. Key(j) \in Proposals
    BY <1>1, KeyIsProposal
  <1>3. QED
    BY <1>1, <1>2 DEF Types, GithubTypes

LEMMA CreateDoes ==
  ASSUME Types, NEW j \in Jobs, CreateRequest(j)
  PROVE  /\ SameKeys /\ UNCHANGED <<branches, heads, landed, from, tree, alone>>
         /\ SameElsewhere(j) /\ Key(j) \in Proposals
         /\ pc[j] = "create"
         /\ \/ /\ ~IsOpen(Key(j)) /\ why'[j] = why[j] /\ pc'[j] = "arm"
               /\ requests'[Key(j)].state = "open"
               /\ \A k \in Proposals : k # Key(j) => requests'[k] = requests[k]
            \/ IsOpen(Key(j)) /\ pc'[j] = "failed" /\ requests' = requests
  <1>1. /\ SameKeys /\ UNCHANGED <<branches, heads, landed, from, tree, alone>>
        /\ pc[j] = "create"
    BY DEF CreateRequest, job, SameKeys
  <1>2. Key(j) \in Proposals
    BY <1>1, KeyIsProposal
  <1>3. CASE /\ ~IsOpen(Key(j))
             /\ requests' = [requests EXCEPT ![Key(j)] = [state |-> "open", auto |-> FALSE]]
             /\ pc' = [pc EXCEPT ![j] = "arm"] /\ why' = why
    BY <1>1, <1>2, <1>3 DEF SameElsewhere, Types, JobTypes, GithubTypes
  <1>4. CASE IsOpen(Key(j)) /\ Fails(j, "exists") /\ requests' = requests
    BY <1>1, <1>2, <1>4 DEF Fails, Goto, SameElsewhere, Types, JobTypes
  <1>5. QED
    BY <1>3, <1>4 DEF CreateRequest, Goto

LEMMA ArmDoes ==
  ASSUME Types, NEW j \in Jobs, ArmMerge(j)
  PROVE  /\ SameKeys /\ UNCHANGED <<branches, heads, landed, from, tree, alone, why>>
         /\ SameElsewhere(j) /\ Key(j) \in Proposals
         /\ requests'[Key(j)].auto /\ requests'[Key(j)].state = requests[Key(j)].state
         /\ \A k \in Proposals : k # Key(j) => requests'[k] = requests[k]
         /\ pc[j] = "arm" /\ pc'[j] = "succeeded"
  <1>1. /\ SameKeys /\ UNCHANGED <<branches, heads, landed, from, tree, alone, why>>
        /\ SameElsewhere(j) /\ pc[j] = "arm" /\ pc'[j] = "succeeded"
    BY DEF ArmMerge, Goto, job, history, SameKeys, SameElsewhere, Types, JobTypes
  <1>2. Key(j) \in Proposals /\ requests \in [Proposals -> Requests]
    BY <1>1, KeyIsProposal DEF Types, GithubTypes
  <1>3. requests' = [requests EXCEPT ![Key(j)].auto = TRUE]
    BY DEF ArmMerge
  <1>4. QED
    BY <1>1, <1>2, <1>3, ArmedOnly

LEMMA MergeDoes ==
  ASSUME Types, NEW k \in Proposals, MergeRequest(k)
  PROVE  /\ SameKeys /\ UNCHANGED <<heads, pc, from, tree, alone, why>>
         /\ IsOpen(k) /\ requests'[k].state = "merged"
         /\ \A i \in Proposals : i # k => requests'[i] = requests[i]
         /\ landed' = landed \cup {k}
         /\ Base(k) \in Branches /\ branches'[Base(k)] = Merged(k)
         /\ \A b \in Branches : b # Base(k) => branches'[b] = branches[b]
  <1>1. Base(k) \in Branches
    BY DEF Base, Branches, Proposals
  <1>2. /\ SameKeys /\ UNCHANGED <<heads, pc, from, tree, alone, why>>
        /\ IsOpen(k) /\ landed' = landed \cup {k}
        /\ requests' = [requests EXCEPT ![k].state = "merged"]
        /\ branches' = [branches EXCEPT ![Base(k)] = Merged(k)]
    BY DEF MergeRequest, job, history, SameKeys
  <1>3. QED
    BY <1>1, <1>2 DEF Types, GithubTypes, Requests

-----------------------------------------------------------------------------
(* The package files.                                                      *)

(* What a proposal changes, and what a job has changed so far, is its own. *)
OwnOnly ==
    /\ \A k \in Proposals : \A p \in Paths :
          heads[k].tree[p] # heads[k].from[p] => p \in OwnPaths(k)
    /\ \A j \in Jobs : \A p \in Paths : tree[j][p] # from[j][p] => p \in OwnPaths(Key(j))

(* Where a job may stand, and that it has changed nothing before it gets   *)
(* to the script or to the copy.                                           *)
Stages ==
    \A j \in Jobs :
       /\ pc[j] \in PackageFiles \cup {"download", "list"} => kind[j] = "recipes"
       /\ pc[j] \in {"measure", "copy"} => kind[j] = "snapshot"
       /\ pc[j] \in {"idle", "measure", "checkout", "download", "copy"} => tree[j] = from[j]

(* The script has written file f before it gets to l.                      *)
Passed(f, l) ==
    \/ l \in {"commit", "push"}
    \/ l = "vcpkg.json" /\ f # "vcpkg.json"
    \/ l = "portfile.cmake" /\ f \notin {"vcpkg.json", "portfile.cmake"}
    \/ l = "conandata.yml" /\ f \in {"CMakeLists.txt", "conanfile.py"}
    \/ l = "conanfile.py" /\ f = "CMakeLists.txt"

WrittenSoFar ==
    \A j \in Jobs : kind[j] = "recipes" =>
       \A f \in PackageFiles :
          Passed(f, pc[j]) /\ shape[f] # "no field" => tree[j][f] = tag[j]

(* Every tree anybody may merge, or start from, is of one version.         *)
OfOneVersion(s, files) ==
    \E v \in Tags \cup {Old} : \A f \in PackageFiles : s[f] # "no field" => files[f] = v

AllAgree ==
    /\ \A b \in Branches : OfOneVersion(shape, branches[b])
    /\ \A k \in Proposals : OfOneVersion(shape, heads[k].tree) /\ OfOneVersion(shape, heads[k].from)
    /\ \A j \in Jobs : OfOneVersion(shape, from[j])

FilesInv == OwnOnly /\ Stages /\ WrittenSoFar /\ AllAgree

LEMMA FilesInit == Init => FilesInv
  <1> SUFFICES ASSUME Init PROVE FilesInv
    OBVIOUS
  <1>1. OfOneVersion(shape, OldTree)
    BY DEF OfOneVersion, OldTree, Paths
  <1>2. Stages /\ AllAgree /\ OwnOnly
    BY <1>1 DEF Init, Stages, AllAgree, OwnOnly, NoHead, Proposals, PackageFiles
  <1>3. WrittenSoFar
    BY DEF Init, WrittenSoFar, Passed
  <1>4. QED
    BY <1>2, <1>3 DEF FilesInv

LEMMA PassedAfter ==
  ASSUME NEW file \in PackageFiles, NEW f \in PackageFiles, Passed(f, After(file))
  PROVE  f = file \/ Passed(f, file)
  BY DEF Passed, After, PackageFiles

(* Agreement is kept by a merge of three trees that agree, whichever side  *)
(* the merge takes the files from: it takes them all from the same.        *)
LEMMA MergeAgrees ==
  ASSUME Types, NEW k \in Proposals, OfOneVersion(shape, branches[Base(k)]),
         OfOneVersion(shape, heads[k].tree), OfOneVersion(shape, Ancestor(k))
  PROVE  OfOneVersion(shape, Merged(k))
  <1>1. PICK u \in Tags \cup {Old} :
           \A f \in PackageFiles : shape[f] # "no field" => branches[Base(k)][f] = u
    BY DEF OfOneVersion
  <1>2. PICK v \in Tags \cup {Old} :
           \A f \in PackageFiles : shape[f] # "no field" => heads[k].tree[f] = v
    BY DEF OfOneVersion
  <1>3. PICK w \in Tags \cup {Old} :
           \A f \in PackageFiles : shape[f] # "no field" => Ancestor(k)[f] = w
    BY DEF OfOneVersion
  <1>4. \A f \in PackageFiles : Merged(k)[f] = IF heads[k].tree[f] = Ancestor(k)[f]
                                               THEN branches[Base(k)][f] ELSE heads[k].tree[f]
    BY DEF Merged, Paths
  <1>5. \A f \in PackageFiles : shape[f] # "no field" => Merged(k)[f] = IF v = w THEN u ELSE v
    BY <1>1, <1>2, <1>3, <1>4
  <1>6. QED
    BY <1>5 DEF OfOneVersion

(* What a job commits agrees: an update has written every file, a snapshot *)
(* none.                                                                   *)
LEMMA CommittedAgrees ==
  ASSUME Types, FilesInv, NEW j \in Jobs, pc[j] = "push"
  PROVE  OfOneVersion(shape, tree[j])
  <1>1. tag[j] \in Tags /\ kind[j] \in Kinds
    BY DEF Types, JobTypes
  <1>2. CASE kind[j] = "recipes"
    <2>1. \A f \in PackageFiles : shape[f] # "no field" => tree[j][f] = tag[j]
      BY <1>2 DEF FilesInv, WrittenSoFar, Passed
    <2>2. QED
      BY <1>1, <2>1 DEF OfOneVersion
  <1>3. CASE kind[j] = "snapshot"
    <2>1. \A f \in PackageFiles : tree[j][f] = from[j][f]
      BY <1>1, <1>3, PublicationAssumption DEF FilesInv, OwnOnly, OwnPaths, Key, Paths
    <2>2. OfOneVersion(shape, from[j])
      BY DEF FilesInv, AllAgree
    <2>3. PICK v \in Tags \cup {Old} :
             \A f \in PackageFiles : shape[f] # "no field" => from[j][f] = v
      BY <2>2 DEF OfOneVersion
    <2>4. \A f \in PackageFiles : shape[f] # "no field" => tree[j][f] = v
      BY <2>1, <2>3
    <2>5. QED
      BY <2>4 DEF OfOneVersion
  <1>4. QED
    BY <1>1, <1>2, <1>3 DEF Kinds

LEMMA FilesStep ==
  ASSUME Types, FilesInv, [Next]_vars
  PROVE  FilesInv'
  <1>0. /\ OwnOnly /\ Stages /\ WrittenSoFar /\ AllAgree /\ "main" \in Branches
        /\ kind \in [Jobs -> Kinds] /\ tag \in [Jobs -> Tags \cup {Old}]
    BY DEF FilesInv, Branches, Types, JobTypes
  <1>1. ASSUME NEW j \in Jobs, Start(j)
        PROVE  FilesInv'
    <2>1. /\ pc[j] = "idle" /\ pc'[j] = IF kind'[j] = "recipes" THEN "checkout" ELSE "measure"
          /\ kind'[j] \in Kinds
          /\ \A i \in Jobs \ {j} : pc'[i] = pc[i] /\ kind'[i] = kind[i] /\ tag'[i] = tag[i]
          /\ UNCHANGED <<shape, branches, heads, from, tree>>
      BY <1>1, StartDoes
    <2>2. tree[j] = from[j]
      BY <1>0, <2>1 DEF Stages
    <2>3. OwnOnly'
      BY <1>0, <2>1, <2>2 DEF OwnOnly, Key, OwnPaths
    <2>4. Stages'
      BY <1>0, <2>1, <2>2 DEF Stages, Kinds, PackageFiles
    <2>5. WrittenSoFar'
      BY <1>0, <2>1 DEF WrittenSoFar, Passed
    <2>6. AllAgree'
      BY <1>0, <2>1 DEF AllAgree
    <2>7. QED
      BY <2>3, <2>4, <2>5, <2>6 DEF FilesInv
  <1>2. ASSUME NEW j \in Jobs,
               NetworkFails(j) \/ Download(j) \/ Measure(j) \/ Commit(j) \/ ListRequests(j)
        PROVE  FilesInv'
    <2>1. /\ UNCHANGED <<shape, kind, tag, branches, heads, from, tree>>
          /\ \A i \in Jobs \ {j} : pc'[i] = pc[i]
          /\ \/ pc'[j] = "failed"
             \/ pc[j] = "download" /\ pc'[j] = "CMakeLists.txt"
             \/ pc[j] = "measure" /\ pc'[j] = "checkout"
             \/ pc[j] = "commit" /\ pc'[j] \in {"succeeded", "push"}
             \/ pc[j] = "list" /\ pc'[j] \in {"arm", "create"}
      BY <1>2, QuietStepDoes DEF SameKeys, SameElsewhere
    <2>2. OwnOnly' /\ AllAgree'
      BY <1>0, <2>1 DEF OwnOnly, AllAgree, Key, OwnPaths
    <2>3. Stages'
      BY <1>0, <2>1 DEF Stages, PackageFiles
    <2>4. WrittenSoFar'
      BY <1>0, <2>1 DEF WrittenSoFar, Passed
    <2>5. QED
      BY <2>2, <2>3, <2>4 DEF FilesInv
  <1>3. ASSUME NEW j \in Jobs, Checkout(j)
        PROVE  FilesInv'
    <2>1. /\ UNCHANGED <<shape, kind, tag, branches, heads>>
          /\ \A i \in Jobs \ {j} : pc'[i] = pc[i] /\ from'[i] = from[i] /\ tree'[i] = tree[i]
          /\ from'[j] = branches["main"] /\ tree'[j] = branches["main"]
          /\ pc'[j] = IF kind[j] = "recipes" THEN "download" ELSE "copy"
      BY <1>3, CheckoutDoes DEF SameKeys, SameElsewhere
    <2>2. OwnOnly'
      BY <1>0, <2>1 DEF OwnOnly, Key, OwnPaths
    <2>3. Stages'
      BY <1>0, <2>1 DEF Stages, Kinds, PackageFiles
    <2>4. WrittenSoFar'
      BY <1>0, <2>1 DEF WrittenSoFar, Passed
    <2>5. AllAgree'
      BY <1>0, <2>1 DEF AllAgree
    <2>6. QED
      BY <2>2, <2>3, <2>4, <2>5 DEF FilesInv
  <1>4. ASSUME NEW j \in Jobs, NEW file \in PackageFiles, Rewrite(j, file, After(file))
        PROVE  FilesInv'
    <2>1. /\ UNCHANGED <<shape, kind, tag, branches, heads, from>>
          /\ \A i \in Jobs \ {j} : pc'[i] = pc[i] /\ tree'[i] = tree[i]
          /\ \A p \in Paths \ {file} : tree'[j][p] = tree[j][p]
          /\ pc[j] = file
          /\ \/ pc'[j] = "failed"
             \/ pc'[j] = After(file) /\ (shape[file] # "no field" => tree'[j][file] = tag[j])
      BY <1>4, RewriteDoes DEF SameKeys, SameElsewhere
    <2>2. kind[j] = "recipes"
      BY <1>0, <2>1 DEF Stages
    <2>3. OwnOnly'
      <3>1. file \in OwnPaths(Key(j))
        BY <2>2 DEF OwnPaths, Key
      <3>2. \A i \in Jobs : Key(i)' = Key(i)
        BY <2>1 DEF Key
      <3>3. QED
        BY <1>0, <2>1, <3>1, <3>2 DEF OwnOnly
    <2>4. Stages'
      <3>1. After(file) \in PackageFiles \cup {"commit"}
        BY DEF After, PackageFiles
      <3>2. QED
        BY <1>0, <2>1, <2>2, <3>1 DEF Stages, PackageFiles
    <2>5. WrittenSoFar'
      <3>1. ASSUME NEW f \in PackageFiles, Passed(f, pc'[j]), shape[f] # "no field"
            PROVE  tree'[j][f] = tag[j]
        <4>1. pc'[j] = After(file)
          BY <2>1, <3>1 DEF Passed
        <4>2. f = file \/ Passed(f, file)
          BY <3>1, <4>1, PassedAfter
        <4>3. CASE f = file
          <5>1. After(file) # "failed"
            BY DEF After
          <5>2. QED
            BY <2>1, <3>1, <4>1, <4>3, <5>1
        <4>4. CASE f # file
          BY <1>0, <2>1, <2>2, <3>1, <4>2, <4>4 DEF WrittenSoFar, Paths
        <4>5. QED
          BY <4>3, <4>4
      <3>2. QED
        BY <1>0, <2>1, <3>1 DEF WrittenSoFar
    <2>6. AllAgree'
      BY <1>0, <2>1 DEF AllAgree
    <2>7. QED
      BY <2>3, <2>4, <2>5, <2>6 DEF FilesInv
  <1>5. ASSUME NEW j \in Jobs, CopyResults(j)
        PROVE  FilesInv'
    <2>1. /\ UNCHANGED <<shape, kind, tag, branches, heads, from>>
          /\ \A i \in Jobs \ {j} : pc'[i] = pc[i] /\ tree'[i] = tree[i]
          /\ \A p \in Paths \ {tag[j]} : tree'[j][p] = tree[j][p]
          /\ pc[j] = "copy" /\ pc'[j] = "commit"
      BY <1>5, CopyDoes DEF SameKeys, SameElsewhere
    <2>2. kind[j] = "snapshot"
      BY <1>0, <2>1 DEF Stages
    <2>3. OwnOnly'
      <3>1. tag[j] \in OwnPaths(Key(j))
        BY <2>2 DEF OwnPaths, Key
      <3>2. \A i \in Jobs : Key(i)' = Key(i)
        BY <2>1 DEF Key
      <3>3. QED
        BY <1>0, <2>1, <3>1, <3>2 DEF OwnOnly
    <2>4. Stages' /\ WrittenSoFar'
      BY <1>0, <2>1, <2>2 DEF Stages, WrittenSoFar, PackageFiles
    <2>5. AllAgree'
      BY <1>0, <2>1 DEF AllAgree
    <2>6. QED
      BY <2>3, <2>4, <2>5 DEF FilesInv
  <1>6. ASSUME NEW j \in Jobs, Push(j)
        PROVE  FilesInv'
    <2>1. /\ UNCHANGED <<shape, kind, tag, branches, from, tree>>
          /\ \A i \in Jobs \ {j} : pc'[i] = pc[i]
          /\ Key(j) \in Proposals
          /\ heads'[Key(j)].tree = tree[j] /\ heads'[Key(j)].from = from[j]
          /\ \A k \in Proposals : k # Key(j) => heads'[k] = heads[k]
          /\ pc[j] = "push" /\ pc'[j] = IF kind[j] = "recipes" THEN "list" ELSE "create"
      BY <1>6, PushDoes DEF SameKeys, SameElsewhere
    <2>2. OwnOnly'
      <3>1. \A i \in Jobs : Key(i)' = Key(i)
        BY <2>1 DEF Key
      <3>2. QED
        BY <1>0, <2>1, <3>1 DEF OwnOnly
    <2>3. Stages' /\ WrittenSoFar'
      <3>1. Stages'
        BY <1>0, <2>1 DEF Stages, PackageFiles
      <3>2. WrittenSoFar'
        BY <1>0, <2>1 DEF WrittenSoFar, Passed
      <3>3. QED
        BY <3>1, <3>2
    <2>4. AllAgree'
      <3>1. OfOneVersion(shape, tree[j]) /\ OfOneVersion(shape, from[j])
        BY <1>0, <2>1, CommittedAgrees DEF AllAgree
      <3>2. QED
        BY <1>0, <2>1, <3>1 DEF AllAgree
    <2>5. QED
      BY <2>2, <2>3, <2>4 DEF FilesInv
  <1>7. ASSUME NEW j \in Jobs, CreateRequest(j) \/ ArmMerge(j)
        PROVE  FilesInv'
    <2>1. /\ UNCHANGED <<shape, kind, tag, branches, heads, from, tree>>
          /\ \A i \in Jobs \ {j} : pc'[i] = pc[i]
          /\ pc'[j] \in {"arm", "failed", "succeeded"}
      BY <1>7, CreateDoes, ArmDoes DEF SameKeys, SameElsewhere
    <2>2. OwnOnly' /\ AllAgree'
      BY <1>0, <2>1 DEF OwnOnly, AllAgree, Key, OwnPaths
    <2>3. Stages' /\ WrittenSoFar'
      <3>1. Stages'
        BY <1>0, <2>1 DEF Stages, PackageFiles
      <3>2. WrittenSoFar'
        BY <1>0, <2>1 DEF WrittenSoFar, Passed
      <3>3. QED
        BY <3>1, <3>2
    <2>4. QED
      BY <2>2, <2>3 DEF FilesInv
  <1>8. ASSUME NEW k \in Proposals, MergeRequest(k)
        PROVE  FilesInv'
    <2>1. /\ UNCHANGED <<shape, kind, tag, heads, pc, from, tree>>
          /\ Base(k) \in Branches /\ branches'[Base(k)] = Merged(k)
          /\ \A b \in Branches : b # Base(k) => branches'[b] = branches[b]
      BY <1>8, MergeDoes DEF SameKeys
    <2>2. OwnOnly' /\ Stages' /\ WrittenSoFar'
      BY <1>0, <2>1 DEF OwnOnly, Stages, WrittenSoFar, Key, OwnPaths
    <2>3. OfOneVersion(shape, Merged(k))
      <3>1. OfOneVersion(shape, OldTree)
        BY DEF OfOneVersion, OldTree, Paths
      <3>2. QED
        BY <1>0, <2>1, <3>1, MergeAgrees DEF AllAgree, Ancestor
    <2>4. AllAgree'
      <3>1. \A b \in Branches : OfOneVersion(shape, branches'[b])
        BY <1>0, <2>1, <2>3 DEF AllAgree
      <3>2. QED
        BY <1>0, <2>1, <3>1 DEF AllAgree
    <2>5. QED
      BY <2>2, <2>4 DEF FilesInv
  <1>9. CASE UNCHANGED vars
    BY <1>0, <1>9 DEF vars, github, job, history, FilesInv, OwnOnly, Stages, WrittenSoFar,
                      AllAgree, Key, OwnPaths
  <1>10. QED
    <2>1. ASSUME NEW j \in Jobs, JobStep(j)
          PROVE  FilesInv'
      BY <1>1, <1>2, <1>3, <1>4, <1>5, <1>6, <1>7, <2>1, JobSteps
    <2>2. QED
      BY <1>8, <1>9, <2>1 DEF Next, Proposals

LEMMA FilesAlways == Spec => [](Types /\ FilesInv)
  BY TypesInit, TypesStep, FilesInit, FilesStep, PTL DEF Spec

(* On every branch and in every proposal the package files that have the   *)
(* script's field are of one version, however many tags are in flight.     *)
THEOREM PackageFilesStayTogether == Spec => []PackageFilesAgree
  <1>1. FilesInv => PackageFilesAgree
    BY DEF FilesInv, AllAgree, OfOneVersion, PackageFilesAgree, Agree, Proposals, Kinds
  <1>2. QED
    BY <1>1, FilesAlways, PTL

(* A merge into main changes the files its job has made and no other.      *)
THEOREM MergesKeepToTheirFiles == Spec => MergesBringOwnFiles
  <1>1. ASSUME Types, FilesInv, [Next]_vars, NEW k \in Proposals,
               requests[k].state = "open", requests'[k].state = "merged", Base(k) = "main",
               NEW p \in Paths, branches'["main"][p] # branches["main"][p]
        PROVE  p \in OwnPaths(k)
    <2>1. MergeRequest(k)
      <3>1. ASSUME NEW j \in Jobs, JobStep(j)
            PROVE  requests'[k].state # "merged" \/ requests'[k].state = requests[k].state
        <4>1. CASE CreateRequest(j)
          BY <1>1, <4>1, CreateDoes
        <4>2. CASE ArmMerge(j)
          BY <1>1, <4>2, ArmDoes
        <4>3. CASE UNCHANGED requests
          BY <4>3
        <4>4. QED
          BY <1>1, <3>1, <4>1, <4>2, <4>3, JobSteps, StartDoes, CheckoutDoes, CopyDoes, PushDoes,
             QuietStepDoes, RewriteDoes
      <3>2. ASSUME NEW i \in Proposals, MergeRequest(i), i # k
            PROVE  requests'[k] = requests[k]
        BY <1>1, <3>2, MergeDoes
      <3>3. QED
        BY <1>1, <3>1, <3>2 DEF Next, vars, github, Proposals
    <2>2. branches'["main"] = Merged(k)
      BY <1>1, <2>1, MergeDoes
    <2>3. heads[k].tree[p] # heads[k].from[p]
      BY <1>1, <2>2 DEF Merged, Ancestor
    <2>4. QED
      BY <1>1, <2>3 DEF FilesInv, OwnOnly
  <1>2. ASSUME Types, FilesInv, [Next]_vars
        PROVE  [\A k \in Kinds \X Tags :
                  /\ requests[k].state = "open" /\ requests'[k].state = "merged"
                  /\ Base(k) = "main"
                  => \A p \in Paths :
                        branches'["main"][p] # branches["main"][p] => p \in OwnPaths(k)]_vars
    <2>1. \A k \in Kinds \X Tags :
             /\ requests[k].state = "open" /\ requests'[k].state = "merged"
             /\ Base(k) = "main"
             => \A p \in Paths : branches'["main"][p] # branches["main"][p] => p \in OwnPaths(k)
      BY <1>1, <1>2 DEF Proposals
    <2>2. QED
      BY <2>1
  <1>3. QED
    BY <1>2, FilesAlways, PTL DEF Spec, MergesBringOwnFiles

-----------------------------------------------------------------------------
(* What a job that ended well leaves.                                      *)

(* A version in the package files is that of an update that was merged.    *)
LandedOnly ==
    \A f \in PackageFiles : \A t \in Tags :
       /\ \A b \in Branches : branches[b][f] = t => <<"recipes", t>> \in landed
       /\ \A k \in Proposals : heads[k].from[f] = t => <<"recipes", t>> \in landed
       /\ \A j \in Jobs : from[j][f] = t => <<"recipes", t>> \in landed

(* An update writes no version but its own.                                *)
OwnVersion ==
    \A f \in PackageFiles :
       /\ \A k \in Proposals : heads[k].tree[f] # heads[k].from[f] => heads[k].tree[f] = k[2]
       /\ \A j \in Jobs : tree[j][f] # from[j][f] => tree[j][f] = tag[j]

(* The results of a job are nowhere but in its own tree until it pushes.   *)
Unpushed(j) == pc[j] \in PackageFiles \cup {"idle", "measure", "checkout", "download", "copy",
                                            "commit", "push"}
ResultsUnseen ==
    \A j \in Jobs : Unpushed(j) =>
       \A t \in Tags : /\ \A b \in Branches : branches[b][t] # j
                       /\ \A k \in Proposals : heads[k].tree[t] # j
                       /\ \A i \in Jobs : from[i][t] # j
                       /\ \A i \in Jobs \ {j} : tree[i][t] # j

ResultsCopied ==
    \A j \in Jobs : kind[j] = "snapshot" /\ pc[j] = "commit" => tree[j][tag[j]] = j

(* A job about to arm a request finds it, if it has not been merged.       *)
RequestKnown ==
    \A j \in Jobs : pc[j] = "arm" => Key(j) \in landed \/ IsOpen(Key(j))

SuccessIsArmed ==
    \A j \in Jobs :
       pc[j] = "succeeded" =>
          Key(j) \in landed \/ (IsOpen(Key(j)) /\ requests[Key(j)].auto)

SettleInv == LandedOnly /\ OwnVersion /\ ResultsUnseen /\ ResultsCopied /\ RequestKnown
             /\ SuccessIsArmed

LEMMA SettleInit == Init => SettleInv
  <1> SUFFICES ASSUME Init PROVE SettleInv
    OBVIOUS
  <1>1. LandedOnly /\ OwnVersion
    BY PublicationAssumption DEF Init, LandedOnly, OwnVersion, NoHead, OldTree, Proposals, Paths
  <1>2. ResultsUnseen
    BY PublicationAssumption DEF Init, ResultsUnseen, NoHead, OldTree, Proposals, Paths
  <1>3. ResultsCopied /\ RequestKnown /\ SuccessIsArmed
    BY DEF Init, ResultsCopied, RequestKnown, SuccessIsArmed
  <1>4. QED
    BY <1>1, <1>2, <1>3 DEF SettleInv

(* A commit finds nothing to do only where the tag has been merged before: *)
(* conandata.yml carries the tag in any case, and a snapshot holds results *)
(* nobody else can have proposed.                                          *)
LEMMA NothingToCommit ==
  ASSUME Types, FilesInv, SettleInv, NEW j \in Jobs, pc[j] = "commit", tree[j] = from[j]
  PROVE  Key(j) \in landed
  <1>1. tag[j] \in Tags /\ kind[j] \in Kinds
    BY DEF Types, JobTypes
  <1>2. CASE kind[j] = "recipes"
    <2>1. "conandata.yml" \in PackageFiles /\ shape["conandata.yml"] # "no field"
      BY PublicationAssumption DEF Types, PackageFiles
    <2>2. from[j]["conandata.yml"] = tag[j]
      BY <1>2, <2>1 DEF FilesInv, WrittenSoFar, Passed
    <2>3. QED
      BY <1>1, <1>2, <2>1, <2>2 DEF SettleInv, LandedOnly, Key
  <1>3. CASE kind[j] = "snapshot"
    <2>1. tree[j][tag[j]] = j
      BY <1>3 DEF SettleInv, ResultsCopied
    <2>2. from[j][tag[j]] # j
      BY <1>1 DEF SettleInv, ResultsUnseen, Unpushed
    <2>3. QED
      BY <2>1, <2>2
  <1>4. QED
    BY <1>1, <1>2, <1>3 DEF Kinds

(* What a merge brings into the package files has landed with it.          *)
LEMMA MergedHasLanded ==
  ASSUME Types, FilesInv, SettleInv, NEW k \in Proposals, Base(k) \in Branches,
         NEW f \in PackageFiles, NEW t \in Tags, Merged(k)[f] = t
  PROVE  <<"recipes", t>> \in landed \cup {k}
  <1>1. Merged(k)[f] = branches[Base(k)][f] \/ Merged(k)[f] = heads[k].tree[f]
    BY DEF Merged, Paths
  <1>2. CASE branches[Base(k)][f] = t
    BY <1>2 DEF SettleInv, LandedOnly
  <1>3. CASE heads[k].tree[f] = t /\ heads[k].tree[f] = heads[k].from[f]
    BY <1>3 DEF SettleInv, LandedOnly
  <1>4. CASE heads[k].tree[f] = t /\ heads[k].tree[f] # heads[k].from[f]
    <2>1. k[2] = t /\ f \in OwnPaths(k)
      BY <1>4 DEF SettleInv, OwnVersion, FilesInv, OwnOnly, Paths
    <2>2. k[1] = "recipes"
      BY <2>1, PublicationAssumption DEF OwnPaths
    <2>3. k = <<"recipes", t>>
      BY <2>1, <2>2 DEF Proposals
    <2>4. QED
      BY <2>3
  <1>5. QED
    BY <1>1, <1>2, <1>3, <1>4

LEMMA SettleStep ==
  ASSUME Types, FilesInv, SettleInv, [Next]_vars
  PROVE  SettleInv'
  <1>0. /\ LandedOnly /\ OwnVersion /\ ResultsUnseen /\ ResultsCopied /\ RequestKnown
        /\ SuccessIsArmed /\ Stages /\ "main" \in Branches
        /\ \A i \in Jobs : pc[i] # "idle" => Key(i) \in Proposals
    BY KeyIsProposal DEF SettleInv, FilesInv, Branches
  <1>1. ASSUME NEW j \in Jobs, Start(j)
        PROVE  SettleInv'
    <2>1. /\ pc[j] = "idle" /\ pc'[j] \in {"checkout", "measure"}
          /\ \A i \in Jobs \ {j} : pc'[i] = pc[i] /\ kind'[i] = kind[i] /\ tag'[i] = tag[i]
          /\ UNCHANGED <<branches, heads, requests, landed, from, tree>>
      BY <1>1, StartDoes
    <2>2. \A i \in Jobs \ {j} : Key(i)' = Key(i)
      BY <2>1 DEF Key
    <2>3. LandedOnly'
      BY <1>0, <2>1 DEF LandedOnly
    <2>4. OwnVersion'
      BY <1>0, <2>1 DEF OwnVersion, Stages
    <2>5. ResultsUnseen'
      BY <1>0, <2>1 DEF ResultsUnseen, Unpushed
    <2>6. ResultsCopied'
      BY <1>0, <2>1 DEF ResultsCopied
    <2>7. RequestKnown' /\ SuccessIsArmed'
      BY <1>0, <2>1, <2>2 DEF RequestKnown, SuccessIsArmed, IsOpen
    <2>8. QED
      BY <2>3, <2>4, <2>5, <2>6, <2>7 DEF SettleInv
  <1>2. ASSUME NEW j \in Jobs,
               NetworkFails(j) \/ Download(j) \/ Measure(j) \/ Commit(j) \/ ListRequests(j)
        PROVE  SettleInv'
    <2>1. /\ UNCHANGED <<kind, tag, branches, heads, requests, landed, from, tree>>
          /\ \A i \in Jobs \ {j} : pc'[i] = pc[i]
          /\ pc[j] # "idle"
          /\ \/ pc'[j] = "failed"
             \/ pc[j] = "download" /\ pc'[j] = "CMakeLists.txt"
             \/ pc[j] = "measure" /\ pc'[j] = "checkout"
             \/ pc[j] = "commit" /\ pc'[j] = IF tree[j] = from[j] THEN "succeeded" ELSE "push"
             \/ pc[j] = "list" /\ pc'[j] = IF IsOpen(Key(j)) THEN "arm" ELSE "create"
      BY <1>2, QuietStepDoes DEF SameKeys, SameElsewhere
    <2>2. \A i \in Jobs : Key(i)' = Key(i)
      BY <2>1 DEF Key
    <2>3. LandedOnly' /\ OwnVersion'
      BY <1>0, <2>1 DEF LandedOnly, OwnVersion
    <2>4. ResultsUnseen'
      <3>1. Unpushed(j)' => Unpushed(j)
        BY <2>1 DEF Unpushed, PackageFiles
      <3>2. \A i \in Jobs \ {j} : Unpushed(i)' => Unpushed(i)
        BY <2>1 DEF Unpushed
      <3>3. QED
        BY <1>0, <2>1, <3>1, <3>2 DEF ResultsUnseen
    <2>5. ResultsCopied'
      BY <1>0, <2>1 DEF ResultsCopied
    <2>6. RequestKnown'
      BY <1>0, <2>1, <2>2 DEF RequestKnown, IsOpen
    <2>7. SuccessIsArmed'
      <3>1. pc'[j] = "succeeded" => Key(j) \in landed
        BY <2>1, NothingToCommit
      <3>2. QED
        BY <1>0, <2>1, <2>2, <3>1 DEF SuccessIsArmed, IsOpen
    <2>8. QED
      BY <2>3, <2>4, <2>5, <2>6, <2>7 DEF SettleInv
  <1>3. ASSUME NEW j \in Jobs, Checkout(j)
        PROVE  SettleInv'
    <2>1. /\ UNCHANGED <<kind, tag, branches, heads, requests, landed>>
          /\ \A i \in Jobs \ {j} : pc'[i] = pc[i] /\ from'[i] = from[i] /\ tree'[i] = tree[i]
          /\ from'[j] = branches["main"] /\ tree'[j] = branches["main"]
          /\ pc[j] = "checkout" /\ pc'[j] \in {"download", "copy"}
      BY <1>3, CheckoutDoes DEF SameKeys, SameElsewhere
    <2>2. \A i \in Jobs : Key(i)' = Key(i)
      BY <2>1 DEF Key
    <2>3. LandedOnly' /\ OwnVersion'
      BY <1>0, <2>1 DEF LandedOnly, OwnVersion
    <2>4. ResultsUnseen'
      <3>1. \A i \in Jobs : Unpushed(i)' => Unpushed(i)
        BY <2>1 DEF Unpushed
      <3>2. QED
        BY <1>0, <2>1, <3>1 DEF ResultsUnseen
    <2>5. ResultsCopied'
      BY <1>0, <2>1 DEF ResultsCopied
    <2>6. RequestKnown' /\ SuccessIsArmed'
      BY <1>0, <2>1, <2>2 DEF RequestKnown, SuccessIsArmed, IsOpen
    <2>7. QED
      BY <2>3, <2>4, <2>5, <2>6 DEF SettleInv
  <1>4. ASSUME NEW j \in Jobs, NEW file \in PackageFiles, Rewrite(j, file, After(file))
        PROVE  SettleInv'
    <2>1. /\ UNCHANGED <<kind, tag, branches, heads, requests, landed, from>>
          /\ \A i \in Jobs \ {j} : pc'[i] = pc[i] /\ tree'[i] = tree[i]
          /\ \A p \in Paths \ {file} : tree'[j][p] = tree[j][p]
          /\ tree'[j][file] \in {tree[j][file], tag[j]}
          /\ pc[j] = file /\ pc'[j] \in {"failed", After(file)}
      BY <1>4, RewriteDoes DEF SameKeys, SameElsewhere
    <2>2. /\ \A i \in Jobs : Key(i)' = Key(i)
          /\ After(file) \in PackageFiles \cup {"commit"} /\ kind[j] = "recipes"
      BY <1>0, <2>1 DEF Key, After, Stages, PackageFiles
    <2>3. LandedOnly'
      BY <1>0, <2>1 DEF LandedOnly
    <2>4. OwnVersion'
      <3>1. \A f \in PackageFiles : tree'[j][f] = tree[j][f] \/ tree'[j][f] = tag[j]
        BY <2>1 DEF Paths
      <3>2. QED
        BY <1>0, <2>1, <3>1 DEF OwnVersion
    <2>5. ResultsUnseen'
      <3>1. \A t \in Tags : tree'[j][t] = tree[j][t]
        BY <2>1, PublicationAssumption DEF Paths
      <3>2. \A i \in Jobs : Unpushed(i)' => Unpushed(i)
        BY <2>1 DEF Unpushed
      <3>3. QED
        BY <1>0, <2>1, <3>1, <3>2 DEF ResultsUnseen
    <2>6. ResultsCopied'
      BY <1>0, <2>1, <2>2 DEF ResultsCopied
    <2>7. RequestKnown' /\ SuccessIsArmed'
      BY <1>0, <2>1, <2>2 DEF RequestKnown, SuccessIsArmed, IsOpen, PackageFiles
    <2>8. QED
      BY <2>3, <2>4, <2>5, <2>6, <2>7 DEF SettleInv
  <1>5. ASSUME NEW j \in Jobs, CopyResults(j)
        PROVE  SettleInv'
    <2>1. /\ UNCHANGED <<kind, tag, branches, heads, requests, landed, from>>
          /\ \A i \in Jobs \ {j} : pc'[i] = pc[i] /\ tree'[i] = tree[i]
          /\ tag[j] \in Tags /\ tree'[j][tag[j]] = j
          /\ \A p \in Paths \ {tag[j]} : tree'[j][p] = tree[j][p]
          /\ pc[j] = "copy" /\ pc'[j] = "commit"
      BY <1>5, CopyDoes DEF SameKeys, SameElsewhere
    <2>2. \A i \in Jobs : Key(i)' = Key(i)
      BY <2>1 DEF Key
    <2>3. LandedOnly'
      BY <1>0, <2>1 DEF LandedOnly
    <2>4. OwnVersion'
      <3>1. \A f \in PackageFiles : tree'[j][f] = tree[j][f]
        BY <2>1, PublicationAssumption DEF Paths
      <3>2. QED
        BY <1>0, <2>1, <3>1 DEF OwnVersion
    <2>5. ResultsUnseen'
      <3>1. \A t \in Tags : tree'[j][t] = tree[j][t] \/ tree'[j][t] = j
        BY <2>1 DEF Paths
      <3>2. \A i \in Jobs : Unpushed(i)' => Unpushed(i)
        BY <2>1 DEF Unpushed
      <3>3. QED
        BY <1>0, <2>1, <3>1, <3>2 DEF ResultsUnseen
    <2>6. ResultsCopied'
      BY <1>0, <2>1 DEF ResultsCopied
    <2>7. RequestKnown' /\ SuccessIsArmed'
      BY <1>0, <2>1, <2>2 DEF RequestKnown, SuccessIsArmed, IsOpen
    <2>8. QED
      BY <2>3, <2>4, <2>5, <2>6, <2>7 DEF SettleInv
  <1>6. ASSUME NEW j \in Jobs, Push(j)
        PROVE  SettleInv'
    <2>1. /\ UNCHANGED <<kind, tag, branches, requests, landed, from, tree>>
          /\ \A i \in Jobs \ {j} : pc'[i] = pc[i]
          /\ Key(j) \in Proposals
          /\ heads'[Key(j)].tree = tree[j] /\ heads'[Key(j)].from = from[j]
          /\ \A k \in Proposals : k # Key(j) => heads'[k] = heads[k]
          /\ pc[j] = "push" /\ pc'[j] \in {"list", "create"}
      BY <1>6, PushDoes DEF SameKeys, SameElsewhere
    <2>2. \A i \in Jobs : Key(i)' = Key(i)
      BY <2>1 DEF Key
    <2>3. LandedOnly'
      BY <1>0, <2>1 DEF LandedOnly
    <2>4. OwnVersion'
      <3>1. Key(j)[2] = tag[j]
        BY DEF Key
      <3>2. QED
        BY <1>0, <2>1, <3>1 DEF OwnVersion
    <2>5. ResultsUnseen'
      <3>1. ~Unpushed(j)' /\ \A i \in Jobs \ {j} : Unpushed(i)' => Unpushed(i)
        BY <2>1 DEF Unpushed, PackageFiles
      <3>2. QED
        BY <1>0, <2>1, <3>1 DEF ResultsUnseen
    <2>6. ResultsCopied'
      BY <1>0, <2>1 DEF ResultsCopied
    <2>7. RequestKnown' /\ SuccessIsArmed'
      BY <1>0, <2>1, <2>2 DEF RequestKnown, SuccessIsArmed, IsOpen
    <2>8. QED
      BY <2>3, <2>4, <2>5, <2>6, <2>7 DEF SettleInv
  <1>7. ASSUME NEW j \in Jobs, CreateRequest(j) \/ ArmMerge(j)
        PROVE  SettleInv'
    <2>1. /\ UNCHANGED <<kind, tag, branches, heads, landed, from, tree>>
          /\ \A i \in Jobs \ {j} : pc'[i] = pc[i]
          /\ pc[j] \in {"create", "arm"} /\ pc'[j] \in {"arm", "failed", "succeeded"}
      BY <1>7, CreateDoes, ArmDoes DEF SameKeys, SameElsewhere
    <2>2. \A i \in Jobs : Key(i)' = Key(i)
      BY <2>1 DEF Key
    <2>3. LandedOnly' /\ OwnVersion'
      BY <1>0, <2>1 DEF LandedOnly, OwnVersion
    <2>4. ResultsUnseen'
      <3>1. ~Unpushed(j)' /\ \A i \in Jobs \ {j} : Unpushed(i)' => Unpushed(i)
        BY <2>1 DEF Unpushed, PackageFiles
      <3>2. QED
        BY <1>0, <2>1, <3>1 DEF ResultsUnseen
    <2>5. ResultsCopied'
      BY <1>0, <2>1 DEF ResultsCopied
    <2>6. /\ \A k \in Proposals : IsOpen(k) => IsOpen(k)'
          /\ \A k \in Proposals : IsOpen(k) /\ requests[k].auto => requests'[k].auto
          /\ pc'[j] = "arm" => IsOpen(Key(j))'
          /\ pc'[j] = "succeeded" => pc[j] = "arm" /\ requests'[Key(j)].auto
      <3>1. CASE CreateRequest(j)
        <4>1. Key(j)' = Key(j)
          BY <2>2
        <4>2. QED
          BY <3>1, <4>1, CreateDoes DEF IsOpen
      <3>2. CASE ArmMerge(j)
        BY <3>2, ArmDoes DEF IsOpen
      <3>3. QED
        BY <1>7, <3>1, <3>2
    <2>7. RequestKnown'
      <3>1. ASSUME NEW i \in Jobs, pc'[i] = "arm", i # j
            PROVE  Key(i) \in landed \/ IsOpen(Key(i))'
        <4>1. (Key(i) \in landed \/ IsOpen(Key(i))) /\ Key(i) \in Proposals
          BY <1>0, <2>1, <3>1 DEF RequestKnown
        <4>2. Key(i)' = Key(i)
          BY <2>2
        <4>3. QED
          BY <2>6, <4>1, <4>2 DEF IsOpen
      <3>2. QED
        BY <2>1, <2>2, <2>6, <3>1 DEF RequestKnown
    <2>8. SuccessIsArmed'
      <3>1. ASSUME NEW i \in Jobs, pc'[i] = "succeeded"
            PROVE  Key(i) \in landed \/ (IsOpen(Key(i))' /\ requests'[Key(i)].auto)
        <4>1. Key(i)' = Key(i)
          BY <2>2
        <4>2. CASE i = j
          BY <1>0, <2>6, <3>1, <4>1, <4>2 DEF RequestKnown, IsOpen
        <4>3. CASE i # j
          BY <1>0, <2>1, <2>6, <3>1, <4>1, <4>3 DEF SuccessIsArmed, IsOpen
        <4>4. QED
          BY <4>2, <4>3
      <3>2. QED
        BY <2>1, <2>2, <3>1 DEF SuccessIsArmed
    <2>9. QED
      BY <2>3, <2>4, <2>5, <2>7, <2>8 DEF SettleInv
  <1>8. ASSUME NEW k \in Proposals, MergeRequest(k)
        PROVE  SettleInv'
    <2>1. /\ UNCHANGED <<kind, tag, heads, pc, from, tree>>
          /\ \A i \in Proposals : i # k => requests'[i] = requests[i]
          /\ landed' = landed \cup {k}
          /\ Base(k) \in Branches /\ branches'[Base(k)] = Merged(k)
          /\ \A b \in Branches : b # Base(k) => branches'[b] = branches[b]
      BY <1>8, MergeDoes DEF SameKeys
    <2>2. \A i \in Jobs : Key(i)' = Key(i)
      BY <2>1 DEF Key
    <2>3. LandedOnly'
      <3>1. ASSUME NEW f \in PackageFiles, NEW t \in Tags, NEW b \in Branches, branches'[b][f] = t
            PROVE  <<"recipes", t>> \in landed'
        <4>1. CASE b = Base(k)
          BY <2>1, <3>1, <4>1, MergedHasLanded
        <4>2. CASE b # Base(k)
          BY <1>0, <2>1, <3>1, <4>2 DEF LandedOnly
        <4>3. QED
          BY <4>1, <4>2
      <3>2. QED
        BY <1>0, <2>1, <3>1 DEF LandedOnly
    <2>4. OwnVersion'
      BY <1>0, <2>1 DEF OwnVersion
    <2>5. ResultsUnseen'
      <3>1. \A t \in Tags : \/ Merged(k)[t] = branches[Base(k)][t]
                            \/ Merged(k)[t] = heads[k].tree[t]
        BY DEF Merged, Paths
      <3>2. \A i \in Jobs : Unpushed(i)' => Unpushed(i)
        BY <2>1 DEF Unpushed
      <3>3. QED
        BY <1>0, <2>1, <3>1, <3>2 DEF ResultsUnseen
    <2>6. ResultsCopied'
      BY <1>0, <2>1 DEF ResultsCopied
    <2>7. RequestKnown'
      BY <1>0, <2>1, <2>2 DEF RequestKnown, IsOpen
    <2>8. SuccessIsArmed'
      BY <1>0, <2>1, <2>2 DEF SuccessIsArmed, IsOpen
    <2>9. QED
      BY <2>3, <2>4, <2>5, <2>6, <2>7, <2>8 DEF SettleInv
  <1>9. CASE UNCHANGED vars
    <2>1. UNCHANGED <<kind, tag, branches, heads, requests, landed, pc, from, tree>>
      BY <1>9 DEF vars, github, job
    <2>2. \A i \in Jobs : Key(i)' = Key(i) /\ (Unpushed(i)' <=> Unpushed(i))
      BY <2>1 DEF Key, Unpushed
    <2>3. LandedOnly' /\ OwnVersion' /\ ResultsUnseen' /\ ResultsCopied'
      BY <1>0, <2>1, <2>2 DEF LandedOnly, OwnVersion, ResultsUnseen, ResultsCopied
    <2>4. RequestKnown' /\ SuccessIsArmed'
      BY <1>0, <2>1, <2>2 DEF RequestKnown, SuccessIsArmed, IsOpen
    <2>5. QED
      BY <2>3, <2>4 DEF SettleInv
  <1>10. QED
    <2>1. ASSUME NEW j \in Jobs, JobStep(j)
          PROVE  SettleInv'
      BY <1>1, <1>2, <1>3, <1>4, <1>5, <1>6, <1>7, <2>1, JobSteps
    <2>2. QED
      BY <1>8, <1>9, <2>1 DEF Next, Proposals

(* What is pushed for a tag is the job's whole work, and nothing is pushed *)
(* over it but the whole work of another run.                              *)
ProposesInv ==
    /\ \A k \in Proposals : IsOpen(k) => Proposes(k)
    /\ \A j \in Jobs : pc[j] \in {"list", "create", "arm"} => Proposes(Key(j))
    /\ \A j \in Jobs : kind[j] = "snapshot" /\ pc[j] \in {"commit", "push"} =>
          tree[j][tag[j]] = j

LEMMA ProposesInit == Init => ProposesInv
  BY DEF Init, ProposesInv, IsOpen, NoRequest, Proposals

(* A step that pushes nothing leaves every proposal as it is.              *)
LEMMA NothingPushed ==
  ASSUME UNCHANGED <<shape, heads>>
  PROVE  \A k : Proposes(k)' = Proposes(k)
  BY DEF Proposes

LEMMA PushProposes ==
  ASSUME Types, FilesInv, ProposesInv, NEW j \in Jobs, Push(j)
  PROVE  \A k \in Proposals : k = Key(j) \/ Proposes(k) => Proposes(k)'
  <1>1. /\ SameKeys /\ heads'[Key(j)].tree = tree[j] /\ pc[j] = "push"
        /\ \A k \in Proposals : k # Key(j) => heads'[k] = heads[k]
    BY PushDoes
  <1>2. Key(j)[1] = kind[j] /\ Key(j)[2] = tag[j] /\ kind[j] \in Kinds
    BY DEF Key, Types, JobTypes
  <1>3. ASSUME NEW k \in Proposals, k = Key(j)
        PROVE  Proposes(k)'
    <2>1. k[1] = kind[j] /\ k[2] = tag[j] /\ heads'[k].tree = tree[j] /\ shape' = shape
      BY <1>1, <1>2, <1>3 DEF SameKeys
    <2>2. kind[j] = "recipes" => \A f \in PackageFiles : shape[f] = "fits" => tree[j][f] = tag[j]
      BY <1>1 DEF FilesInv, WrittenSoFar, Passed
    <2>3. kind[j] = "snapshot" => tree[j][tag[j]] = j
      BY <1>1 DEF ProposesInv
    <2>4. QED
      BY <1>2, <2>1, <2>2, <2>3 DEF Proposes, Kinds
  <1>4. ASSUME NEW k \in Proposals, k # Key(j), Proposes(k)
        PROVE  Proposes(k)'
    <2>1. heads'[k] = heads[k] /\ shape' = shape
      BY <1>1, <1>4 DEF SameKeys
    <2>2. QED
      BY <1>4, <2>1 DEF Proposes
  <1>5. QED
    BY <1>3, <1>4

LEMMA ProposesStep ==
  ASSUME Types, FilesInv, ProposesInv, [Next]_vars
  PROVE  ProposesInv'
  <1>0. /\ \A i \in Jobs : pc[i] # "idle" => Key(i) \in Proposals
        /\ Stages
    BY KeyIsProposal DEF FilesInv
  <1>1. ASSUME NEW j \in Jobs, Start(j)
        PROVE  ProposesInv'
    <2>1. /\ pc'[j] \in {"checkout", "measure"}
          /\ \A i \in Jobs \ {j} : pc'[i] = pc[i] /\ kind'[i] = kind[i] /\ tag'[i] = tag[i]
          /\ UNCHANGED <<shape, heads, requests, tree>>
      BY <1>1, StartDoes
    <2>2. \A i \in Jobs \ {j} : Key(i)' = Key(i)
      BY <2>1 DEF Key
    <2>3. QED
      BY <2>1, <2>2, NothingPushed DEF ProposesInv, IsOpen
  <1>2. ASSUME NEW j \in Jobs,
               NetworkFails(j) \/ Download(j) \/ Measure(j) \/ Commit(j) \/ ListRequests(j)
        PROVE  ProposesInv'
    <2>1. /\ SameKeys /\ UNCHANGED <<heads, requests, tree>>
          /\ \A i \in Jobs \ {j} : pc'[i] = pc[i]
          /\ \/ pc'[j] \in {"failed", "CMakeLists.txt", "checkout", "succeeded"}
             \/ pc[j] = "commit" /\ pc'[j] = "push"
             \/ pc[j] = "list" /\ pc'[j] \in {"arm", "create"}
      BY <1>2, QuietStepDoes DEF SameElsewhere
    <2>2. \A i \in Jobs : Key(i)' = Key(i)
      BY <2>1 DEF Key, SameKeys
    <2>3. QED
      BY <2>1, <2>2, NothingPushed DEF ProposesInv, IsOpen, SameKeys
  <1>3. ASSUME NEW j \in Jobs, Checkout(j) \/ CopyResults(j)
        PROVE  ProposesInv'
    <2>1. /\ SameKeys /\ UNCHANGED <<heads, requests>>
          /\ \A i \in Jobs \ {j} : pc'[i] = pc[i] /\ tree'[i] = tree[i]
          /\ \/ pc'[j] \in {"download", "copy"}
             \/ pc'[j] = "commit" /\ tree'[j][tag[j]] = j
      BY <1>3, CheckoutDoes, CopyDoes DEF SameElsewhere
    <2>2. \A i \in Jobs : Key(i)' = Key(i)
      BY <2>1 DEF Key, SameKeys
    <2>3. QED
      BY <2>1, <2>2, NothingPushed DEF ProposesInv, IsOpen, SameKeys
  <1>4. ASSUME NEW j \in Jobs, NEW file \in PackageFiles, Rewrite(j, file, After(file))
        PROVE  ProposesInv'
    <2>1. /\ SameKeys /\ UNCHANGED <<heads, requests>> /\ pc[j] = file
          /\ \A i \in Jobs \ {j} : pc'[i] = pc[i] /\ tree'[i] = tree[i]
          /\ pc'[j] \in {"failed", After(file)}
      BY <1>4, RewriteDoes DEF SameElsewhere
    <2>2. /\ \A i \in Jobs : Key(i)' = Key(i)
          /\ After(file) \in PackageFiles \cup {"commit"} /\ kind[j] = "recipes"
      BY <1>0, <2>1 DEF Key, SameKeys, After, Stages, PackageFiles
    <2>3. QED
      BY <2>1, <2>2, NothingPushed DEF ProposesInv, IsOpen, SameKeys, PackageFiles
  <1>5. ASSUME NEW j \in Jobs, Push(j)
        PROVE  ProposesInv'
    <2>1. /\ SameKeys /\ UNCHANGED <<requests, tree>> /\ Key(j) \in Proposals
          /\ \A i \in Jobs \ {j} : pc'[i] = pc[i]
          /\ pc'[j] \in {"list", "create"}
      BY <1>5, PushDoes DEF SameElsewhere
    <2>2. \A i \in Jobs : Key(i)' = Key(i)
      BY <2>1 DEF Key, SameKeys
    <2>3. \A k \in Proposals : k = Key(j) \/ Proposes(k) => Proposes(k)'
      BY <1>5, PushProposes
    <2>4. \A k \in Proposals : IsOpen(k)' => Proposes(k)'
      BY <2>1, <2>3 DEF ProposesInv, IsOpen
    <2>5. ASSUME NEW i \in Jobs, pc'[i] \in {"list", "create", "arm"}
          PROVE  Proposes(Key(i))'
      <3>1. Key(i) \in Proposals /\ (i = j \/ Proposes(Key(i)))
        BY <1>0, <2>1, <2>5 DEF ProposesInv
      <3>2. PICK k \in Proposals : k = Key(i)
        BY <3>1
      <3>3. Proposes(k)'
        BY <2>3, <3>1, <3>2
      <3>4. k = Key(i)'
        BY <2>2, <3>2
      <3>5. QED
        BY <3>3, <3>4 DEF Proposes
    <2>6. QED
      BY <2>1, <2>4, <2>5 DEF ProposesInv, SameKeys
  <1>6. ASSUME NEW j \in Jobs, CreateRequest(j) \/ ArmMerge(j)
        PROVE  ProposesInv'
    <2>1. /\ SameKeys /\ UNCHANGED <<heads, tree>>
          /\ \A i \in Jobs \ {j} : pc'[i] = pc[i]
          /\ pc[j] \in {"create", "arm"} /\ pc'[j] \in {"arm", "failed", "succeeded"}
      BY <1>6, CreateDoes, ArmDoes DEF SameElsewhere
    <2>2. \A i \in Jobs : Key(i)' = Key(i)
      BY <2>1 DEF Key, SameKeys
    <2>3. ASSUME NEW k \in Proposals, IsOpen(k)' PROVE Proposes(k)
      <3>1. k = Key(j) \/ IsOpen(k)
        BY <1>6, <2>3, CreateDoes, ArmDoes DEF IsOpen
      <3>2. QED
        BY <2>1, <3>1 DEF ProposesInv
    <2>4. QED
      BY <2>1, <2>2, <2>3, NothingPushed DEF ProposesInv, SameKeys
  <1>7. ASSUME NEW k \in Proposals, MergeRequest(k)
        PROVE  ProposesInv'
    <2>1. /\ SameKeys /\ UNCHANGED <<heads, pc, tree>>
          /\ \A i \in Proposals : IsOpen(i)' => IsOpen(i)
      BY <1>7, MergeDoes DEF IsOpen
    <2>2. \A i \in Jobs : Key(i)' = Key(i)
      BY <2>1 DEF Key, SameKeys
    <2>3. QED
      BY <2>1, <2>2, NothingPushed DEF ProposesInv, SameKeys
  <1>8. CASE UNCHANGED vars
    <2>1. UNCHANGED <<shape, kind, tag, heads, requests, pc, tree>>
      BY <1>8 DEF vars, github, job
    <2>2. \A i \in Jobs : Key(i)' = Key(i)
      BY <2>1 DEF Key
    <2>3. QED
      BY <2>1, <2>2, NothingPushed DEF ProposesInv, IsOpen
  <1>9. QED
    <2>1. ASSUME NEW j \in Jobs, JobStep(j)
          PROVE  ProposesInv'
      BY <1>1, <1>2, <1>3, <1>4, <1>5, <1>6, <2>1, JobSteps
    <2>2. QED
      BY <1>7, <1>8, <2>1 DEF Next, Proposals

(* A job that ended well has had its commit merged, or leaves an open      *)
(* request that is armed and proposes the tag's own files: no order of     *)
(* reruns, failures and merges leaves it without its request, with the     *)
(* request unarmed, or with somebody else's or half-made files in it.      *)
THEOREM SuccessIsSettled == Spec => []SuccessSettlesTag
  <1>1. Spec => [](Types /\ SettleInv /\ ProposesInv)
    BY SettleInit, SettleStep, ProposesInit, ProposesStep, FilesAlways, PTL DEF Spec
  <1>2. Types /\ SettleInv /\ ProposesInv => SuccessSettlesTag
    <2> SUFFICES ASSUME Types, SettleInv, ProposesInv, NEW j \in Jobs, pc[j] = "succeeded"
                 PROVE  \/ Key(j) \in landed
                        \/ IsOpen(Key(j)) /\ requests[Key(j)].auto /\ Proposes(Key(j))
      BY DEF SuccessSettlesTag
    <2>1. Key(j) \in Proposals
      BY KeyIsProposal
    <2>2. Key(j) \in landed \/ (IsOpen(Key(j)) /\ requests[Key(j)].auto)
      BY DEF SettleInv, SuccessIsArmed
    <2>3. QED
      BY <2>1, <2>2 DEF ProposesInv
  <1>3. QED
    BY <1>1, <1>2, PTL

-----------------------------------------------------------------------------
(* A rerun and the request of the run before.                              *)

(* A job that is alone has its proposal to itself.                         *)
AloneIsAlone ==
    \A j \in Jobs : alone[j] /\ ~Over(j) =>
       \A i \in Jobs \ {j} : ~Over(i) => Key(i) # Key(j)

RerunInv ==
    /\ AloneIsAlone
    /\ \A j \in Jobs : pc[j] = "create" /\ kind[j] = "recipes" /\ alone[j] => ~IsOpen(Key(j))
    /\ \A j \in Jobs : pc[j] = "idle" => why[j] = "nothing"
    /\ RerunToleratesOpenRequest

LEMMA RerunInit == Init => RerunInv
  BY DEF Init, RerunInv, AloneIsAlone, Over, RerunToleratesOpenRequest

(* Only a start can end a job's being alone.                               *)
LEMMA StillAlone ==
  ASSUME AloneIsAlone, UNCHANGED <<kind, tag, alone>>, \A i \in Jobs : Over(i) => Over(i)'
  PROVE  AloneIsAlone'
  <1>1. \A i \in Jobs : Key(i)' = Key(i)
    BY DEF Key
  <1>2. QED
    BY <1>1 DEF AloneIsAlone

LEMMA RerunStep ==
  ASSUME Types, RerunInv, [Next]_vars
  PROVE  RerunInv'
  <1>0. /\ AloneIsAlone /\ RerunToleratesOpenRequest
        /\ \A i \in Jobs : pc[i] = "create" /\ kind[i] = "recipes" /\ alone[i] => ~IsOpen(Key(i))
        /\ \A i \in Jobs : pc[i] = "idle" => why[i] = "nothing"
        /\ \A i \in Jobs : pc[i] # "idle" => Key(i) \in Proposals
    BY KeyIsProposal DEF RerunInv
  <1>1. ASSUME NEW j \in Jobs, Start(j)
        PROVE  RerunInv'
    <2>1. /\ pc[j] = "idle" /\ pc'[j] \in {"checkout", "measure"}
          /\ \A i \in Jobs \ {j} : pc'[i] = pc[i] /\ kind'[i] = kind[i] /\ tag'[i] = tag[i]
          /\ UNCHANGED <<requests, why>>
          /\ \A i \in Jobs \ {j} :
                /\ alone'[i] => alone[i]
                /\ ~Over(i) /\ Key(i) = <<kind'[j], tag'[j]>> => ~alone'[i] /\ ~alone'[j]
      BY <1>1, StartDoes
    <2>2. /\ \A i \in Jobs \ {j} : (Over(i)' <=> Over(i)) /\ Key(i)' = Key(i)
          /\ Key(j)' = <<kind'[j], tag'[j]>>
      BY <2>1 DEF Over, Key
    <2>3. AloneIsAlone'
      <3>1. ASSUME NEW i \in Jobs, alone'[i], ~Over(i)', NEW m \in Jobs \ {i}, ~Over(m)'
            PROVE  Key(m)' # Key(i)'
        <4>1. CASE i = j
          BY <2>1, <2>2, <3>1, <4>1
        <4>2. CASE m = j
          BY <2>1, <2>2, <3>1, <4>2
        <4>3. CASE i # j /\ m # j
          BY <1>0, <2>1, <2>2, <3>1, <4>3 DEF AloneIsAlone
        <4>4. QED
          BY <4>1, <4>2, <4>3
      <3>2. QED
        BY <3>1 DEF AloneIsAlone
    <2>4. \A i \in Jobs : (pc[i] = "create" /\ kind[i] = "recipes" /\ alone[i] => ~IsOpen(Key(i)))'
      BY <1>0, <2>1, <2>2 DEF IsOpen
    <2>5. RerunToleratesOpenRequest' /\ \A i \in Jobs : (pc[i] = "idle" => why[i] = "nothing")'
      BY <1>0, <2>1 DEF RerunToleratesOpenRequest
    <2>6. QED
      BY <2>3, <2>4, <2>5 DEF RerunInv
  <1>2. ASSUME NEW j \in Jobs, ~Over(j), SameElsewhere(j), UNCHANGED <<kind, tag, alone>>,
               pc'[j] # "idle",
               kind[j] = "recipes" /\ alone[j] => why'[j] # "exists" \/ why'[j] = why[j],
               \A i \in Jobs : pc'[i] = "create" /\ kind[i] = "recipes" /\ alone[i]
                               => ~IsOpen(Key(i))'
        PROVE  RerunInv'
    <2>1. \A i \in Jobs : Over(i) => Over(i)'
      BY <1>2 DEF Over, SameElsewhere
    <2>2. AloneIsAlone'
      BY <1>0, <1>2, <2>1, StillAlone
    <2>3. RerunToleratesOpenRequest' /\ \A i \in Jobs : (pc[i] = "idle" => why[i] = "nothing")'
      BY <1>0, <1>2 DEF RerunToleratesOpenRequest, SameElsewhere
    <2>4. \A i \in Jobs : (pc[i] = "create" /\ kind[i] = "recipes" /\ alone[i] => ~IsOpen(Key(i)))'
      BY <1>2 DEF IsOpen, Key
    <2>5. QED
      BY <2>2, <2>3, <2>4 DEF RerunInv
  <1>3. ASSUME NEW j \in Jobs,
               \/ NetworkFails(j) \/ Download(j) \/ Measure(j) \/ Commit(j) \/ ListRequests(j)
               \/ Checkout(j) \/ CopyResults(j) \/ Push(j)
               \/ \E file \in PackageFiles : Rewrite(j, file, After(file))
        PROVE  RerunInv'
    <2>1. /\ SameKeys /\ SameElsewhere(j) /\ UNCHANGED <<alone, requests>>
          /\ why'[j] # "exists" \/ why'[j] = why[j]
          /\ pc'[j] # "idle"
          /\ ~Over(j)
      <3>1. CASE NetworkFails(j) \/ Download(j) \/ Measure(j) \/ Commit(j) \/ ListRequests(j)
        BY <3>1, QuietStepDoes DEF Over
      <3>2. CASE Checkout(j) \/ CopyResults(j) \/ Push(j)
        BY <3>2, CheckoutDoes, CopyDoes, PushDoes DEF Over
      <3>3. CASE \E file \in PackageFiles : Rewrite(j, file, After(file))
        <4>1. PICK file \in PackageFiles : Rewrite(j, file, After(file))
          BY <3>3
        <4>2. After(file) \notin {"idle", "succeeded", "failed"}
          BY DEF After
        <4>3. QED
          BY <4>1, <4>2, RewriteDoes DEF Over, PackageFiles
      <3>4. QED
        BY <1>3, <3>1, <3>2, <3>3
    <2>2. \A i \in Jobs : Key(i)' = Key(i) /\ (IsOpen(Key(i))' <=> IsOpen(Key(i)))
      BY <2>1 DEF SameKeys, Key, IsOpen
    <2>3. pc'[j] = "create" /\ kind[j] = "recipes" => ~IsOpen(Key(j))
      <3>1. CASE NetworkFails(j) \/ Download(j) \/ Measure(j) \/ Commit(j) \/ ListRequests(j)
        BY <3>1, QuietStepDoes
      <3>2. CASE Checkout(j) \/ CopyResults(j) \/ Push(j)
        BY <3>2, CheckoutDoes, CopyDoes, PushDoes
      <3>3. CASE \E file \in PackageFiles : Rewrite(j, file, After(file))
        <4>1. PICK file \in PackageFiles : Rewrite(j, file, After(file))
          BY <3>3
        <4>2. After(file) # "create"
          BY DEF After
        <4>3. QED
          BY <4>1, <4>2, RewriteDoes
      <3>4. QED
        BY <1>3, <3>1, <3>2, <3>3
    <2>4. QED
      BY <1>0, <1>2, <2>1, <2>2, <2>3 DEF SameKeys, SameElsewhere
  <1>4. ASSUME NEW j \in Jobs, CreateRequest(j)
        PROVE  RerunInv'
    <2>1. /\ SameKeys /\ SameElsewhere(j) /\ UNCHANGED alone /\ Key(j) \in Proposals
          /\ pc[j] = "create" /\ pc'[j] \in {"arm", "failed"} /\ ~Over(j)
          /\ \/ ~IsOpen(Key(j)) /\ why'[j] = why[j]
             \/ IsOpen(Key(j))
          /\ \A k \in Proposals : k # Key(j) => requests'[k] = requests[k]
      BY <1>4, CreateDoes DEF Over
    <2>2. kind[j] = "recipes" /\ alone[j] => why'[j] = why[j]
      BY <1>0, <2>1
    <2>3. ASSUME NEW i \in Jobs, pc'[i] = "create", kind[i] = "recipes", alone[i]
          PROVE  ~IsOpen(Key(i))'
      <3>1. i # j /\ pc[i] = "create"
        BY <2>1, <2>3 DEF SameElsewhere
      <3>2. Key(i) # Key(j) /\ Key(i) \in Proposals
        BY <1>0, <2>1, <2>3, <3>1 DEF AloneIsAlone, Over
      <3>3. Key(i)' = Key(i)
        BY <2>1 DEF SameKeys, Key
      <3>4. QED
        BY <1>0, <2>1, <2>3, <3>1, <3>2, <3>3 DEF IsOpen
    <2>4. QED
      BY <1>2, <2>1, <2>2, <2>3 DEF SameKeys
  <1>5. ASSUME NEW j \in Jobs, ArmMerge(j)
        PROVE  RerunInv'
    <2>1. /\ SameKeys /\ SameElsewhere(j) /\ UNCHANGED <<alone, why>> /\ Key(j) \in Proposals
          /\ pc[j] = "arm" /\ pc'[j] = "succeeded" /\ ~Over(j)
          /\ \A k \in Proposals : requests'[k].state = requests[k].state
      BY <1>5, ArmDoes DEF Over
    <2>2. \A i \in Jobs : Key(i)' = Key(i)
      BY <2>1 DEF SameKeys, Key
    <2>3. \A i \in Jobs : pc'[i] = "create" /\ kind[i] = "recipes" /\ alone[i] => ~IsOpen(Key(i))'
      BY <1>0, <2>1, <2>2 DEF SameElsewhere, IsOpen
    <2>4. QED
      BY <1>2, <2>1, <2>3 DEF SameKeys
  <1>6. ASSUME NEW k \in Proposals, MergeRequest(k)
        PROVE  RerunInv'
    <2>1. /\ UNCHANGED <<kind, tag, pc, alone, why>>
          /\ \A i \in Proposals : requests'[i].state = "open" => requests[i].state = "open"
      BY <1>6, MergeDoes DEF SameKeys
    <2>2. \A i \in Jobs : Key(i)' = Key(i) /\ (Over(i)' <=> Over(i))
      BY <2>1 DEF Key, Over
    <2>3. AloneIsAlone'
      BY <1>0, <2>1, <2>2, StillAlone
    <2>4. QED
      BY <1>0, <2>1, <2>2, <2>3 DEF RerunInv, RerunToleratesOpenRequest, IsOpen
  <1>7. CASE UNCHANGED vars
    <2>1. UNCHANGED <<kind, tag, pc, alone, why, requests>>
      BY <1>7 DEF vars, github, job, history
    <2>2. \A i \in Jobs : Key(i)' = Key(i) /\ (Over(i)' <=> Over(i))
      BY <2>1 DEF Key, Over
    <2>3. AloneIsAlone'
      BY <1>0, <2>1, <2>2, StillAlone
    <2>4. QED
      BY <1>0, <2>1, <2>2, <2>3 DEF RerunInv, RerunToleratesOpenRequest, IsOpen
  <1>8. QED
    <2>1. ASSUME NEW j \in Jobs, JobStep(j)
          PROVE  RerunInv'
      BY <1>1, <1>3, <1>4, <1>5, <2>1, JobSteps
    <2>2. QED
      BY <1>6, <1>7, <2>1 DEF Next, Proposals

(* A rerun of update.yml that no other run for its tag overlaps never ends *)
(* because the request of an earlier run is still open.                    *)
THEOREM RerunIsTolerated == Spec => []RerunToleratesOpenRequest
  <1>1. Spec => []RerunInv
    BY RerunInit, RerunStep, TypesAlways, PTL DEF Spec
  <1>2. RerunInv => RerunToleratesOpenRequest
    BY DEF RerunInv
  <1>3. QED
    BY <1>1, <1>2, PTL
=============================================================================
