---------------------------- MODULE Publication ----------------------------
(***************************************************************************)
(* What a v* tag sets off in the repository: update.yml rewrites the       *)
(* package files with scripts/update_package_files.py, benchmark.yml adds  *)
(* a baseline folder, and each proposes its commit in a pull request that  *)
(* GitHub merges on its own.  Jobs for several tags, and a rerun beside    *)
(* the run it repeats, overlap; any call over the network may fail, and    *)
(* with it the job.                                                        *)
(*                                                                         *)
(* A package file is known by the tag whose version, commit or hash it     *)
(* holds, a baseline folder by the job that measured it.                   *)
(***************************************************************************)
EXTENDS Integers, Sequences

CONSTANTS
    Jobs,           (* bound on the runs of the two jobs, reruns included  *)
    Tags,
    BaseOf,         (* tag -> the branch update.yml finds the tag on       *)
    Shapes          (* what the package files may look like to the script  *)

PackageFiles == {"CMakeLists.txt", "conanfile.py", "conandata.yml", "portfile.cmake", "vcpkg.json"}
Paths        == PackageFiles \cup Tags      \* a tag stands for its baseline folder
Branches     == {"main"} \cup {BaseOf[t] : t \in Tags}
Kinds        == {"recipes", "snapshot"}

(* The repository's state when the tags are pushed.                        *)
Old == "old"

ASSUME PublicationAssumption ==
    /\ Old \notin Tags \cup Jobs /\ Tags \cap PackageFiles = {}
    /\ Shapes \subseteq [PackageFiles -> {"fits", "refused", "no field"}]
    /\ \A s \in Shapes : s["conandata.yml"] = "fits"    \* written anew each time

VARIABLES
    shape,
    branches,       (* branch -> path -> content                           *)
    heads,          (* <<kind, tag>> -> what the job last pushed           *)
    requests,       (* <<kind, tag>> -> its pull request                   *)
    landed,         (* history: the <<kind, tag>> that were merged         *)
    pc, kind, tag,  (* of each job                                         *)
    from, tree,     (* main when it was checked out, and the working tree  *)
    sawOpen,        (* the answer of gh pr list                            *)
    alone,          (* history: no other job for the same thing overlapped *)
    why             (* history: what ended a failed job                    *)

github  == <<branches, heads, requests, landed>>
job     == <<kind, tag, from, tree>>
history == <<alone, why>>
vars    == <<shape, github, pc, job, sawOpen, history>>

OldTree == [p \in Paths |-> Old]
NoHead  == [tree |-> OldTree, from |-> OldTree]
NoRequest == [state |-> "none", auto |-> FALSE]

Init ==
    /\ shape \in Shapes
    /\ branches = [b \in Branches |-> OldTree]
    /\ heads    = [k \in Kinds \X Tags |-> NoHead]
    /\ requests = [k \in Kinds \X Tags |-> NoRequest]
    /\ landed = {}
    /\ pc   = [j \in Jobs |-> "idle"]
    /\ kind = [j \in Jobs |-> "recipes"]
    /\ tag  = [j \in Jobs |-> Old]
    /\ from = [j \in Jobs |-> OldTree]
    /\ tree = [j \in Jobs |-> OldTree]
    /\ sawOpen = [j \in Jobs |-> FALSE]
    /\ alone   = [j \in Jobs |-> TRUE]
    /\ why     = [j \in Jobs |-> "nothing"]

Key(j)     == <<kind[j], tag[j]>>
Base(k)    == IF k[1] = "recipes" THEN BaseOf[k[2]] ELSE "main"
Over(j)    == pc[j] \in {"idle", "succeeded", "failed"}
Goto(j, l) == pc' = [pc EXCEPT ![j] = l]

Fails(j, reason) == /\ Goto(j, "failed")
                    /\ why' = [why EXCEPT ![j] = reason]

(* A job starts for a pushed tag, or is dispatched or run again by hand.   *)
Start(j) ==
    /\ pc[j] = "idle"
    /\ \E k \in Kinds, t \in Tags :
          LET rivals == {i \in Jobs : ~Over(i) /\ Key(i) = <<k, t>>} IN
          /\ kind' = [kind EXCEPT ![j] = k]
          /\ tag' = [tag EXCEPT ![j] = t]
          /\ alone' = [i \in Jobs |-> IF i = j THEN rivals = {} ELSE alone[i] /\ i \notin rivals]
          /\ Goto(j, IF k = "recipes" THEN "checkout" ELSE "measure")
    /\ UNCHANGED <<shape, github, from, tree, sawOpen, why>>

(* A step that needs the network, git or a download fails; the shell stops *)
(* at the first command that does (bash -e).                               *)
NetworkFails(j) ==
    /\ pc[j] \in {"checkout", "download", "push", "list", "create", "arm"}
    /\ Fails(j, "network")
    /\ UNCHANGED <<shape, github, job, sawOpen, alone>>

-----------------------------------------------------------------------------
(* update.yml                                                              *)

(* Mutant of Checkout: the files of the tag, on a branch cut from main.    *)
CheckoutTag(j) ==
    /\ pc[j] = "checkout"
    /\ from' = [from EXCEPT ![j] = branches["main"]]
    /\ tree' = [tree EXCEPT ![j] = OldTree]
    /\ Goto(j, IF kind[j] = "recipes" THEN "download" ELSE "copy")
    /\ UNCHANGED <<shape, github, kind, tag, sawOpen, history>>

(* The default branch, whatever branch the tag is on.                      *)
Checkout(j) ==
    /\ pc[j] = "checkout"
    /\ from' = [from EXCEPT ![j] = branches["main"]]
    /\ tree' = [tree EXCEPT ![j] = branches["main"]]
    /\ Goto(j, IF kind[j] = "recipes" THEN "download" ELSE "copy")
    /\ UNCHANGED <<shape, github, kind, tag, sawOpen, history>>

(* The tag's branch, its archive and that of its submodule.                *)
Download(j) ==
    /\ pc[j] = "download"
    /\ Goto(j, "CMakeLists.txt")
    /\ UNCHANGED <<shape, github, job, sawOpen, history>>

(* One file of the script: read, rewritten in memory and written back.     *)
(* sys.exit() and an exception come before the write.  Where re.sub() does *)
(* not find the field, the file is written back as it was.                 *)
Rewrite(j, file, after) ==
    /\ pc[j] = file
    /\ \/ /\ shape[file] = "refused"
          /\ Fails(j, "script")
          /\ UNCHANGED tree
       \/ /\ shape[file] # "refused"
          /\ tree' = IF shape[file] = "fits" THEN [tree EXCEPT ![j][file] = tag[j]] ELSE tree
          /\ Goto(j, after)
          /\ UNCHANGED why
    /\ UNCHANGED <<shape, github, kind, tag, from, sawOpen, alone>>

(* Mutant of RewritePortfile: a failing script does not stop the job.      *)
RewritePortfileAnyway(j) ==
    /\ pc[j] = "portfile.cmake"
    /\ tree' = IF shape["portfile.cmake"] = "fits" THEN [tree EXCEPT ![j]["portfile.cmake"] = tag[j]]
               ELSE tree
    /\ Goto(j, IF shape["portfile.cmake"] = "fits" THEN "vcpkg.json" ELSE "commit")
    /\ UNCHANGED <<shape, github, kind, tag, from, sawOpen, history>>

RewriteCMakeLists(j) == Rewrite(j, "CMakeLists.txt", "conanfile.py")
RewriteConanfile(j)  == Rewrite(j, "conanfile.py", "conandata.yml")
RewriteConandata(j)  == Rewrite(j, "conandata.yml", "portfile.cmake")
RewritePortfile(j)   == Rewrite(j, "portfile.cmake", "vcpkg.json")
RewriteVcpkg(j)      == Rewrite(j, "vcpkg.json", "commit")

-----------------------------------------------------------------------------
(* The snapshot step of benchmark.yml.                                     *)

(* The benchmarks may fail without ending the job, but without their       *)
(* results the copy that follows does.                                     *)
Measure(j) ==
    /\ pc[j] = "measure"
    /\ \/ Goto(j, "checkout") /\ UNCHANGED why
       \/ Fails(j, "no results")
    /\ UNCHANGED <<shape, github, job, sawOpen, alone>>

CopyResults(j) ==
    /\ pc[j] = "copy"
    /\ tree' = [tree EXCEPT ![j][tag[j]] = j]
    /\ Goto(j, "commit")
    /\ UNCHANGED <<shape, github, kind, tag, from, sawOpen, history>>

-----------------------------------------------------------------------------
(* The end of either job: commit, push, pull request.                      *)

Commit(j) ==
    /\ pc[j] = "commit"
    /\ Goto(j, IF tree[j] = from[j] THEN "succeeded" ELSE "push")
    /\ UNCHANGED <<shape, github, job, sawOpen, history>>

(* The branch of the tag is overwritten.                                   *)
Push(j) ==
    /\ pc[j] = "push"
    /\ heads' = [heads EXCEPT ![Key(j)] = [tree |-> tree[j], from |-> from[j]]]
    /\ Goto(j, IF kind[j] = "recipes" THEN "list" ELSE "create")
    /\ UNCHANGED <<shape, branches, requests, landed, job, sawOpen, history>>

IsOpen(k) == requests[k].state = "open"

(* Mutant of ListRequests: nobody looks whether there is one.              *)
ListNothing(j) ==
    /\ pc[j] = "list"
    /\ Goto(j, "create")
    /\ UNCHANGED <<shape, github, job, sawOpen, history>>

(* gh pr list; update.yml only.                                            *)
ListRequests(j) ==
    /\ pc[j] = "list"
    /\ sawOpen' = [sawOpen EXCEPT ![j] = IsOpen(Key(j))]
    /\ Goto(j, IF sawOpen'[j] THEN "arm" ELSE "create")
    /\ UNCHANGED <<shape, github, job, history>>

(* gh pr create refuses a second request for the same branch.              *)
CreateRequest(j) ==
    /\ pc[j] = "create"
    /\ \/ /\ ~IsOpen(Key(j))
          /\ requests' = [requests EXCEPT ![Key(j)] = [state |-> "open", auto |-> FALSE]]
          /\ Goto(j, "arm")
          /\ UNCHANGED why
       \/ /\ IsOpen(Key(j))
          /\ Fails(j, "exists")
          /\ UNCHANGED requests
    /\ UNCHANGED <<shape, branches, heads, landed, job, sawOpen, alone>>

(* Mutant of ArmMerge: only a request this job has created is armed.       *)
ArmOwnOnly(j) ==
    /\ pc[j] = "arm"
    /\ requests' = IF sawOpen[j] THEN requests ELSE [requests EXCEPT ![Key(j)].auto = TRUE]
    /\ Goto(j, "succeeded")
    /\ UNCHANGED <<shape, branches, heads, landed, job, sawOpen, history>>

(* gh pr merge --auto; a request that has been merged stays as it is.      *)
ArmMerge(j) ==
    /\ pc[j] = "arm"
    /\ requests' = [requests EXCEPT ![Key(j)].auto = TRUE]
    /\ Goto(j, "succeeded")
    /\ UNCHANGED <<shape, branches, heads, landed, job, sawOpen, history>>

-----------------------------------------------------------------------------
(* GitHub merges an armed request once its checks have passed, unless a    *)
(* file was changed on both sides.                                         *)

(* The version the two sides have in common: squashed commits leave no     *)
(* trace in main's history that another branch would share.                *)
Ancestor(k) == IF Base(k) = "main" THEN heads[k].from ELSE OldTree

Conflicts(k, p) ==
    LET ours == branches[Base(k)][p]  theirs == heads[k].tree[p] IN
    ours # Ancestor(k)[p] /\ theirs # Ancestor(k)[p] /\ ours # theirs

Merged(k) == [p \in Paths |-> IF heads[k].tree[p] = Ancestor(k)[p]
                              THEN branches[Base(k)][p] ELSE heads[k].tree[p]]

MergeRequest(k) ==
    /\ IsOpen(k) /\ requests[k].auto
    /\ \A p \in Paths : ~Conflicts(k, p)
    /\ branches' = [branches EXCEPT ![Base(k)] = Merged(k)]
    /\ requests' = [requests EXCEPT ![k].state = "merged"]
    /\ landed' = landed \cup {k}
    /\ UNCHANGED <<shape, heads, pc, job, sawOpen, history>>

JobStep(j) ==
    \/ Start(j) \/ NetworkFails(j)
    \/ Checkout(j) \/ Download(j)
    \/ RewriteCMakeLists(j) \/ RewriteConanfile(j) \/ RewriteConandata(j)
    \/ RewritePortfile(j) \/ RewriteVcpkg(j)
    \/ Measure(j) \/ CopyResults(j)
    \/ Commit(j) \/ Push(j) \/ ListRequests(j) \/ CreateRequest(j) \/ ArmMerge(j)

Next == \/ \E j \in Jobs : JobStep(j)
        \/ \E k \in Kinds \X Tags : MergeRequest(k)

Spec == Init /\ [][Next]_vars

-----------------------------------------------------------------------------

OwnPaths(k) == IF k[1] = "recipes" THEN PackageFiles ELSE {k[2]}

(* The commit pushed for k holds what k is for: an update its tag, in each *)
(* file that fits, a snapshot the results of a run for its version.        *)
Proposes(k) ==
    IF k[1] = "recipes"
    THEN \A f \in PackageFiles : shape[f] = "fits" => heads[k].tree[f] = k[2]
    ELSE heads[k].tree[k[2]] \in Jobs

Agree(files) ==
    \E v \in Tags \cup {Old} : \A f \in PackageFiles : shape[f] # "no field" => files[f] = v

(* The package files change together: on every branch, and in every        *)
(* proposal, those that have the field the script looks for belong to one  *)
(* and the same tag -- also when the script gave up halfway, and when jobs *)
(* for several tags of a branch overlap and their commits are merged in    *)
(* any order.  A file without its field is left behind, and nothing is     *)
(* said of it.                                                             *)
PackageFilesAgree ==
    /\ \A b \in Branches : Agree(branches[b])
    /\ \A t \in Tags : Agree(heads[<<"recipes", t>>].tree)

(* "A PR from a previous run for this tag may still be open": a rerun of   *)
(* update.yml that no other run for its tag overlaps is not stopped by it. *)
RerunToleratesOpenRequest ==
    \A j \in Jobs : kind[j] = "recipes" /\ alone[j] => why[j] # "exists"

(* A job that ended well leaves nothing to be done by hand for its tag,    *)
(* also if it was the rerun of one that stopped anywhere before: the       *)
(* commit has been merged, or a request for it is open, proposes the tag's *)
(* own files and is armed.  GitHub may yet refuse to merge it: see below.  *)
SuccessSettlesTag ==
    \A j \in Jobs :
       pc[j] = "succeeded" =>
          \/ Key(j) \in landed
          \/ IsOpen(Key(j)) /\ requests[Key(j)].auto /\ Proposes(Key(j))

(* An armed request against main that cannot be merged has been overtaken: *)
(* it conflicts in nothing but its own files, and with what a request of   *)
(* the same kind brought in -- for an update, that of another tag.         *)
OnlyOvertakenIsStuck ==
    \A k \in Kinds \X Tags : \A p \in Paths :
       IsOpen(k) /\ requests[k].auto /\ Base(k) = "main" /\ Conflicts(k, p) =>
          \E m \in landed : /\ m[1] = k[1] /\ Base(m) = "main"
                            /\ p \in OwnPaths(k) \cap OwnPaths(m)
                            /\ k[1] = "recipes" => m # k

(* A merge into main brings in what its job has made and takes back        *)
(* nothing that others have merged since the job's checkout: of an update  *)
(* the package files, of a snapshot the folder of its own version.         *)
MergesBringOwnFiles ==
    [][\A k \in Kinds \X Tags :
          /\ requests[k].state = "open" /\ requests'[k].state = "merged"
          /\ Base(k) = "main"
          => \A p \in Paths :
                branches'["main"][p] # branches["main"][p] => p \in OwnPaths(k)]_vars
=============================================================================
