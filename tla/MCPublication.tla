--------------------------- MODULE MCPublication ---------------------------
(* Tags on main, whose files meet there, and tags on a release branch; a   *)
(* package whose files are as the script expects them or off in one place. *)
EXTENDS Publication, TLC

CONSTANT OnRelease

MCBaseOf == [t \in Tags |-> IF t \in OnRelease THEN "release" ELSE "main"]

Fitting      == [f \in PackageFiles |-> "fits"]
Off(file, s) == [Fitting EXCEPT ![file] = s]
MCShapes     == {Fitting, Off("CMakeLists.txt", "refused"), Off("portfile.cmake", "refused"),
                 Off("conanfile.py", "no field")}

(* Runs of the jobs, and the tags of one branch, differ in nothing but     *)
(* their names.                                                            *)
NameSymmetry == Permutations(Jobs) \cup Permutations(Tags \ OnRelease)
=============================================================================
