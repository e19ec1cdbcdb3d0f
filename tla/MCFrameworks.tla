---------------------------- MODULE MCFrameworks ----------------------------
(* Two suites in one directory and one in another.                         *)
EXTENDS Frameworks

MCCategoryOf == [f \in Files |-> IF f = "construction" THEN "lifecycle" ELSE "scaling"]
MCLetterOf   == [c \in Categories |-> IF c = "lifecycle" THEN "L" ELSE "S"]
MCTestsIn    == [f \in Files |-> IF f = "eviction" THEN 2 ELSE 1]
MCTimings    == {<<1, 2>>, <<2, 1>>, <<2, 0>>}
=============================================================================
