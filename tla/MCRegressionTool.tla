-------------------------- MODULE MCRegressionTool --------------------------
(* RegressionTool on small instances; the .cfg files choose which.         *)
EXTENDS RegressionTool

Spelt(v, numbers, more, rank) ==
    [v |-> v, numbers |-> numbers, more |-> more, rank |-> rank]

(* v1.9.0 comes after v1.10.0 as text; vnext has no version at all; 1.9.0  *)
(* has one and no v, so it is taken for the name of a method.              *)
MCSpelling ==
    [w \in {"1.9.0", "v1.10.0", "v1.10.0-rc1", "v1.9.0", "vnext"} |->
        CASE w = "1.9.0"       -> Spelt(FALSE, <<1, 9, 0>>,  FALSE, 0)
          [] w = "v1.10.0"     -> Spelt(TRUE,  <<1, 10, 0>>, FALSE, 1)
          [] w = "v1.10.0-rc1" -> Spelt(TRUE,  <<1, 10, 0>>, TRUE,  2)
          [] w = "v1.9.0"      -> Spelt(TRUE,  <<1, 9, 0>>,  FALSE, 3)
          [] OTHER             -> Spelt(TRUE,  << >>,        TRUE,  4)]

(* Three benchmarks of the custom suites, under two letters.               *)
Deny      == <<"allow()", "deny">>
NewKey    == <<"allow()", "new", "key">>
Construct == <<"construction">>

(* Their like of the Google suites, and the mean that the library adds     *)
(* when it is asked for repetitions.                                       *)
GDeny      == <<"AllowDeny">>
GMean      == <<"AllowDeny_mean">>
GNewKey    == <<"AllowNewKey">>
GConstruct == <<"Construction">>

MCPieces == [m \in {GDeny, GMean, GNewKey, GConstruct} |->
                IF m = GMean THEN <<<<"AllowDeny", "mean">>>> ELSE <<m>>]

MCMethods      == <<Deny, NewKey, GDeny, GMean, GNewKey, Construct, GConstruct>>
MCLetterOf     == [m \in ToSet(MCMethods) |->
                      IF m \in {Construct, GConstruct} THEN "C" ELSE "A"]
MCMethodIds    == [w \in {"a2", "c1", "c0"} |->
                      [letter |-> IF w = "a2" THEN "A" ELSE "C",
                       index  |-> CASE w = "a2" -> 2 [] w = "c1" -> 1 [] OTHER -> 0]]
MCGroupLetters == [w \in {"a", "b"} |-> IF w = "a" THEN "A" ELSE "B"]

E(s, m, k, t) == [suite |-> s, op |-> m, iter |-> k, ns |-> t]
G(m, k, t)    == [op |-> m, iter |-> k, ns |-> t]

(* A suite before and after a benchmark was added, one was dropped, one    *)
(* got slower and a tier went; and a run that recorded nothing.  The first *)
(* Google run made two repetitions.                                        *)
MCSnapshots ==
    [custom |->
        { << >>,
          <<E("Allow", Deny, 10, 400), E("Allow", Deny, 100, 300),
            E("Construction", Construct, 10, 500)>>,
          <<E("Allow", Deny, 10, 900), E("Allow", NewKey, 10, 700)>> },
     google |->
        { << >>,
          <<G(GDeny, 10, 400), G(GDeny, 10, 300), G(GMean, 2, 350), G(GConstruct, 10, 500)>>,
          <<G(GDeny, 12, 900), G(GNewKey, 10, 700)>> }]

MCArgLists ==
    { << >>, <<"list">>, <<"methods">>, <<"methods", "v1.9.0">>, <<"--help">>,
      <<"v1.10.0">>, <<"v1.10.0-rc1">>, <<"v1.9.0", "v1.10.0">>, <<"1.9.0">>,
      Deny, GDeny, <<"v1.9.0", "c1">>, <<"v1.9.0", "c0">>, <<"a2">>, <<"a">>, <<"b">>,
      <<"v1.10.0", "v1.9.0", "construction">> }
=============================================================================
