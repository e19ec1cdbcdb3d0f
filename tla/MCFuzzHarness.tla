---------------------------- MODULE MCFuzzHarness ----------------------------
(* FuzzHarness on small instances.  With a capacity of 2 a byte matters    *)
(* only through its remainders by 4 and 16 and, if it is a multiple of 4,  *)
(* by 5: one byte for each of the 13 cases.                                *)
EXTENDS FuzzHarness

MCBytes == {0, 16, 32, 48, 64} \cup {4, 8, 12, 20, 36} \cup {1, 2, 3}
=============================================================================
