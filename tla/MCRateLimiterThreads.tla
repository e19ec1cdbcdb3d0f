------------------------ MODULE MCRateLimiterThreads ------------------------
(* RateLimiterThreads on small instances; the .cfg files choose which.     *)
EXTENDS RateLimiterThreads, TLC

ThreadSymmetry == Permutations(Threads)
=============================================================================
