--------------------------- MODULE MCRateLimiter ---------------------------
(* RateLimiter on small instances; the .cfg files choose which.            *)
EXTENDS RateLimiter, TLC

CONSTANTS LastStamp   \* the stamps are 0 .. LastStamp

MCStamps == 0 .. LastStamp

KeySymmetry == Permutations(Keys)
=============================================================================
