--------------------------- MODULE MCRateLimiter ---------------------------
(***************************************************************************)
(* Instances of RateLimiter: two replicas, one clock a tick ahead, or      *)
(* replicas whose clocks agree.                                            *)
(***************************************************************************)
EXTENDS RateLimiter, TLC

CONSTANTS a1, a2

MCOffset == a1 :> 0 @@ a2 :> 1

SameClock == [r \in Replica |-> 0]

LimiterSymmetry == Permutations(Request) \cup Permutations(Subject)
=============================================================================
