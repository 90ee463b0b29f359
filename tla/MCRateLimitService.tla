------------------------- MODULE MCRateLimitService -------------------------
(* RateLimitService for TLC: the calls are interchangeable in the runs     *)
(* that check no liveness.                                                 *)
EXTENDS RateLimitService, TLC

CallerSymmetry == Permutations(Caller)
=============================================================================
