---------------------------- MODULE MCTokenService ----------------------------
(* TokenService for TLC: the requests are interchangeable where no         *)
(* liveness is checked.                                                    *)
EXTENDS TokenService, TLC

RequestSymmetry == Permutations(Request)
=============================================================================
