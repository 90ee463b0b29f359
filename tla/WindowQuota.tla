---------------------------- MODULE WindowQuota ----------------------------
(***************************************************************************)
(* What a rate limiter promises, whatever its algorithm: time is cut into  *)
(* windows that are opened one after the other, and at most Quota requests *)
(* are admitted on behalf of each window.  A request may still be admitted *)
(* on behalf of a window that a later one has replaced, because the answer *)
(* of the store reaches its caller after a delay.                          *)
(*                                                                         *)
(* RateLimitService (the NestJS service) and LambdaRateLimiter (the        *)
(* middleware of the lambda functions) are both shown to implement it.     *)
(***************************************************************************)
EXTENDS Naturals

CONSTANT Quota   \* admissions one window may give out

VARIABLES
  opened,        \* index of the newest window
  admitted       \* admitted[w]: requests admitted on behalf of window w

vars == <<opened, admitted>>

Init ==
  /\ opened = 0
  /\ admitted = [w \in {0} |-> 0]

OpenWindow ==
  /\ opened' = opened + 1
  /\ admitted' = [w \in 0 .. opened + 1 |-> IF w = opened + 1 THEN 0
                                                            ELSE admitted[w]]

Admit(w) ==
  /\ admitted[w] < Quota
  /\ admitted' = [admitted EXCEPT ![w] = @ + 1]
  /\ UNCHANGED opened

Next == OpenWindow \/ \E w \in 0 .. opened : Admit(w)

Spec == Init /\ [][Next]_vars

(* The promise in one formula; it follows from the guard of Admit.         *)
WithinQuota == \A w \in 0 .. opened : admitted[w] <= Quota
=============================================================================
