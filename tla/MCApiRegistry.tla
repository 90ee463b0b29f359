---------------------------- MODULE MCApiRegistry ----------------------------
(* ApiRegistry for TLC.  Two requests of any kind, and a third one where   *)
(* all of them may meet in one entry of a cache: at one process, for one   *)
(* url with one query string and under the id of the url, while no other   *)
(* API is there.  Ids, processes, query strings and calls are each         *)
(* interchangeable: calls begin in a fixed order, the first has the first  *)
(* of each, and the second may have another process or another query       *)
(* string for the same id.  As ages alone matter, time passes once there   *)
(* is an entry in a cache.                                                 *)
EXTENDS ApiRegistry

CONSTANTS c1, c2, c3, a1, s1, q1

First(r) == r.server = s1 /\ r.query = q1 /\ r.api = a1

Meets(r) == r # Rejected /\ First(r) /\ r.target = a1

FirstRequests == {r \in Request : First(r)}
SecondRequests ==
  {r \in Request : \/ r.server = s1 /\ r.query = q1
                   \/ r.api = a1 /\ (r.server = s1 \/ r.query = q1)}
ThirdRequests == {r \in Request : Meets(r)}

Explored ==
  IF call[c1] = Idle THEN {c1} \X FirstRequests
  ELSE IF call[c2] = Idle THEN {c2} \X SecondRequests
  ELSE IF /\ c3 \in Call /\ call[c3] = Idle
          /\ Meets(call[c1]) /\ Meets(call[c2])
          /\ \A a \in Api \ {a1} : table[a] = NoItem
  THEN {c3} \X ThirdRequests
  ELSE {}

NextRegistry ==
  \/ \E cr \in Explored : Begin(cr[1], cr[2])
  \/ \E c \in Call : Continue(c)
  \/ Around /\ (now' # now => \E k \in Key : cache[k] # NoEntry)

SpecRegistry == Init /\ [][NextRegistry]_vars
=============================================================================
