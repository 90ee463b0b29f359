------------------------- MODULE MCDependencyGraph -------------------------
(***************************************************************************)
(* DependencyGraph for TLC, with the depth-first search of willCreateCycle *)
(* as the code runs it, against which the cycle check is checked.          *)
(***************************************************************************)
EXTENDS DependencyGraph

TaskSymmetry == Permutations(Task)

(* explore: visited is shared by the whole search, and some() stops at the *)
(* first dependency that reports the target.                               *)
RECURSIVE Explore(_, _, _)
Explore(target, current, visited) ==
  IF current = target THEN [found |-> TRUE, visited |-> visited]
  ELSE IF current \in visited THEN [found |-> FALSE, visited |-> visited]
  ELSE FoldLeft(LAMBDA acc, next : IF acc.found THEN acc
                                   ELSE Explore(target, next, acc.visited),
                [found |-> FALSE, visited |-> visited \cup {current}],
                dependencies[current])

(* The search with its shared visited set answers what the cycle check     *)
(* needs, on every graph that can come about: skipping a visited task      *)
(* never hides a cycle.                                                    *)
SearchFindsCycles ==
  \A t, d \in Task : Explore(t, d, {}).found <=> WillCreateCycle(t, d)
=============================================================================
