-------------------------- MODULE MCProjectChecklist --------------------------
(* ProjectChecklist for TLC: the tasks, the calls and the subtasks are     *)
(* each interchangeable.                                                   *)
EXTENDS ProjectChecklist, TLC

Symmetry ==
  Permutations(Task) \cup Permutations(Call) \cup Permutations(Subtask)
=============================================================================
