-------------------------- MODULE DependencyGraph --------------------------
(***************************************************************************)
(* The in-memory dependency graph of infrastructure/project/dependency.ts: *)
(* who depends on whom, the cycle check that guards it, and the schedule   *)
(* updateTimings derives from it.  All of its methods are async functions  *)
(* without an await that yields before they have finished with the graph,  *)
(* so each of them is one step.                                            *)
(*                                                                         *)
(* nodes is a Map: order is its insertion order, in which forEach visits   *)
(* the nodes, and the other variables hold the fields of each node.        *)
(* A duration of one unit stands for the 24 hours of estimateTaskDuration. *)
(***************************************************************************)
EXTENDS Integers, FiniteSets, SequencesExt

CONSTANTS
  Task,            \* ids of the checklist items
  MaxDependencies  \* bound: dependency entries the graph holds altogether

ASSUME TaskAssumption == IsFiniteSet(Task)
ASSUME MaxDependenciesAssumption == MaxDependencies \in Nat

VARIABLES
  order,           \* keys of the Map nodes, in insertion order
  dependencies,    \* dependencies[t]: the list of node t
  dependents,      \* dependents[t]: the list of node t
  timing           \* earliest and latest start and finish of each node

vars == <<order, dependencies, dependents, timing>>

Times == [earliestStart : Int, earliestFinish : Int,
          latestStart : Int, latestFinish : Int]

GraphTypeOK ==
  /\ order \in Seq(Task)
  /\ dependencies \in [Task -> Seq(Task)]
  /\ dependents \in [Task -> Seq(Task)]

TypeOK ==
  /\ GraphTypeOK
  /\ IsInjective(order)
  /\ timing \in [Task -> Times]

Init ==
  /\ order = <<>>
  /\ dependencies = [t \in Task |-> <<>>]
  /\ dependents = [t \in Task |-> <<>>]
  /\ timing = [t \in Task |-> [earliestStart |-> 0, earliestFinish |-> 0,
                               latestStart |-> 0, latestFinish |-> 0]]

-----------------------------------------------------------------------------
(* estimateTaskDuration                                                    *)
Duration == 1

(* Mutant: the start of a task also waits for the task itself.             *)
ForwardWaitingForItself(deps, times, t) ==
  LET start == Max({0} \cup {times[d].earliestFinish : d \in ToSet(deps[t]) \cup {t}})
  IN  [times EXCEPT ![t].earliestStart = start,
                    ![t].earliestFinish = start + Duration]

(* Mutant: only the first dependency counts.                               *)
ForwardFirstOnly(deps, times, t) ==
  LET start == IF deps[t] = <<>> THEN 0 ELSE times[deps[t][1]].earliestFinish
  IN  [times EXCEPT ![t].earliestStart = start,
                    ![t].earliestFinish = start + Duration]

(* Mutant: Math.min for Math.max.                                          *)
ForwardFromEarliest(deps, times, t) ==
  LET start == IF deps[t] = <<>> THEN 0
               ELSE Min({times[d].earliestFinish : d \in ToSet(deps[t])})
  IN  [times EXCEPT ![t].earliestStart = start,
                    ![t].earliestFinish = start + Duration]

(* The forward pass sets each node, in insertion order, from what its      *)
(* dependencies hold at that moment: those inserted later still hold the   *)
(* finish of the previous pass.                                            *)
Forward(deps, times, t) ==
  LET start == Max({0} \cup {times[d].earliestFinish : d \in ToSet(deps[t])})
  IN  [times EXCEPT ![t].earliestStart = start,
                    ![t].earliestFinish = start + Duration]

(* Math.max(...) over the nodes' earliest finishes                         *)
ProjectFinish(nodes, times) ==
  Max({times[t].earliestFinish : t \in ToSet(nodes)})

(* The backward pass visits the nodes in the same order.                   *)
Backward(dpts, finish, times, t) ==
  LET latest == IF dpts[t] = <<>>
                  THEN finish
                  ELSE Min({times[d].latestStart : d \in ToSet(dpts[t])})
  IN  [times EXCEPT ![t].latestFinish = latest,
                    ![t].latestStart = latest - Duration]

ForwardPass(deps, times, nodes) ==
  FoldLeft(LAMBDA tm, t : Forward(deps, tm, t), times, nodes)

BackwardPass(dpts, finish, times, nodes) ==
  FoldLeft(LAMBDA tm, t : Backward(dpts, finish, tm, t), times, nodes)

UpdateTimings(nodes, deps, dpts, times) ==
  LET forward == ForwardPass(deps, times, nodes)
  IN  BackwardPass(dpts, ProjectFinish(nodes, forward), forward, nodes)

(* explore of willCreateCycle visits everything dependsOnId depends on,    *)
(* directly or not, dependsOnId included: the members of every set that    *)
(* has dependsOnId and the dependencies of its members.                    *)
ClosedUnderDependencies(S) == \A t \in S : ToSet(dependencies[t]) \subseteq S

Reaches(t, target) ==
  \A S \in SUBSET Task : t \in S /\ ClosedUnderDependencies(S) => target \in S

(* Mutant: only the direct dependencies of dependsOnId are looked at.      *)
WillCreateShortCycle(taskId, dependsOnId) ==
  taskId \in {dependsOnId} \cup ToSet(dependencies[dependsOnId])

WillCreateCycle(taskId, dependsOnId) == Reaches(dependsOnId, taskId)

(* Mutant: the node is set whether the Map has it or not.                  *)
WithNodeAgain(nodes, t) == Append(nodes, t)

(* if (!nodes.has(id)) nodes.set(id, ...), first taskId, then dependsOnId. *)
WithNode(nodes, t) == IF t \in ToSet(nodes) THEN nodes ELSE Append(nodes, t)

(* Mutant: only the node of taskId is created.                             *)
WithTaskNode(nodes, t, d) == WithNode(nodes, t)

WithNodes(nodes, t, d) == WithNode(WithNode(nodes, t), d)

AddDependency(t, d) ==
  /\ MapThenSumSet(LAMBDA u : Len(dependencies[u]), Task) < MaxDependencies
  /\ ~ WillCreateCycle(t, d)
  /\ order' = WithNodes(order, t, d)
  /\ dependencies' = [dependencies EXCEPT ![t] = Append(@, d)]
  /\ dependents' = [dependents EXCEPT ![d] = Append(@, t)]
  /\ timing' = UpdateTimings(order', dependencies', dependents', timing)

(* 'Adding this dependency would create a cycle': the call throws, but the *)
(* nodes it created for the check stay.                                    *)
RejectDependency(t, d) ==
  /\ WillCreateCycle(t, d)
  /\ order' = WithNodes(order, t, d)
  /\ UNCHANGED <<dependencies, dependents, timing>>

(* calculateCriticalPath brings the timings up to date and then follows    *)
(* the first dependency of each node from the first node that finishes     *)
(* last.                                                                   *)
CalculateCriticalPath ==
  /\ order # <<>>
  /\ timing' = UpdateTimings(order, dependencies, dependents, timing)
  /\ UNCHANGED <<order, dependencies, dependents>>

Next ==
  \/ \E t, d \in Task : AddDependency(t, d) \/ RejectDependency(t, d)
  \/ CalculateCriticalPath

Spec == Init /\ [][Next]_vars

(* currentNode: index of the first node whose latestFinish is the largest, *)
(* which maxFinish takes to be at least 0; 0 if there is no such node.     *)
MaxFinish == Max({0} \cup {timing[t].latestFinish : t \in ToSet(order)})

CriticalEnd == SelectInSeq(order, LAMBDA t : timing[t].latestFinish = MaxFinish)

(* The path that ends in t, walked back along dependencies[0]: n bounds    *)
(* the tasks on it, and NoPath, which is none, says that the walk was not  *)
(* over by then.                                                           *)
NoPath == <<>>

OneStepBack(paths) ==
  [u \in Task |->
     IF dependencies[u] = <<>> THEN <<u>>
     ELSE LET rest == paths[dependencies[u][1]]
          IN  IF rest = NoPath THEN NoPath ELSE Append(rest, u)]

PathTo(t, n) ==
  LET walk[k \in 0 .. n] ==
        IF k = 0 THEN [u \in Task |-> NoPath] ELSE OneStepBack(walk[k - 1])
  IN  walk[n][t]

CriticalPath ==
  IF CriticalEnd = 0 THEN NoPath ELSE PathTo(order[CriticalEnd], Len(order))

-----------------------------------------------------------------------------
(* The cycle check works: no set of tasks has a dependency of each member  *)
(* inside, which for finite sets is to say that no task waits for itself.  *)
(* The walk of calculateCriticalPath, a loop without any other bound,      *)
(* terminates because of it.                                               *)
Acyclic ==
  \A S \in SUBSET Task :
    S # {} => \E t \in S : ToSet(dependencies[t]) \cap S = {}

(* Every dependency is entered on both sides, and only between nodes of    *)
(* the Map, so the passes, which visit the nodes, miss none.               *)
BothSidesAgree ==
  \A t, d \in Task :
    /\ d \in ToSet(dependencies[t]) <=> t \in ToSet(dependents[d])
    /\ d \in ToSet(dependencies[t]) => {t, d} \subseteq ToSet(order)

(* The schedule as textbooks define it, to which the passes are held:      *)
(* LongestChain(next)[t] is the length of the longest chain that starts in *)
(* t and follows next, found in as many rounds as there are tasks.         *)
LongestChain(next) ==
  LET chain[n \in 0 .. Cardinality(Task)] ==
        IF n = 0 THEN [t \in Task |-> 0]
        ELSE [t \in Task |->
                1 + Max({0} \cup {chain[n - 1][u] : u \in ToSet(next[t])})]
  IN  chain[Cardinality(Task)]

(* The timings after n more passes over an unchanged graph.                *)
AfterPasses(n) ==
  LET after[k \in 0 .. n] ==
        IF k = 0 THEN timing
        ELSE UpdateTimings(order, dependencies, dependents, after[k - 1])
  IN  after[n]

(* The single pass per call may be behind, because a task is inserted      *)
(* before the task it depends on, but it never claims that a task finishes *)
(* later than its longest chain of dependencies takes.                     *)
NeverTooLate ==
  \A t \in ToSet(order) :
    timing[t].earliestFinish <= LongestChain(dependencies)[t] * Duration

(* And it does not stay behind: whatever the order of insertion, asking    *)
(* again as often as there are nodes corrects every earliest finish, and   *)
(* as often once more every latest start.                                  *)
PassesSettle ==
  order # <<>> =>
    LET n      == Len(order)
        early  == AfterPasses(n)
        late   == AfterPasses(2 * n)
        before == LongestChain(dependencies)
        after  == LongestChain(dependents)
        finish == Max({before[t] : t \in ToSet(order)})
    IN  \A t \in ToSet(order) :
          /\ early[t].earliestFinish = before[t] * Duration
          /\ late[t].latestStart = (finish - after[t]) * Duration

(* A schedule only gets later: dependencies are only ever added, and no    *)
(* pass takes back what an earlier one found.                              *)
FinishNeverMovesEarlier ==
  [][\A t \in Task : timing'[t].earliestFinish >= timing[t].earliestFinish]_vars

(* A path is found, and it is a chain of dependencies that begins with a   *)
(* task that waits for nothing and ends with one nobody waits for.         *)
CriticalPathIsWholeChain ==
  order # <<>> =>
    /\ CriticalEnd # 0
    /\ CriticalPath # NoPath
    /\ dependencies[CriticalPath[1]] = <<>>
    /\ \A i \in 2 .. Len(CriticalPath) :
         CriticalPath[i - 1] \in ToSet(dependencies[CriticalPath[i]])
    /\ dependents[CriticalPath[Len(CriticalPath)]] = <<>>
=============================================================================
