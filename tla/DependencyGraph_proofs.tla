----------------------- MODULE DependencyGraph_proofs -----------------------
(***************************************************************************)
(* The dependency graph and its schedule, for any finite set of tasks and  *)
(* any number of dependencies: no sequence of calls closes a cycle, both   *)
(* sides of every dependency are entered, no finish is ever claimed to be  *)
(* later than the longest chain, every finish and every latest start is    *)
(* found in the end, and the critical path is a whole chain.               *)
(*                                                                         *)
(* The order of the lemmas:                                                *)
(*  - induction, which has to do without a predicate as parameter: the     *)
(*    least finite set that would be a counterexample;                     *)
(*  - what a fold computes exists, so the passes of updateTimings are a    *)
(*    sequence of timings, one for each node;                              *)
(*  - what one node of a pass does (Delays, Advances), and a whole pass;   *)
(*  - the graph: GraphTypeOK, Acyclic, BothSidesAgree;                     *)
(*  - the schedule: ScheduleInv, then the longest chain, which Acyclic     *)
(*    lets settle, then how many passes it takes to reach it;              *)
(*  - the critical path: where it begins (EndInv) and that the walk ends.  *)
(***************************************************************************)
EXTENDS DependencyGraph, TLAPS, FiniteSetTheorems, WellFoundedInduction

-----------------------------------------------------------------------------
(* Induction: the passes over the graph are folds, and what a fold         *)
(* computes is shown of the longest prefix, or the smallest set, for which *)
(* it would fail.                                                          *)
LEMMA MinimalSet ==
  ASSUME NEW T, T # {}, \A s \in T : IsFiniteSet(s)
  PROVE  \E s \in T : \A u \in T : u \subseteq s => u = s
<1> DEFINE S == UNION T
<1>1. T \subseteq FiniteSubsetsOf(S)
  BY DEF FiniteSubsetsOf
<1> HIDE DEF S
<1>2. PICK s \in T : \A u \in T : ~ (<<u, s>> \in StrictSubsetOrdering(S))
  BY <1>1, WFMin, FS_StrictSubsetOrderingWellFounded
<1>3. \A u \in T : u \in SUBSET S /\ s \in SUBSET S
  BY <1>1 DEF FiniteSubsetsOf
<1>4. \A u \in T : u \subseteq s /\ u # s => <<u, s>> \in StrictSubsetOrdering(S)
  BY <1>3 DEF StrictSubsetOrdering
<1>5. \A u \in T : u \subseteq s => u = s
  BY <1>2, <1>4
<1> QED BY <1>5

(* A set with 0 and with the successor of each of its members up to n.     *)
LEMMA IntervalInduction ==
  ASSUME NEW n \in Nat, NEW Good, 0 \in Good,
         \A i \in 1 .. n : i - 1 \in Good => i \in Good
  PROVE  \A i \in 0 .. n : i \in Good
<1> SUFFICES ASSUME NEW k \in 0 .. n, k \notin Good
             PROVE  FALSE
  OBVIOUS
<1> DEFINE T == {0 .. i : i \in (0 .. n) \ Good}
<1>1. T # {}
  OBVIOUS
<1>2. \A s \in T : IsFiniteSet(s)
  BY FS_Interval
<1>m. \E s \in T : \A u \in T : u \subseteq s => u = s
  <2> HIDE DEF T
  <2> QED BY <1>1, <1>2, MinimalSet
<1>3. PICK s \in T : \A u \in T : u \subseteq s => u = s
  BY <1>m
<1>4. PICK i \in (0 .. n) \ Good : s = 0 .. i
  OBVIOUS
<1>5. i \in 1 .. n /\ i - 1 \in 0 .. n /\ i - 1 \notin Good
  BY <1>4
<1>6. 0 .. (i - 1) \in T
  BY <1>5
<1>7. 0 .. (i - 1) \subseteq 0 .. i /\ i \in 0 .. i /\ i \notin 0 .. (i - 1)
  BY <1>5
<1> QED BY <1>3, <1>4, <1>6, <1>7

(* Max and Min of FiniteSetsExt are defined by CHOOSE: here is what they   *)
(* are of a finite set of integers.                                        *)
LEMMA MaxIsGreatest ==
  ASSUME NEW S \in SUBSET Int, IsFiniteSet(S), S # {}
  PROVE  Max(S) \in S /\ \A y \in S : Max(S) >= y
<1> DEFINE Above(x) == {y \in S : y > x}
           T == {Above(x) : x \in S}
<1>f. ASSUME NEW x \in S PROVE IsFiniteSet(Above(x))
  <2>1. Above(x) \in SUBSET S
    OBVIOUS
  <2> HIDE DEF Above
  <2> QED BY <2>1, FS_Subset
<1>1. T # {} /\ \A s \in T : IsFiniteSet(s)
  BY <1>f
<1>m. \E s \in T : \A u \in T : u \subseteq s => u = s
  <2> HIDE DEF T
  <2> QED BY <1>1, MinimalSet
<1>2. PICK s \in T : \A u \in T : u \subseteq s => u = s
  BY <1>m
<1>3. PICK x \in S : s = Above(x)
  OBVIOUS
<1>4. ASSUME NEW y \in S, ~ (x >= y) PROVE FALSE
  <2>0. x \in Int /\ y \in Int
    OBVIOUS
  <2>1. ASSUME NEW z \in Above(y) PROVE z \in Above(x)
    <3>1. z \in S /\ z \in Int /\ z > y
      OBVIOUS
    <3>2. z > x
      BY <3>1, <2>0, <1>4
    <3> QED BY <3>1, <3>2
  <2>2. y \in Above(x) /\ y \notin Above(y)
    BY <2>0, <1>4
  <2> QED BY <2>1, <2>2, <1>2, <1>3
<1> QED BY <1>4 DEF Max

(* The same for Min.                                                       *)
LEMMA MinIsLeast ==
  ASSUME NEW S \in SUBSET Int, IsFiniteSet(S), S # {}
  PROVE  Min(S) \in S /\ \A y \in S : Min(S) <= y
<1> DEFINE Below(x) == {y \in S : y < x}
           T == {Below(x) : x \in S}
<1>f. ASSUME NEW x \in S PROVE IsFiniteSet(Below(x))
  <2>1. Below(x) \in SUBSET S
    OBVIOUS
  <2> HIDE DEF Below
  <2> QED BY <2>1, FS_Subset
<1>1. T # {} /\ \A s \in T : IsFiniteSet(s)
  BY <1>f
<1>m. \E s \in T : \A u \in T : u \subseteq s => u = s
  <2> HIDE DEF T
  <2> QED BY <1>1, MinimalSet
<1>2. PICK s \in T : \A u \in T : u \subseteq s => u = s
  BY <1>m
<1>3. PICK x \in S : s = Below(x)
  OBVIOUS
<1>4. ASSUME NEW y \in S, ~ (x <= y) PROVE FALSE
  <2>0. x \in Int /\ y \in Int
    OBVIOUS
  <2>1. ASSUME NEW z \in Below(y) PROVE z \in Below(x)
    <3>1. z \in S /\ z \in Int /\ z < y
      OBVIOUS
    <3>2. z < x
      BY <3>1, <2>0, <1>4
    <3> QED BY <3>1, <3>2
  <2>2. y \in Below(x) /\ y \notin Below(y)
    BY <2>0, <1>4
  <2> QED BY <2>1, <2>2, <1>2, <1>3
<1> QED BY <1>4 DEF Min

(* The values of a function on a finite set, and the members of a list.    *)
LEMMA FiniteImage ==
  ASSUME NEW D, IsFiniteSet(D), NEW f
  PROVE  IsFiniteSet({f[x] : x \in D})
<1> DEFINE g == [x \in D |-> f[x]]
           R == {f[x] : x \in D}
<1>1. g \in Surjection(D, R)
  BY DEF Surjection
<1> QED BY <1>1, FS_Surjection

(* The elements of a list are finitely many, and there are none only in the*)
(* empty list.                                                             *)
LEMMA FiniteList ==
  ASSUME NEW S, NEW s \in Seq(S)
  PROVE  IsFiniteSet(ToSet(s)) /\ ToSet(s) \subseteq S
         /\ (ToSet(s) = {} <=> s = <<>>)
<1>1. DOMAIN s = 1 .. Len(s) /\ Len(s) \in Nat
  OBVIOUS
<1>2. IsFiniteSet(DOMAIN s)
  BY <1>1, FS_Interval
<1>3. IsFiniteSet(ToSet(s))
  BY <1>2, FiniteImage DEF ToSet
<1>4. ToSet(s) \subseteq S
  BY DEF ToSet
<1>5. ToSet(s) = {} <=> s = <<>>
  <2>1. s # <<>> => 1 \in DOMAIN s
    BY <1>1
  <2> QED BY <2>1 DEF ToSet
<1> QED BY <1>3, <1>4, <1>5

(* What MapThenFoldSet computes over the indices of a list exists: a       *)
(* function on the sets of indices, each time from the set without its     *)
(* largest member.                                                         *)
IsFold(g, n, base, step) ==
  \A s \in SUBSET (1 .. n) :
    g[s] = IF s = {} THEN base ELSE step[Max(s)][g[s \ {Max(s)}]]

(* Such a function exists, whatever the steps are.                         *)
LEMMA FoldExists ==
  ASSUME NEW n \in Nat, NEW X, NEW base \in X, NEW step \in [1 .. n -> [X -> X]]
  PROVE  \E g \in [SUBSET (1 .. n) -> X] : IsFold(g, n, base, step)
<1> DEFINE Defined(u) ==
             \E g \in [SUBSET u -> X] :
               \A s \in SUBSET u :
                 g[s] = IF s = {} THEN base ELSE step[Max(s)][g[s \ {Max(s)}]]
           T == {u \in SUBSET (1 .. n) : ~ Defined(u)}
<1>0. \A u \in SUBSET (1 .. n) :
        /\ IsFiniteSet(u)
        /\ u \in SUBSET Int
        /\ u # {} => Max(u) \in u /\ \A y \in u : Max(u) >= y
  <2> TAKE u \in SUBSET (1 .. n)
  <2>1. IsFiniteSet(1 .. n)
    BY FS_Interval
  <2>2. u \in SUBSET Int
    OBVIOUS
  <2>3. IsFiniteSet(u)
    <3> DEFINE D == 1 .. n
    <3>1. u \in SUBSET D /\ IsFiniteSet(D)
      BY <2>1
    <3> HIDE DEF D
    <3> QED BY <3>1, FS_Subset
  <2> QED BY <2>2, <2>3, MaxIsGreatest
<1> SUFFICES ASSUME ~ Defined(1 .. n) PROVE FALSE
  BY DEF IsFold
<1>t. T # {} /\ \A u \in T : IsFiniteSet(u)
  BY <1>0
<1>m. \E u \in T : \A v \in T : v \subseteq u => v = u
  <2> HIDE DEF T
  <2> QED BY <1>t, MinimalSet
<1>1. PICK u \in T : \A v \in T : v \subseteq u => v = u
  BY <1>m
<1>2. u # {}
  <2>1. ASSUME u = {} PROVE Defined(u)
    <3> DEFINE g == [s \in SUBSET u |-> base]
    <3>1. g \in [SUBSET u -> X]
      OBVIOUS
    <3>2. \A s \in SUBSET u :
            g[s] = IF s = {} THEN base ELSE step[Max(s)][g[s \ {Max(s)}]]
      BY <2>1
    <3> HIDE DEF g
    <3> QED BY <3>1, <3>2
  <2> QED BY <2>1
<1> DEFINE m == Max(u)
           v == u \ {m}
<1>3. m \in u /\ m \in 1 .. n /\ \A y \in u : m >= y
  BY <1>0, <1>2
<1>4. Defined(v)
  <2>1. v \in SUBSET (1 .. n) /\ v \subseteq u /\ v # u
    BY <1>3
  <2> HIDE DEF v, m, Defined
  <2> QED BY <1>1, <2>1
<1>5. PICK h \in [SUBSET v -> X] :
        \A s \in SUBSET v :
          h[s] = IF s = {} THEN base ELSE step[Max(s)][h[s \ {Max(s)}]]
  BY <1>4
<1> DEFINE g == [s \in SUBSET u |-> IF m \in s THEN step[m][h[s \ {m}]] ELSE h[s]]
<1>6. \A s \in SUBSET u : s \ {m} \in SUBSET v /\ (m \notin s => s \in SUBSET v)
  OBVIOUS
<1>7. g \in [SUBSET u -> X]
  BY <1>3, <1>6
<1>8. ASSUME NEW s \in SUBSET u
      PROVE  g[s] = IF s = {} THEN base ELSE step[Max(s)][g[s \ {Max(s)}]]
  <2>1. CASE m \in s
    <3>1. Max(s) = m
      <4>1. Max(s) \in s /\ \A y \in s : Max(s) >= y
        BY <1>0, <2>1
      <4>3. Max(s) \in u /\ Max(s) >= m
        BY <4>1, <2>1
      <4>4. m >= Max(s) /\ m \in Int /\ Max(s) \in Int
        <5>1. u \in SUBSET Int
          BY <1>0
        <5> HIDE DEF m
        <5> QED BY <5>1, <4>3, <1>3
      <4> HIDE DEF m
      <4> QED BY <4>3, <4>4
    <3>2. g[s] = step[m][h[s \ {m}]]
      BY <2>1
    <3>3. g[s \ {m}] = h[s \ {m}]
      BY <1>6
    <3> QED BY <3>1, <3>2, <3>3, <2>1
  <2>2. CASE m \notin s
    <3>1. g[s] = h[s] /\ s \in SUBSET v
      BY <2>2, <1>6
    <3>2. s # {} => g[s \ {Max(s)}] = h[s \ {Max(s)}]
      BY <2>2, <1>6
    <3> QED BY <3>1, <3>2, <1>5
  <2> QED BY <2>1, <2>2
<1>9. Defined(u)
  <2> HIDE DEF g, m, v
  <2> QED BY <1>7, <1>8
<1> QED BY <1>9

(* The sets of indices that the fold of a list visits.                     *)
LEMMA InitialInterval ==
  ASSUME NEW i \in Nat \ {0}
  PROVE  /\ 1 .. i # {} /\ Max(1 .. i) = i
         /\ (1 .. i) \ {i} = 1 .. (i - 1)
<1>1. IsFiniteSet(1 .. i) /\ 1 .. i \in SUBSET Int /\ i \in 1 .. i
  BY FS_Interval
<1>2. Max(1 .. i) \in 1 .. i /\ Max(1 .. i) >= i
  <2> DEFINE D == 1 .. i
  <2>1. IsFiniteSet(D) /\ D \in SUBSET Int /\ i \in D
    BY <1>1
  <2>2. Max(D) \in D /\ Max(D) >= i
    <3> HIDE DEF D
    <3> QED BY <2>1, MaxIsGreatest
  <2> QED BY <2>2
<1>3. Max(1 .. i) = i
  <2> DEFINE m == Max(1 .. i)
  <2>1. m \in 1 .. i /\ m >= i
    BY <1>2
  <2> HIDE DEF m
  <2>2. m = i
    BY <2>1
  <2> QED BY <2>2 DEF m
<1> QED BY <1>1, <1>3

(* The steps of the forward pass, one for each node, and of the backward   *)
(* pass.                                                                   *)
ForwardSteps(deps, times, nodes, f) ==
  /\ f[0] = times
  /\ \A i \in 1 .. Len(nodes) : f[i] = Forward(deps, f[i - 1], nodes[i])
  /\ f[Len(nodes)] = ForwardPass(deps, times, nodes)

(* The forward pass is these steps, one after the other.                   *)
LEMMA ForwardRuns ==
  ASSUME NEW nodes \in Seq(Task), NEW deps, NEW X, NEW times \in X,
         \A tm \in X, t \in Task : Forward(deps, tm, t) \in X
  PROVE  \E f \in [0 .. Len(nodes) -> X] : ForwardSteps(deps, times, nodes, f)
<1> DEFINE n == Len(nodes)
           step == [i \in 1 .. n |-> [x \in X |-> Forward(deps, x, nodes[i])]]
           Computes(g) ==
             g = [s \in SUBSET (DOMAIN nodes) |->
                    IF s = {} THEN times
                    ELSE Forward(deps, g[s \ {Max(s)}], nodes[Max(s)])]
           iter == CHOOSE g : Computes(g)
<1>1. n \in Nat /\ DOMAIN nodes = 1 .. n /\ \A i \in 1 .. n : nodes[i] \in Task
  OBVIOUS
<1>2. step \in [1 .. n -> [X -> X]]
  BY <1>1
<1>3. PICK g \in [SUBSET (1 .. n) -> X] : IsFold(g, n, times, step)
  <2> HIDE DEF n, step, Computes
  <2> QED BY <1>1, <1>2, FoldExists
<1>4. ASSUME NEW s \in SUBSET (1 .. n), s # {}
      PROVE  step[Max(s)][g[s \ {Max(s)}]] = Forward(deps, g[s \ {Max(s)}], nodes[Max(s)])
  <2> DEFINE D == 1 .. n
  <2>1. IsFiniteSet(D) /\ s \in SUBSET D /\ D \in SUBSET Int
    BY <1>1, FS_Interval
  <2>2. Max(s) \in D
    <3> HIDE DEF D
    <3>1. IsFiniteSet(s) /\ s \in SUBSET Int
      BY <2>1, FS_Subset
    <3>2. Max(s) \in s
      BY <3>1, <1>4, MaxIsGreatest
    <3> QED BY <2>1, <3>2
  <2>3. g[s \ {Max(s)}] \in X
    OBVIOUS
  <2> QED BY <2>2, <2>3
<1>5. Computes(g)
  <2> HIDE DEF n, step
  <2> QED BY <1>1, <1>3, <1>4 DEF IsFold
<1>6. Computes(iter)
  <2> HIDE DEF Computes
  <2> QED BY <1>5
<1>7. ForwardPass(deps, times, nodes) = iter[DOMAIN nodes]
  BY DEF ForwardPass, FoldLeft, MapThenFoldSet
<1> HIDE DEF iter
<1>8. iter[1 .. 0] = times
  BY <1>1, <1>6
<1>9. ASSUME NEW i \in 1 .. n
      PROVE  iter[1 .. i] = Forward(deps, iter[1 .. (i - 1)], nodes[i])
  <2>1. 1 .. i \in SUBSET (DOMAIN nodes) /\ i \in Nat \ {0}
    BY <1>1
  <2>2. /\ 1 .. i # {} /\ Max(1 .. i) = i
        /\ (1 .. i) \ {i} = 1 .. (i - 1)
    BY <2>1, InitialInterval
  <2> HIDE DEF n
  <2>3. iter[1 .. i] =
          IF 1 .. i = {} THEN times
          ELSE Forward(deps, iter[(1 .. i) \ {Max(1 .. i)}], nodes[Max(1 .. i)])
    BY <2>1, <1>6
  <2> QED BY <2>2, <2>3
<1> HIDE DEF n, Computes
<1> DEFINE Good == {i \in 0 .. n : iter[1 .. i] \in X}
           f == [i \in 0 .. n |-> iter[1 .. i]]
<1>10. \A i \in 0 .. n : i \in Good
  <2>1. 0 \in Good
    BY <1>1, <1>8
  <2>2. ASSUME NEW i \in 1 .. n, i - 1 \in Good PROVE i \in Good
    BY <2>2, <1>1, <1>9
  <2> HIDE DEF Good
  <2> QED BY <2>1, <2>2, <1>1, IntervalInduction
<1>11. f \in [0 .. n -> X]
  BY <1>10
<1>12. f[0] = times /\ f[n] = iter[DOMAIN nodes]
  BY <1>1, <1>8
<1>13. \A i \in 1 .. n : f[i] = Forward(deps, f[i - 1], nodes[i])
  BY <1>1, <1>9
<1> HIDE DEF f
<1> QED BY <1>7, <1>11, <1>12, <1>13 DEF n, ForwardSteps

BackwardSteps(dpts, finish, times, nodes, b) ==
  /\ b[0] = times
  /\ \A i \in 1 .. Len(nodes) : b[i] = Backward(dpts, finish, b[i - 1], nodes[i])
  /\ b[Len(nodes)] = BackwardPass(dpts, finish, times, nodes)

(* And so is the backward pass.                                            *)
LEMMA BackwardRuns ==
  ASSUME NEW nodes \in Seq(Task), NEW dpts, NEW finish, NEW X, NEW times \in X,
         \A tm \in X, t \in Task : Backward(dpts, finish, tm, t) \in X
  PROVE  \E b \in [0 .. Len(nodes) -> X] : BackwardSteps(dpts, finish, times, nodes, b)
<1> DEFINE n == Len(nodes)
           step == [i \in 1 .. n |-> [x \in X |-> Backward(dpts, finish, x, nodes[i])]]
           Computes(g) ==
             g = [s \in SUBSET (DOMAIN nodes) |->
                    IF s = {} THEN times
                    ELSE Backward(dpts, finish, g[s \ {Max(s)}], nodes[Max(s)])]
           iter == CHOOSE g : Computes(g)
<1>1. n \in Nat /\ DOMAIN nodes = 1 .. n /\ \A i \in 1 .. n : nodes[i] \in Task
  OBVIOUS
<1>2. step \in [1 .. n -> [X -> X]]
  BY <1>1
<1>3. PICK g \in [SUBSET (1 .. n) -> X] : IsFold(g, n, times, step)
  <2> HIDE DEF n, step, Computes
  <2> QED BY <1>1, <1>2, FoldExists
<1>4. ASSUME NEW s \in SUBSET (1 .. n), s # {}
      PROVE  step[Max(s)][g[s \ {Max(s)}]] = Backward(dpts, finish, g[s \ {Max(s)}], nodes[Max(s)])
  <2> DEFINE D == 1 .. n
  <2>1. IsFiniteSet(D) /\ s \in SUBSET D /\ D \in SUBSET Int
    BY <1>1, FS_Interval
  <2>2. Max(s) \in D
    <3> HIDE DEF D
    <3>1. IsFiniteSet(s) /\ s \in SUBSET Int
      BY <2>1, FS_Subset
    <3>2. Max(s) \in s
      BY <3>1, <1>4, MaxIsGreatest
    <3> QED BY <2>1, <3>2
  <2>3. g[s \ {Max(s)}] \in X
    OBVIOUS
  <2> QED BY <2>2, <2>3
<1>5. Computes(g)
  <2> HIDE DEF n, step
  <2> QED BY <1>1, <1>3, <1>4 DEF IsFold
<1>6. Computes(iter)
  <2> HIDE DEF Computes
  <2> QED BY <1>5
<1>7. BackwardPass(dpts, finish, times, nodes) = iter[DOMAIN nodes]
  BY DEF BackwardPass, FoldLeft, MapThenFoldSet
<1> HIDE DEF iter
<1>8. iter[1 .. 0] = times
  BY <1>1, <1>6
<1>9. ASSUME NEW i \in 1 .. n
      PROVE  iter[1 .. i] = Backward(dpts, finish, iter[1 .. (i - 1)], nodes[i])
  <2>1. 1 .. i \in SUBSET (DOMAIN nodes) /\ i \in Nat \ {0}
    BY <1>1
  <2>2. /\ 1 .. i # {} /\ Max(1 .. i) = i
        /\ (1 .. i) \ {i} = 1 .. (i - 1)
    BY <2>1, InitialInterval
  <2> HIDE DEF n
  <2>3. iter[1 .. i] =
          IF 1 .. i = {} THEN times
          ELSE Backward(dpts, finish, iter[(1 .. i) \ {Max(1 .. i)}], nodes[Max(1 .. i)])
    BY <2>1, <1>6
  <2> QED BY <2>2, <2>3
<1> HIDE DEF n, Computes
<1> DEFINE Good == {i \in 0 .. n : iter[1 .. i] \in X}
           b == [i \in 0 .. n |-> iter[1 .. i]]
<1>10. \A i \in 0 .. n : i \in Good
  <2>1. 0 \in Good
    BY <1>1, <1>8
  <2>2. ASSUME NEW i \in 1 .. n, i - 1 \in Good PROVE i \in Good
    BY <2>2, <1>1, <1>9
  <2> HIDE DEF Good
  <2> QED BY <2>1, <2>2, <1>1, IntervalInduction
<1>11. b \in [0 .. n -> X]
  BY <1>10
<1>12. b[0] = times /\ b[n] = iter[DOMAIN nodes]
  BY <1>1, <1>8
<1>13. \A i \in 1 .. n : b[i] = Backward(dpts, finish, b[i - 1], nodes[i])
  BY <1>1, <1>9
<1> HIDE DEF b
<1> QED BY <1>7, <1>11, <1>12, <1>13 DEF n, BackwardSteps

(* One node of the forward pass: it waits for the latest of what its       *)
(* dependencies hold, and for nothing else.                                *)
Delays(deps, tm, new, t) ==
  /\ new \in [Task -> Times]
  /\ \A u \in Task \ {t} : new[u] = tm[u]
  /\ new[t].latestStart = tm[t].latestStart
  /\ new[t].latestFinish = tm[t].latestFinish
  /\ new[t].earliestFinish >= 1
  /\ \A d \in ToSet(deps[t]) : new[t].earliestFinish >= tm[d].earliestFinish + 1
  /\ \/ new[t].earliestFinish = 1
     \/ \E d \in ToSet(deps[t]) : new[t].earliestFinish = tm[d].earliestFinish + 1

(* This is what Forward does.                                              *)
LEMMA ForwardDelays ==
  ASSUME NEW deps \in [Task -> Seq(Task)], NEW tm \in [Task -> Times], NEW t \in Task
  PROVE  Delays(deps, tm, Forward(deps, tm, t), t)
<1> DEFINE D == ToSet(deps[t])
           F == {tm[d].earliestFinish : d \in D}
           start == Max({0} \cup F)
           new == Forward(deps, tm, t)
<1>1. IsFiniteSet(D) /\ D \subseteq Task
  BY FiniteList
<1>2. F \in SUBSET Int
  BY <1>1 DEF Times
<1>3. IsFiniteSet(F)
  <2> DEFINE f == [d \in D |-> tm[d].earliestFinish]
  <2>1. F = {f[d] : d \in D}
    OBVIOUS
  <2> HIDE DEF f, F, D
  <2> QED BY <2>1, <1>1, FiniteImage
<1>4. IsFiniteSet({0} \cup F) /\ {0} \cup F \in SUBSET Int /\ {0} \cup F # {}
  <2> HIDE DEF F
  <2>1. {0} \cup F = F \cup {0}
    OBVIOUS
  <2>2. IsFiniteSet(F \cup {0})
    BY <1>3, FS_AddElement
  <2>3. {0} \cup F \in SUBSET Int
    BY <1>2
  <2>4. {0} \cup F # {}
    OBVIOUS
  <2> QED BY <2>1, <2>2, <2>3, <2>4
<1>5. start \in {0} \cup F /\ \A y \in {0} \cup F : start >= y
  <2> HIDE DEF F
  <2> QED BY <1>4, MaxIsGreatest
<1>6. start \in Int /\ start >= 0 /\ \A d \in D : start >= tm[d].earliestFinish
  BY <1>4, <1>5
<1>7. start = 0 \/ \E d \in D : start = tm[d].earliestFinish
  BY <1>5
<1>8. new = [tm EXCEPT ![t].earliestStart = start, ![t].earliestFinish = start + 1]
  BY DEF Forward, Duration
<1> HIDE DEF start, D, F
<1>9. new[t] = [tm[t] EXCEPT !.earliestStart = start, !.earliestFinish = start + 1]
  BY <1>8
<1>10. tm[t] \in Times
  OBVIOUS
<1>11. new[t] \in Times /\ new[t].earliestFinish = start + 1
       /\ new[t].latestStart = tm[t].latestStart
       /\ new[t].latestFinish = tm[t].latestFinish
  <2> HIDE DEF new
  <2>1. PICK r \in Times : r = tm[t]
    BY <1>10
  <2>2. PICK x \in Int : x = start
    BY <1>6
  <2>3. PICK y \in Int : y = start + 1
    BY <1>6
  <2>4. PICK q : q = new[t]
    OBVIOUS
  <2>5. q = [r EXCEPT !.earliestStart = x, !.earliestFinish = y]
    BY <1>9, <2>1, <2>2, <2>3, <2>4
  <2>6. /\ q \in Times /\ q.earliestFinish = y
        /\ q.latestStart = r.latestStart /\ q.latestFinish = r.latestFinish
    BY <2>5 DEF Times
  <2> QED BY <2>1, <2>2, <2>3, <2>4, <2>6
<1>12. \A u \in Task \ {t} : new[u] = tm[u]
  BY <1>8
<1>14. new \in [Task -> Times]
  <2>1. new = [u \in Task |-> new[u]]
    BY <1>8
  <2>2. \A u \in Task : new[u] \in Times
    BY <1>11, <1>12
  <2> HIDE DEF new
  <2> QED BY <2>1, <2>2
<1>15. D = ToSet(deps[t])
  BY DEF D
<1>16. \A d \in D : tm[d].earliestFinish \in Int
  BY <1>1 DEF Times
<1>17. start = 0 => new[t].earliestFinish = 1
  BY <1>11
<1>18. new[t].earliestFinish >= 1
       /\ \A d \in D : new[t].earliestFinish >= tm[d].earliestFinish + 1
  <2> HIDE DEF new
  <2> QED BY <1>6, <1>11, <1>16
<1>19. \/ new[t].earliestFinish = 1
       \/ \E d \in D : new[t].earliestFinish = tm[d].earliestFinish + 1
  <2> HIDE DEF new
  <2> QED BY <1>7, <1>11, <1>17
<1> HIDE DEF new
<1>20. Delays(deps, tm, new, t)
  BY <1>11, <1>12, <1>14, <1>15, <1>18, <1>19 DEF Delays
<1> QED BY <1>20 DEF new

(* One node of the backward pass.                                          *)
Advances(dpts, finish, tm, new, t) ==
  /\ new \in [Task -> Times]
  /\ \A u \in Task \ {t} : new[u] = tm[u]
  /\ new[t].earliestFinish = tm[t].earliestFinish
  /\ new[t].latestFinish = new[t].latestStart + 1
  /\ dpts[t] = <<>> => new[t].latestStart = finish - 1
  /\ dpts[t] # <<>> =>
       /\ \A d \in ToSet(dpts[t]) : new[t].latestStart <= tm[d].latestStart - 1
       /\ \E d \in ToSet(dpts[t]) : new[t].latestStart = tm[d].latestStart - 1

(* This is what Backward does.                                             *)
LEMMA BackwardAdvances ==
  ASSUME NEW dpts \in [Task -> Seq(Task)], NEW finish \in Int,
         NEW tm \in [Task -> Times], NEW t \in Task
  PROVE  Advances(dpts, finish, tm, Backward(dpts, finish, tm, t), t)
<1> DEFINE D == ToSet(dpts[t])
           F == {tm[d].latestStart : d \in D}
           latest == IF dpts[t] = <<>> THEN finish ELSE Min(F)
           new == Backward(dpts, finish, tm, t)
<1>1. IsFiniteSet(D) /\ D \subseteq Task /\ (D = {} <=> dpts[t] = <<>>)
  BY FiniteList
<1>2. F \in SUBSET Int /\ (D # {} => F # {})
  BY <1>1 DEF Times
<1>3. IsFiniteSet(F)
  <2> DEFINE f == [d \in D |-> tm[d].latestStart]
  <2>1. F = {f[d] : d \in D}
    OBVIOUS
  <2> HIDE DEF f, F, D
  <2> QED BY <2>1, <1>1, FiniteImage
<1>5. D # {} => Min(F) \in F /\ \A y \in F : Min(F) <= y
  <2> HIDE DEF F, D
  <2> QED BY <1>2, <1>3, MinIsLeast
<1>6. /\ latest \in Int
      /\ dpts[t] = <<>> => latest = finish
      /\ dpts[t] # <<>> => /\ \A d \in D : latest <= tm[d].latestStart
                           /\ \E d \in D : latest = tm[d].latestStart
  BY <1>1, <1>2, <1>5
<1>8. new = [tm EXCEPT ![t].latestFinish = latest, ![t].latestStart = latest - 1]
  BY DEF Backward, Duration
<1> HIDE DEF latest, D, F
<1>9. new[t] = [tm[t] EXCEPT !.latestFinish = latest, !.latestStart = latest - 1]
  BY <1>8
<1>10. tm[t] \in Times
  OBVIOUS
<1>11. new[t] \in Times /\ new[t].latestStart = latest - 1
       /\ new[t].earliestFinish = tm[t].earliestFinish
       /\ new[t].latestFinish = new[t].latestStart + 1
  <2> HIDE DEF new
  <2>1. PICK r \in Times : r = tm[t]
    BY <1>10
  <2>2. PICK x \in Int : x = latest
    BY <1>6
  <2>3. PICK y \in Int : y = latest - 1
    BY <1>6
  <2>4. PICK q : q = new[t]
    OBVIOUS
  <2>5. q = [r EXCEPT !.latestFinish = x, !.latestStart = y]
    BY <1>9, <2>1, <2>2, <2>3, <2>4
  <2>6. /\ q \in Times /\ q.latestStart = y /\ q.latestFinish = x
        /\ q.earliestFinish = r.earliestFinish
    BY <2>5 DEF Times
  <2> QED BY <2>1, <2>2, <2>3, <2>4, <2>6
<1>12. \A u \in Task \ {t} : new[u] = tm[u]
  BY <1>8
<1>14. new \in [Task -> Times]
  <2>1. new = [u \in Task |-> new[u]]
    BY <1>8
  <2>2. \A u \in Task : new[u] \in Times
    BY <1>11, <1>12
  <2> HIDE DEF new
  <2> QED BY <2>1, <2>2
<1>15. D = ToSet(dpts[t])
  BY DEF D
<1>16. \A d \in D : tm[d].latestStart \in Int
  BY <1>1 DEF Times
<1> HIDE DEF new
<1>17. dpts[t] # <<>> =>
         /\ \A d \in D : new[t].latestStart <= tm[d].latestStart - 1
         /\ \E d \in D : new[t].latestStart = tm[d].latestStart - 1
  BY <1>6, <1>11, <1>16
<1>20. Advances(dpts, finish, tm, new, t)
  BY <1>6, <1>11, <1>12, <1>14, <1>15, <1>17 DEF Advances
<1> QED BY <1>20 DEF new

(* The timings before and after the node with index i.                     *)
LEMMA NodeSteps ==
  ASSUME NEW nodes \in Seq(Task), NEW X, NEW h \in [0 .. Len(nodes) -> X],
         NEW i \in 1 .. Len(nodes)
  PROVE  /\ h[i - 1] \in X /\ h[i] \in X
         /\ nodes[i] \in Task /\ nodes[i] \in ToSet(nodes)
         /\ i \in 0 .. Len(nodes) /\ i - 1 \in 0 .. Len(nodes)
<1>1. i \in 0 .. Len(nodes) /\ i - 1 \in 0 .. Len(nodes) /\ i \in DOMAIN nodes
  OBVIOUS
<1> QED BY <1>1 DEF ToSet

(* All that is needed of a pass forward over the nodes followed by one     *)
(* back: the timings after each node.                                      *)
Passes(nodes, deps, dpts, times, f, b, finish) ==
  /\ f[0] = times
  /\ \A i \in 1 .. Len(nodes) : Delays(deps, f[i - 1], f[i], nodes[i])
  /\ \A t \in ToSet(nodes) : f[Len(nodes)][t].earliestFinish <= finish
  /\ \E t \in ToSet(nodes) : f[Len(nodes)][t].earliestFinish = finish
  /\ b[0] = f[Len(nodes)]
  /\ \A i \in 1 .. Len(nodes) : Advances(dpts, finish, b[i - 1], b[i], nodes[i])

(* updateTimings runs the two passes, the second with the finish that the  *)
(* first has found.                                                        *)
LEMMA UpdateTimingsPasses ==
  ASSUME NEW nodes \in Seq(Task), nodes # <<>>, NEW times \in [Task -> Times],
         NEW deps \in [Task -> Seq(Task)], NEW dpts \in [Task -> Seq(Task)]
  PROVE  \E f, b \in [0 .. Len(nodes) -> [Task -> Times]], finish \in Int :
           /\ Passes(nodes, deps, dpts, times, f, b, finish)
           /\ UpdateTimings(nodes, deps, dpts, times) = b[Len(nodes)]
<1> DEFINE n == Len(nodes)
           X == [Task -> Times]
<1>1. n \in Nat /\ DOMAIN nodes = 1 .. n /\ \A i \in 1 .. n : nodes[i] \in Task
  OBVIOUS
<1>2. \A tm \in X, t \in Task : Delays(deps, tm, Forward(deps, tm, t), t)
  BY ForwardDelays
<1>3. \A tm \in X, t \in Task : Forward(deps, tm, t) \in X
  BY <1>2 DEF Delays
<1>4. PICK f \in [0 .. n -> X] : ForwardSteps(deps, times, nodes, f)
  <2> HIDE DEF X
  <2>1. times \in X
    BY DEF X
  <2> QED BY <2>1, <1>3, ForwardRuns
<1>5. \A i \in 1 .. n : Delays(deps, f[i - 1], f[i], nodes[i])
  <2> TAKE i \in 1 .. n
  <2>1. f[i - 1] \in X /\ nodes[i] \in Task
    BY NodeSteps
  <2> QED BY <2>1, <1>2, <1>4 DEF ForwardSteps
<1> DEFINE last == f[n]
           F == {last[t].earliestFinish : t \in ToSet(nodes)}
           finish == Max(F)
<1>6. last \in X
  <2>1. n \in 0 .. n
    BY <1>1
  <2> HIDE DEF X, n
  <2> QED BY <2>1
<1>7. IsFiniteSet(ToSet(nodes)) /\ ToSet(nodes) \subseteq Task /\ ToSet(nodes) # {}
  BY FiniteList
<1>8. F \in SUBSET Int /\ F # {}
  BY ZenonT(30), <1>6, <1>7 DEF Times
<1>9. IsFiniteSet(F)
  <2> DEFINE g == [t \in ToSet(nodes) |-> last[t].earliestFinish]
  <2>1. F = {g[t] : t \in ToSet(nodes)}
    OBVIOUS
  <2> HIDE DEF g, F
  <2> QED BY ZenonT(30), <2>1, <1>7, FiniteImage
<1>10. finish \in F /\ \A y \in F : finish >= y
  <2> HIDE DEF F
  <2> QED BY <1>8, <1>9, MaxIsGreatest
<1>11. /\ finish \in Int
       /\ \A t \in ToSet(nodes) : last[t].earliestFinish <= finish
       /\ \E t \in ToSet(nodes) : last[t].earliestFinish = finish
  <2>1. \A t \in ToSet(nodes) : last[t].earliestFinish \in Int
    BY <1>6, <1>7 DEF Times
  <2> QED BY <1>8, <1>10, <2>1
<1>12. finish = ProjectFinish(nodes, last)
  BY DEF ProjectFinish
<1> HIDE DEF last, finish
<1>13. \A tm \in X, t \in Task : Advances(dpts, finish, tm, Backward(dpts, finish, tm, t), t)
  BY <1>11, BackwardAdvances
<1>14. \A tm \in X, t \in Task : Backward(dpts, finish, tm, t) \in X
  BY <1>13 DEF Advances
<1>15. PICK b \in [0 .. n -> X] : BackwardSteps(dpts, finish, last, nodes, b)
  <2> HIDE DEF X
  <2> QED BY <1>6, <1>14, BackwardRuns
<1>16. \A i \in 1 .. n : Advances(dpts, finish, b[i - 1], b[i], nodes[i])
  <2> TAKE i \in 1 .. n
  <2>1. b[i - 1] \in X /\ nodes[i] \in Task
    BY NodeSteps
  <2> QED BY <2>1, <1>13, <1>15 DEF BackwardSteps
<1>17. UpdateTimings(nodes, deps, dpts, times) = b[n]
  BY <1>4, <1>12, <1>15 DEF UpdateTimings, last, ForwardSteps, BackwardSteps
<1>18. Passes(nodes, deps, dpts, times, f, b, finish)
  BY <1>4, <1>5, <1>11, <1>15, <1>16 DEF Passes, last, ForwardSteps, BackwardSteps
<1> QED BY <1>11, <1>17, <1>18

(* Whatever the list is, and whatever was known before, the timings stay   *)
(* timings.                                                                *)
LEMMA UpdateTimingsType ==
  ASSUME NEW nodes \in Seq(Task), nodes # <<>>, NEW times \in [Task -> Times],
         NEW deps \in [Task -> Seq(Task)], NEW dpts \in [Task -> Seq(Task)]
  PROVE  UpdateTimings(nodes, deps, dpts, times) \in [Task -> Times]
<1>1. Len(nodes) \in 0 .. Len(nodes)
  OBVIOUS
<1>2. PICK b \in [0 .. Len(nodes) -> [Task -> Times]] :
        UpdateTimings(nodes, deps, dpts, times) = b[Len(nodes)]
  BY UpdateTimingsPasses
<1> QED BY <1>1, <1>2

(* A finish is at most one duration after that of a dependency, or that of *)
(* a task that waits for nothing.                                          *)
Justified(deps, tm) ==
  \A t \in Task :
    \/ tm[t].earliestFinish <= 1
    \/ \E d \in ToSet(deps[t]) : tm[t].earliestFinish <= tm[d].earliestFinish + 1

NotEarlier(tm, new) ==
  \A t \in Task : new[t].earliestFinish >= tm[t].earliestFinish

(* One node of the forward pass takes nothing back that was justified.     *)
LEMMA DelayNotEarlier ==
  ASSUME NEW deps \in [Task -> Seq(Task)], NEW tm \in [Task -> Times],
         NEW new, NEW t \in Task, Delays(deps, tm, new, t), Justified(deps, tm)
  PROVE  Justified(deps, new) /\ NotEarlier(tm, new)
<1>1. \A u \in Task : tm[u].earliestFinish \in Int /\ new[u].earliestFinish \in Int
  BY DEF Delays, Times
<1>2. \A u \in Task : ToSet(deps[u]) \subseteq Task
  BY FiniteList
<1>3. new[t].earliestFinish >= tm[t].earliestFinish
  <2>1. CASE tm[t].earliestFinish <= 1
    BY <2>1, <1>1 DEF Delays
  <2>2. CASE \E d \in ToSet(deps[t]) : tm[t].earliestFinish <= tm[d].earliestFinish + 1
    BY <2>2, <1>1, <1>2 DEF Delays
  <2> QED BY <2>1, <2>2 DEF Justified
<1>4. NotEarlier(tm, new)
  <2>1. \A u \in Task \ {t} : new[u].earliestFinish = tm[u].earliestFinish
    BY DEF Delays
  <2>2. \A u \in Task \ {t} : new[u].earliestFinish >= tm[u].earliestFinish
    BY <2>1, <1>1
  <2> QED BY <2>2, <1>3 DEF NotEarlier
<1>5. ASSUME NEW u \in Task
      PROVE  \/ new[u].earliestFinish <= 1
             \/ \E d \in ToSet(deps[u]) :
                  new[u].earliestFinish <= new[d].earliestFinish + 1
  <2>1. \/ new[u].earliestFinish <= 1
        \/ \E d \in ToSet(deps[u]) : new[u].earliestFinish <= tm[d].earliestFinish + 1
    <3>1. CASE u = t
      <4>1. CASE new[t].earliestFinish = 1
        BY <3>1, <4>1
      <4>2. CASE \E d \in ToSet(deps[t]) :
                   new[t].earliestFinish = tm[d].earliestFinish + 1
        BY <3>1, <4>2, <1>1, <1>2
      <4> QED BY <4>1, <4>2 DEF Delays
    <3>2. CASE u # t
      BY <3>2 DEF Delays, Justified
    <3> QED BY <3>1, <3>2
  <2>2. ASSUME NEW d \in ToSet(deps[u]),
               new[u].earliestFinish <= tm[d].earliestFinish + 1
        PROVE  new[u].earliestFinish <= new[d].earliestFinish + 1
    BY <2>2, <1>1, <1>2, <1>4 DEF NotEarlier
  <2> QED BY <2>1, <2>2
<1> QED BY <1>4, <1>5 DEF Justified

FinishesKept(tm, new) ==
  \A t \in Task : new[t].earliestFinish = tm[t].earliestFinish

LateKept(tm, new) ==
  \A t \in Task : /\ new[t].latestStart = tm[t].latestStart
                  /\ new[t].latestFinish = tm[t].latestFinish

(* The backward pass leaves the earliest finishes alone.                   *)
LEMMA BackwardKeepsFinishes ==
  ASSUME NEW nodes \in Seq(Task), NEW times \in [Task -> Times],
         NEW deps \in [Task -> Seq(Task)], NEW dpts \in [Task -> Seq(Task)],
         NEW f \in [0 .. Len(nodes) -> [Task -> Times]],
         NEW b \in [0 .. Len(nodes) -> [Task -> Times]], NEW finish \in Int,
         Passes(nodes, deps, dpts, times, f, b, finish)
  PROVE  FinishesKept(f[Len(nodes)], b[Len(nodes)])
<1> DEFINE n == Len(nodes)
           last == f[n]
           Good == {i \in 0 .. n : \A t \in Task :
                      b[i][t].earliestFinish = last[t].earliestFinish}
<1>1. n \in Nat /\ \A i \in 1 .. n : nodes[i] \in Task
  OBVIOUS
<1>2. 0 \in Good
  BY <1>1 DEF Passes
<1>3. ASSUME NEW i \in 1 .. n, i - 1 \in Good PROVE i \in Good
  <2>1. Advances(dpts, finish, b[i - 1], b[i], nodes[i]) /\ nodes[i] \in Task
    BY <1>1 DEF Passes
  <2>2. \A t \in Task : b[i][t].earliestFinish = b[i - 1][t].earliestFinish
    BY <2>1 DEF Advances
  <2> QED BY <2>2, <1>3
<1>4. n \in Good
  <2>1. n \in 0 .. n
    BY <1>1
  <2> HIDE DEF Good, n
  <2> QED BY <2>1, <1>1, <1>2, <1>3, IntervalInduction
<1> QED BY <1>4 DEF FinishesKept

(* The forward pass leaves the latest starts and finishes alone.           *)
LEMMA ForwardKeepsLate ==
  ASSUME NEW nodes \in Seq(Task), NEW times \in [Task -> Times],
         NEW deps \in [Task -> Seq(Task)], NEW dpts \in [Task -> Seq(Task)],
         NEW f \in [0 .. Len(nodes) -> [Task -> Times]],
         NEW b \in [0 .. Len(nodes) -> [Task -> Times]], NEW finish \in Int,
         Passes(nodes, deps, dpts, times, f, b, finish)
  PROVE  LateKept(times, b[0])
<1> DEFINE n == Len(nodes)
           Good == {i \in 0 .. n : \A t \in Task :
                      /\ f[i][t].latestStart = times[t].latestStart
                      /\ f[i][t].latestFinish = times[t].latestFinish}
<1>1. n \in Nat /\ \A i \in 1 .. n : nodes[i] \in Task
  OBVIOUS
<1>2. 0 \in Good
  BY <1>1 DEF Passes
<1>3. ASSUME NEW i \in 1 .. n, i - 1 \in Good PROVE i \in Good
  <2>1. Delays(deps, f[i - 1], f[i], nodes[i]) /\ nodes[i] \in Task
    BY <1>1 DEF Passes
  <2>2. \A t \in Task : /\ f[i][t].latestStart = f[i - 1][t].latestStart
                        /\ f[i][t].latestFinish = f[i - 1][t].latestFinish
    BY <2>1 DEF Delays
  <2> QED BY <2>2, <1>3
<1>4. \A i \in 0 .. n : i \in Good
  <2> HIDE DEF Good, n
  <2> QED BY <1>1, <1>2, <1>3, IntervalInduction
<1>5. n \in Good /\ b[0] = f[n]
  <2>1. n \in 0 .. n
    BY <1>1
  <2>2. n \in Good
    <3> HIDE DEF Good, n
    <3> QED BY <2>1, <1>4
  <2> QED BY <2>2 DEF Passes
<1> QED BY <1>5 DEF LateKept

(* A pass, taken apart.                                                    *)
Parts(nodes, deps, dpts, times, new, f, b, finish) ==
  /\ Passes(nodes, deps, dpts, times, f, b, finish)
  /\ new = b[Len(nodes)]
  /\ FinishesKept(f[Len(nodes)], new)
  /\ LateKept(times, b[0])

(* What updateTimings leaves, and what it has left alone on the way.       *)
LEMMA UpdateTimingsParts ==
  ASSUME NEW nodes \in Seq(Task), nodes # <<>>, NEW times \in [Task -> Times],
         NEW deps \in [Task -> Seq(Task)], NEW dpts \in [Task -> Seq(Task)],
         NEW new, new = UpdateTimings(nodes, deps, dpts, times)
  PROVE  \E f, b \in [0 .. Len(nodes) -> [Task -> Times]], finish \in Int :
           Parts(nodes, deps, dpts, times, new, f, b, finish)
<1>1. PICK f \in [0 .. Len(nodes) -> [Task -> Times]],
           b \in [0 .. Len(nodes) -> [Task -> Times]], finish \in Int :
        /\ Passes(nodes, deps, dpts, times, f, b, finish)
        /\ UpdateTimings(nodes, deps, dpts, times) = b[Len(nodes)]
  BY UpdateTimingsPasses
<1>2. FinishesKept(f[Len(nodes)], b[Len(nodes)])
  BY <1>1, BackwardKeepsFinishes
<1>3. LateKept(times, b[0])
  BY <1>1, ForwardKeepsLate
<1>4. Parts(nodes, deps, dpts, times, new, f, b, finish)
  BY <1>1, <1>2, <1>3 DEF Parts
<1> QED BY <1>4

(* Nor does a whole call of updateTimings.                                 *)
LEMMA UpdateNotEarlier ==
  ASSUME NEW nodes \in Seq(Task), nodes # <<>>, NEW times \in [Task -> Times],
         NEW deps \in [Task -> Seq(Task)], NEW dpts \in [Task -> Seq(Task)],
         Justified(deps, times)
  PROVE  /\ Justified(deps, UpdateTimings(nodes, deps, dpts, times))
         /\ NotEarlier(times, UpdateTimings(nodes, deps, dpts, times))
<1> DEFINE n == Len(nodes)
           new == UpdateTimings(nodes, deps, dpts, times)
<1>1. n \in Nat /\ \A i \in 1 .. n : nodes[i] \in Task
  OBVIOUS
<1>2. PICK f \in [0 .. n -> [Task -> Times]], b \in [0 .. n -> [Task -> Times]],
           finish \in Int : Parts(nodes, deps, dpts, times, new, f, b, finish)
  <2> HIDE DEF n
  <2> QED BY UpdateTimingsParts DEF n, new
<1> DEFINE Good == {i \in 0 .. n : Justified(deps, f[i]) /\ NotEarlier(times, f[i])}
<1>3. \A t \in Task : times[t].earliestFinish \in Int
  BY DEF Times
<1>4. 0 \in Good
  BY <1>1, <1>2, <1>3 DEF Parts, Passes, NotEarlier
<1>5. ASSUME NEW i \in 1 .. n, i - 1 \in Good PROVE i \in Good
  <2>1. /\ f[i - 1] \in [Task -> Times] /\ f[i] \in [Task -> Times]
        /\ nodes[i] \in Task /\ i - 1 \in 0 .. n /\ i \in 0 .. n
    BY NodeSteps
  <2>2. Delays(deps, f[i - 1], f[i], nodes[i])
    BY <1>2 DEF Parts, Passes
  <2>3. Justified(deps, f[i]) /\ NotEarlier(f[i - 1], f[i])
    BY <2>1, <2>2, <1>5, DelayNotEarlier
  <2>4. \A t \in Task : /\ f[i - 1][t].earliestFinish \in Int
                        /\ f[i][t].earliestFinish \in Int
    BY <2>1 DEF Times
  <2>5. ASSUME NEW t \in Task
        PROVE  f[i][t].earliestFinish >= times[t].earliestFinish
    <3>1. f[i][t].earliestFinish >= f[i - 1][t].earliestFinish
      BY <2>3 DEF NotEarlier
    <3>2. f[i - 1][t].earliestFinish >= times[t].earliestFinish
      BY <1>5 DEF NotEarlier
    <3> QED BY SMTT(30), <3>1, <3>2, <2>4, <1>3
  <2> QED BY <2>1, <2>3, <2>5 DEF NotEarlier
<1>6. \A i \in 0 .. n : i \in Good
  <2> HIDE DEF Good, n
  <2> QED BY <1>1, <1>4, <1>5, IntervalInduction
<1>7. n \in 0 .. n
  BY <1>1
<1>8. \A t \in Task : new[t].earliestFinish = f[n][t].earliestFinish
  BY <1>2 DEF Parts, FinishesKept
<1>9. \A t \in Task : ToSet(deps[t]) \subseteq Task
  BY FiniteList
<1>10. Justified(deps, f[n]) /\ NotEarlier(times, f[n])
  BY <1>6, <1>7
<1> HIDE DEF n, new
<1> QED BY <1>8, <1>9, <1>10 DEF Justified, NotEarlier, n, new

-----------------------------------------------------------------------------
(* What appending does to the set of elements of a list.                   *)
LEMMA AppendedElements ==
  ASSUME NEW s \in Seq(Task), NEW t \in Task
  PROVE  /\ Append(s, t) \in Seq(Task)
         /\ ToSet(Append(s, t)) = ToSet(s) \cup {t}
         /\ ToSet(s) \subseteq Task
<1>1. /\ Append(s, t) \in Seq(Task)
      /\ Len(Append(s, t)) = Len(s) + 1
      /\ \A i \in 1 .. Len(s) : Append(s, t)[i] = s[i]
      /\ Append(s, t)[Len(s) + 1] = t
      /\ Len(s) \in Nat
  OBVIOUS
<1>2. ToSet(s) \subseteq Task
  BY DEF ToSet
<1>3. \A x : x \in ToSet(Append(s, t)) => x \in ToSet(s) \cup {t}
  BY <1>1 DEF ToSet
<1>4. \A x \in ToSet(s) : x \in ToSet(Append(s, t))
  BY <1>1 DEF ToSet
<1>5. t \in ToSet(Append(s, t))
  BY <1>1 DEF ToSet
<1> QED BY <1>1, <1>2, <1>3, <1>4, <1>5

(* Creating the missing nodes adds just those two to the Map.              *)
LEMMA NodesAdded ==
  ASSUME order \in Seq(Task), NEW t \in Task, NEW d \in Task
  PROVE  /\ WithNodes(order, t, d) \in Seq(Task)
         /\ ToSet(WithNodes(order, t, d)) = ToSet(order) \cup {t, d}
<1>1. \A s \in Seq(Task), u \in Task :
        /\ WithNode(s, u) \in Seq(Task)
        /\ ToSet(WithNode(s, u)) = ToSet(s) \cup {u}
  BY AppendedElements DEF WithNode
<1>2. /\ WithNode(order, t) \in Seq(Task)
      /\ ToSet(WithNode(order, t)) = ToSet(order) \cup {t}
  BY <1>1
<1>3. /\ WithNode(WithNode(order, t), d) \in Seq(Task)
      /\ ToSet(WithNode(WithNode(order, t), d)) = ToSet(WithNode(order, t)) \cup {d}
  BY <1>1, <1>2
<1> QED BY <1>2, <1>3 DEF WithNodes

-----------------------------------------------------------------------------
(* The graph of a process that may end and be started again: a new graph   *)
(* is as the first one was.  The checklist has such a graph, and what is   *)
(* proved of it holds of the graph by itself.                              *)
RestartableSpec == Init /\ [][Next \/ Init']_vars

LEMMA NeedNotRestart == Spec => RestartableSpec
<1>1. [Next]_vars => [Next \/ Init']_vars
  OBVIOUS
<1> QED BY <1>1, PTL DEF Spec, RestartableSpec

(* addDependency and calculateCriticalPath put nothing but tasks into the  *)
(* lists, a process that starts again included.                            *)
LEMMA GraphTypeStays == RestartableSpec => []GraphTypeOK
<1>1. Init => GraphTypeOK
  BY DEF Init, GraphTypeOK
<1>2. GraphTypeOK /\ [Next]_vars => GraphTypeOK'
  <2> SUFFICES ASSUME GraphTypeOK, [Next]_vars PROVE GraphTypeOK'
    OBVIOUS
  <2> USE DEF GraphTypeOK
  <2>1. ASSUME NEW t \in Task, NEW d \in Task, AddDependency(t, d)
        PROVE  GraphTypeOK'
    BY <2>1, NodesAdded, AppendedElements DEF AddDependency
  <2>2. ASSUME NEW t \in Task, NEW d \in Task, RejectDependency(t, d)
        PROVE  GraphTypeOK'
    BY <2>2, NodesAdded DEF RejectDependency
  <2>3. CASE CalculateCriticalPath
    BY <2>3 DEF CalculateCriticalPath
  <2>4. CASE UNCHANGED vars
    BY <2>4 DEF vars
  <2> QED BY <2>1, <2>2, <2>3, <2>4 DEF Next
<1> QED BY <1>1, <1>2, PTL DEF RestartableSpec

(* The lists keep holding tasks: addDependency, calculateCriticalPath.     *)
THEOREM GraphTypeCorrect == Spec => []GraphTypeOK
<1> QED BY GraphTypeStays, NeedNotRestart, PTL

(* A dependency of t on d that the check lets pass closes no cycle.  Let S *)
(* be a set in which every task has a dependency afterwards.  Some closed  *)
(* set R contains d but not t, so within R only old dependencies count: if *)
(* S meets R, their intersection was such a set before.  If it does not,   *)
(* d is outside S and S itself was.                                        *)
LEMMA NoNewCycle ==
  ASSUME GraphTypeOK, Acyclic, NEW t \in Task, NEW d \in Task,
         AddDependency(t, d)
  PROVE  Acyclic'
<1>1. \A u \in Task :
        ToSet(dependencies'[u]) = IF u = t THEN ToSet(dependencies[u]) \cup {d}
                                           ELSE ToSet(dependencies[u])
  BY AppendedElements DEF AddDependency, GraphTypeOK
<1>2. PICK R \in SUBSET Task : d \in R /\ ClosedUnderDependencies(R) /\ t \notin R
  BY DEF AddDependency, WillCreateCycle, Reaches
<1> SUFFICES ASSUME NEW S \in SUBSET Task, S # {},
                    \A u \in S : ToSet(dependencies'[u]) \cap S # {}
             PROVE  FALSE
  BY DEF Acyclic
<1>3. CASE S \cap R = {}
  <2>1. \A u \in S : ToSet(dependencies[u]) \cap S # {}
    BY ZenonT(30), <1>1, <1>2, <1>3
  <2> QED BY <2>1 DEF Acyclic
<1>4. CASE S \cap R # {}
  <2>1. \A u \in S \cap R : ToSet(dependencies[u]) \cap (S \cap R) # {}
    BY <1>1, <1>2 DEF ClosedUnderDependencies
  <2> QED BY <2>1, <1>4 DEF Acyclic
<1> QED BY <1>3, <1>4

(* No sequence of calls and restarts ever brings a cycle about.            *)
LEMMA StaysAcyclic == RestartableSpec => []Acyclic
<1>1. Init => Acyclic
  BY DEF Init, Acyclic, ToSet
<1>2. GraphTypeOK /\ Acyclic /\ [Next]_vars => Acyclic'
  <2> SUFFICES ASSUME GraphTypeOK, Acyclic, [Next]_vars PROVE Acyclic'
    OBVIOUS
  <2>1. ASSUME NEW t \in Task, NEW d \in Task, AddDependency(t, d)
        PROVE  Acyclic'
    BY <2>1, NoNewCycle
  <2>2. CASE UNCHANGED dependencies
    BY <2>2 DEF Acyclic
  <2> QED
    BY <2>1, <2>2 DEF Next, RejectDependency, CalculateCriticalPath, vars
<1> QED BY <1>1, <1>2, GraphTypeStays, PTL DEF RestartableSpec

(* No sequence of calls of addDependency and calculateCriticalPath,        *)
(* refused ones included, ever brings a cycle about.                       *)
THEOREM AlwaysAcyclic == Spec => []Acyclic
<1> QED BY StaysAcyclic, NeedNotRestart, PTL

(* Both sides of every dependency are entered, between nodes of the Map.   *)
LEMMA SidesKeepAgreeing == RestartableSpec => []BothSidesAgree
<1>1. Init => BothSidesAgree
  BY DEF Init, BothSidesAgree, ToSet
<1>2. GraphTypeOK /\ BothSidesAgree /\ [Next]_vars => BothSidesAgree'
  <2> SUFFICES ASSUME GraphTypeOK, BothSidesAgree, [Next]_vars
               PROVE  BothSidesAgree'
    OBVIOUS
  <2>1. ASSUME NEW t \in Task, NEW d \in Task, AddDependency(t, d)
        PROVE  BothSidesAgree'
    <3>1. /\ \A u \in Task : ToSet(dependencies'[u]) =
               IF u = t THEN ToSet(dependencies[u]) \cup {d}
                        ELSE ToSet(dependencies[u])
          /\ \A u \in Task : ToSet(dependents'[u]) =
               IF u = d THEN ToSet(dependents[u]) \cup {t}
                        ELSE ToSet(dependents[u])
      BY <2>1, AppendedElements DEF AddDependency, GraphTypeOK
    <3>2. ToSet(order') = ToSet(order) \cup {t, d}
      BY <2>1, NodesAdded DEF AddDependency, GraphTypeOK
    <3> SUFFICES ASSUME NEW u \in Task, NEW e \in Task
                 PROVE  /\ e \in ToSet(dependencies'[u]) <=> u \in ToSet(dependents'[e])
                        /\ e \in ToSet(dependencies'[u]) => {u, e} \subseteq ToSet(order')
      BY DEF BothSidesAgree
    <3>3. /\ e \in ToSet(dependencies'[u]) <=>
               e \in ToSet(dependencies[u]) \/ (u = t /\ e = d)
          /\ u \in ToSet(dependents'[e]) <=>
               u \in ToSet(dependents[e]) \/ (u = t /\ e = d)
      BY <3>1
    <3> QED BY <3>2, <3>3 DEF BothSidesAgree
  <2>2. ASSUME NEW t \in Task, NEW d \in Task, RejectDependency(t, d)
        PROVE  BothSidesAgree'
    <3>1. ToSet(order') = ToSet(order) \cup {t, d}
      BY <2>2, NodesAdded DEF RejectDependency, GraphTypeOK
    <3> QED BY <2>2, <3>1 DEF RejectDependency, BothSidesAgree
  <2>3. CASE UNCHANGED <<order, dependencies, dependents>>
    BY <2>3 DEF BothSidesAgree
  <2> QED BY <2>1, <2>2, <2>3 DEF Next, CalculateCriticalPath, vars
<1> QED BY <1>1, <1>2, GraphTypeStays, PTL DEF RestartableSpec

(* addDependency enters a dependency on both sides, and only between nodes *)
(* of the Map, which the passes therefore all visit.                       *)
THEOREM SidesAlwaysAgree == Spec => []BothSidesAgree
<1> QED BY SidesKeepAgreeing, NeedNotRestart, PTL

(* A node that the Map already has is not set again.                       *)
LEMMA NodeAddedOnce ==
  ASSUME NEW s \in Seq(Task), IsInjective(s), NEW t \in Task
  PROVE  IsInjective(WithNode(s, t))
<1>1. /\ DOMAIN s = 1 .. Len(s) /\ Len(s) \in Nat
      /\ DOMAIN Append(s, t) = 1 .. (Len(s) + 1)
      /\ \A i \in 1 .. Len(s) : Append(s, t)[i] = s[i]
      /\ Append(s, t)[Len(s) + 1] = t
  OBVIOUS
<1>2. CASE t \in ToSet(s)
  BY <1>2 DEF WithNode
<1>3. CASE t \notin ToSet(s)
  <2>1. \A i \in DOMAIN s : s[i] # t
    BY <1>3 DEF ToSet
  <2>2. IsInjective(Append(s, t))
    BY <1>1, <2>1 DEF IsInjective
  <2> QED BY <1>3, <2>2 DEF WithNode
<1> QED BY <1>2, <1>3

(* The two nodes of a call are in the Map once each.                       *)
LEMMA NodesAddedOnce ==
  ASSUME order \in Seq(Task), IsInjective(order), NEW t \in Task, NEW d \in Task
  PROVE  IsInjective(WithNodes(order, t, d)) /\ WithNodes(order, t, d) # <<>>
<1>1. WithNode(order, t) \in Seq(Task)
  BY AppendedElements DEF WithNode
<1>2. IsInjective(WithNodes(order, t, d))
  BY <1>1, NodeAddedOnce DEF WithNodes
<1>3. t \in ToSet(WithNodes(order, t, d))
  BY NodesAdded
<1>4. ToSet(<<>>) = {}
  BY DEF ToSet
<1> QED BY <1>2, <1>3, <1>4

(* The schedule with the graph it was last computed for.                   *)
ScheduleInv == TypeOK /\ Justified(dependencies, timing)

(* A new dependency justifies what the old ones did, so the pass that      *)
(* follows it takes nothing back.                                          *)
LEMMA AddKeepsSchedule ==
  ASSUME ScheduleInv, NEW t \in Task, NEW d \in Task, AddDependency(t, d)
  PROVE  ScheduleInv' /\ NotEarlier(timing, timing')
<1>1. /\ order' \in Seq(Task) /\ order' # <<>> /\ IsInjective(order')
      /\ timing \in [Task -> Times]
  BY NodesAdded, NodesAddedOnce DEF AddDependency, ScheduleInv, TypeOK, GraphTypeOK
<1>2. /\ dependencies' \in [Task -> Seq(Task)] /\ dependents' \in [Task -> Seq(Task)]
      /\ \A u \in Task : ToSet(dependencies[u]) \subseteq ToSet(dependencies'[u])
  BY AppendedElements DEF AddDependency, ScheduleInv, TypeOK, GraphTypeOK
<1>3. Justified(dependencies', timing)
  BY <1>2 DEF ScheduleInv, Justified
<1>4. timing' = UpdateTimings(order', dependencies', dependents', timing)
  BY DEF AddDependency
<1>5. timing' \in [Task -> Times]
  BY <1>1, <1>2, <1>4, UpdateTimingsType
<1>6. Justified(dependencies', timing') /\ NotEarlier(timing, timing')
  BY <1>1, <1>2, <1>3, <1>4, UpdateNotEarlier
<1> QED BY <1>1, <1>2, <1>5, <1>6 DEF ScheduleInv, TypeOK, GraphTypeOK

(* A refused call leaves the schedule alone, and asking for the critical   *)
(* path runs the passes once more.                                         *)
LEMMA OthersKeepSchedule ==
  ASSUME ScheduleInv,
         \/ \E t, d \in Task : RejectDependency(t, d)
         \/ CalculateCriticalPath
         \/ UNCHANGED vars
  PROVE  ScheduleInv' /\ NotEarlier(timing, timing')
<1>0. \A t \in Task : timing[t].earliestFinish \in Int
  BY DEF ScheduleInv, TypeOK, Times
<1>1. ASSUME NEW t \in Task, NEW d \in Task, RejectDependency(t, d)
      PROVE  ScheduleInv' /\ NotEarlier(timing, timing')
  <2>1. order' \in Seq(Task) /\ IsInjective(order')
    BY <1>1, NodesAdded, NodesAddedOnce DEF RejectDependency, ScheduleInv, TypeOK,
       GraphTypeOK
  <2>2. UNCHANGED <<dependencies, dependents, timing>>
    BY <1>1 DEF RejectDependency
  <2> QED BY <1>0, <2>1, <2>2 DEF ScheduleInv, TypeOK, GraphTypeOK, NotEarlier
<1>2. CASE CalculateCriticalPath
  <2>1. /\ order # <<>> /\ UNCHANGED <<order, dependencies, dependents>>
        /\ timing' = UpdateTimings(order, dependencies, dependents, timing)
    BY <1>2 DEF CalculateCriticalPath
  <2>2. /\ order \in Seq(Task) /\ timing \in [Task -> Times]
        /\ dependencies \in [Task -> Seq(Task)]
        /\ dependents \in [Task -> Seq(Task)]
        /\ Justified(dependencies, timing)
    BY DEF ScheduleInv, TypeOK, GraphTypeOK
  <2>3. timing' \in [Task -> Times]
    BY <2>1, <2>2, UpdateTimingsType
  <2>4. Justified(dependencies, timing') /\ NotEarlier(timing, timing')
    BY <2>1, <2>2, UpdateNotEarlier
  <2> QED BY <2>1, <2>3, <2>4 DEF ScheduleInv, TypeOK, GraphTypeOK
<1>3. CASE UNCHANGED vars
  BY <1>0, <1>3 DEF vars, ScheduleInv, TypeOK, GraphTypeOK, NotEarlier
<1> QED BY <1>1, <1>2, <1>3

(* Every finish that is ever shown is justified by a dependency.           *)
LEMMA ScheduleAlwaysJustified == RestartableSpec => []ScheduleInv
<1>1. Init => ScheduleInv
  <2> SUFFICES ASSUME Init PROVE ScheduleInv
    OBVIOUS
  <2>1. GraphTypeOK /\ IsInjective(order)
    BY DEF Init, GraphTypeOK, IsInjective
  <2>2. timing \in [Task -> Times] /\ \A t \in Task : timing[t].earliestFinish = 0
    BY DEF Init, Times
  <2> QED BY <2>1, <2>2 DEF ScheduleInv, TypeOK, Justified
<1>2. ScheduleInv /\ [Next]_vars => ScheduleInv'
  BY AddKeepsSchedule, OthersKeepSchedule DEF Next
<1> QED BY <1>1, <1>2, PTL DEF RestartableSpec

(* The lists keep holding tasks, the Map each task once, and the schedule  *)
(* times, however many passes have run over the graph.                     *)
LEMMA TypeStays == RestartableSpec => []TypeOK
<1>1. ScheduleInv => TypeOK
  BY DEF ScheduleInv
<1> QED BY <1>1, ScheduleAlwaysJustified, PTL

(* So do they without restarts: updateTimings of dependency.ts.            *)
THEOREM TypeCorrect == Spec => []TypeOK
<1> QED BY TypeStays, NeedNotRestart, PTL

(* No call ever takes back what a pass of updateTimings has found: every   *)
(* earliest finish stays or moves to a later time.                         *)
THEOREM FinishesOnlyGrow == Spec => FinishNeverMovesEarlier
<1>1. ScheduleInv /\ [Next]_vars =>
        [\A t \in Task : timing'[t].earliestFinish >= timing[t].earliestFinish]_vars
  <2> SUFFICES ASSUME ScheduleInv, [Next]_vars
               PROVE  NotEarlier(timing, timing')
    BY DEF NotEarlier
  <2> QED BY AddKeepsSchedule, OthersKeepSchedule DEF Next
<1> QED BY <1>1, ScheduleAlwaysJustified, NeedNotRestart, PTL
        DEF Spec, FinishNeverMovesEarlier

-----------------------------------------------------------------------------
(* Repeating a step n times.                                               *)
IsIteration(h, n, base, step) ==
  h[0] = base /\ \A i \in 1 .. n : h[i] = step[h[i - 1]]

(* There is such a sequence.                                               *)
LEMMA IterationExists ==
  ASSUME NEW n \in Nat, NEW X, NEW base \in X, NEW step \in [X -> X]
  PROVE  \E h \in [0 .. n -> X] : IsIteration(h, n, base, step)
<1> DEFINE steps == [i \in 1 .. n |-> step]
<1>1. steps \in [1 .. n -> [X -> X]]
  OBVIOUS
<1>2. PICK g \in [SUBSET (1 .. n) -> X] : IsFold(g, n, base, steps)
  <2> HIDE DEF steps
  <2> QED BY <1>1, FoldExists
<1> DEFINE h == [i \in 0 .. n |-> g[1 .. i]]
<1>3. h \in [0 .. n -> X]
  <2>1. \A i \in 0 .. n : 1 .. i \in SUBSET (1 .. n)
    OBVIOUS
  <2> QED BY <2>1
<1>4. h[0] = base
  <2>1. 1 .. 0 = {} /\ 0 \in 0 .. n
    OBVIOUS
  <2> QED BY <2>1, <1>2 DEF IsFold
<1>5. ASSUME NEW i \in 1 .. n PROVE h[i] = step[h[i - 1]]
  <2>1. /\ i \in Nat \ {0} /\ i \in 0 .. n /\ i - 1 \in 0 .. n
        /\ 1 .. i \in SUBSET (1 .. n)
    OBVIOUS
  <2>2. /\ 1 .. i # {} /\ Max(1 .. i) = i
        /\ (1 .. i) \ {i} = 1 .. (i - 1)
    BY <2>1, InitialInterval
  <2>3. g[1 .. i] = steps[i][g[1 .. (i - 1)]]
    BY <2>1, <2>2, <1>2 DEF IsFold
  <2> QED BY <2>1, <2>3
<1> HIDE DEF h
<1> QED BY <1>3, <1>4, <1>5 DEF IsIteration

(* One more round of LongestChain.                                         *)
Longer(next, c) ==
  [t \in Task |-> 1 + Max({0} \cup {c[u] : u \in ToSet(next[t])})]

OneLonger(next, c, new) ==
  \A t \in Task :
    /\ new[t] >= 1
    /\ \A u \in ToSet(next[t]) : new[t] >= c[u] + 1
    /\ new[t] = 1 \/ \E u \in ToSet(next[t]) : new[t] = c[u] + 1

(* The maximum of a round is reached by one of the tasks, and by none      *)
(* exceeded.                                                               *)
LEMMA LongerIsOneLonger ==
  ASSUME NEW next \in [Task -> Seq(Task)], NEW c \in [Task -> Nat]
  PROVE  Longer(next, c) \in [Task -> Nat] /\ OneLonger(next, c, Longer(next, c))
<1> SUFFICES ASSUME NEW t \in Task
             PROVE  /\ Longer(next, c)[t] \in Nat
                    /\ Longer(next, c)[t] >= 1
                    /\ \A u \in ToSet(next[t]) : Longer(next, c)[t] >= c[u] + 1
                    /\ \/ Longer(next, c)[t] = 1
                       \/ \E u \in ToSet(next[t]) : Longer(next, c)[t] = c[u] + 1
  BY DEF OneLonger, Longer
<1> DEFINE D == ToSet(next[t])
           F == {c[u] : u \in D}
           longest == Max({0} \cup F)
<1>1. IsFiniteSet(D) /\ D \subseteq Task
  BY FiniteList
<1>2. F \in SUBSET Nat
  BY <1>1
<1>3. IsFiniteSet(F)
  BY <1>1, FiniteImage
<1>4. longest \in {0} \cup F /\ \A y \in {0} \cup F : longest >= y
  <2> HIDE DEF F
  <2>1. {0} \cup F = F \cup {0}
    OBVIOUS
  <2>2. IsFiniteSet(F \cup {0})
    BY <1>3, FS_AddElement
  <2>3. {0} \cup F \in SUBSET Int /\ {0} \cup F # {}
    BY <1>2
  <2> QED BY <2>1, <2>2, <2>3, MaxIsGreatest
<1>5. Longer(next, c)[t] = longest + 1
  BY <1>2, <1>4 DEF Longer
<1> HIDE DEF longest
<1>6. longest \in Nat /\ \A u \in D : longest >= c[u] /\ c[u] \in Nat
  BY <1>1, <1>2, <1>4
<1>7. longest = 0 \/ \E u \in D : longest = c[u]
  BY <1>4
<1> QED BY <1>5, <1>6, <1>7

(* LongestChain is computed in as many such rounds as there are tasks.     *)
LEMMA ChainRounds ==
  ASSUME TaskAssumption, NEW next \in [Task -> Seq(Task)]
  PROVE  \E c \in [0 .. Cardinality(Task) -> [Task -> Nat]] :
           /\ \A t \in Task : c[0][t] = 0
           /\ \A i \in 1 .. Cardinality(Task) : OneLonger(next, c[i - 1], c[i])
           /\ LongestChain(next) = c[Cardinality(Task)]
<1> DEFINE N == Cardinality(Task)
           X == [Task -> Nat]
           zero == [t \in Task |-> 0]
           step == [x \in X |-> Longer(next, x)]
           Computes(g) ==
             g = [n \in 0 .. N |-> IF n = 0 THEN zero ELSE Longer(next, g[n - 1])]
           chain == CHOOSE g : Computes(g)
<1>1. N \in Nat /\ zero \in X
  BY FS_CardinalityType DEF TaskAssumption
<1>2. \A x \in X : Longer(next, x) \in X /\ OneLonger(next, x, Longer(next, x))
  BY LongerIsOneLonger
<1>3. step \in [X -> X]
  BY <1>2
<1> HIDE DEF N, X, zero
<1>4. PICK h \in [0 .. N -> X] : IsIteration(h, N, zero, step)
  <2> HIDE DEF step, Computes
  <2> QED BY <1>1, <1>3, IterationExists
<1>5. Computes(h)
  <2>1. ASSUME NEW i \in 1 .. N PROVE h[i] = Longer(next, h[i - 1])
    <3>1. h[i - 1] \in X
      BY <1>1
    <3> QED BY <3>1, <1>4 DEF IsIteration
  <2>2. h = [n \in 0 .. N |-> h[n]]
    OBVIOUS
  <2>3. \A n \in 0 .. N : h[n] = IF n = 0 THEN zero ELSE Longer(next, h[n - 1])
    BY <2>1, <1>1, <1>4 DEF IsIteration
  <2> QED BY <2>2, <2>3
<1>6. Computes(chain)
  <2> HIDE DEF Computes
  <2> QED BY <1>5
<1>7. LongestChain(next) = chain[N]
  BY DEF LongestChain, Longer, N, zero
<1> HIDE DEF chain
<1>8. chain[0] = zero /\ \A i \in 1 .. N : chain[i] = Longer(next, chain[i - 1])
  BY <1>1, <1>6
<1> DEFINE Good == {i \in 0 .. N : chain[i] \in X}
<1>9. \A i \in 0 .. N : i \in Good
  <2>1. 0 \in Good
    BY <1>1, <1>8
  <2>2. ASSUME NEW i \in 1 .. N, i - 1 \in Good PROVE i \in Good
    BY <2>2, <1>1, <1>2, <1>8
  <2> HIDE DEF Good
  <2> QED BY <2>1, <2>2, <1>1, IntervalInduction
<1>10. chain \in [0 .. N -> X]
  BY <1>6, <1>9
<1>11. \A i \in 1 .. N : OneLonger(next, chain[i - 1], chain[i])
  <2> TAKE i \in 1 .. N
  <2>1. chain[i - 1] \in X
    BY <1>1, <1>10
  <2> QED BY <2>1, <1>2, <1>8
<1>12. \A t \in Task : chain[0][t] = 0
  BY <1>8 DEF zero
<1> QED BY <1>7, <1>10, <1>11, <1>12 DEF N, X

AcyclicAlong(next) ==
  \A S \in SUBSET Task : S # {} => \E t \in S : ToSet(next[t]) \cap S = {}

(* In round k, a chain has grown to k, or it is as long as it was.         *)
GrownOrDone(h, k) ==
  \A t \in Task :
    \/ h[k][t] = k /\ h[k - 1][t] = k - 1
    \/ h[k][t] = h[k - 1][t] /\ h[k - 1][t] <= k - 1

(* What has grown in one round has grown because of something that had     *)
(* grown in the round before.                                              *)
LEMMA NextRound ==
  ASSUME NEW next \in [Task -> Seq(Task)], NEW k \in Nat \ {0},
         NEW a \in [Task -> Nat], NEW b \in [Task -> Nat], NEW c \in [Task -> Nat],
         OneLonger(next, a, b), OneLonger(next, b, c),
         \A t \in Task : \/ b[t] = k /\ a[t] = k - 1
                         \/ b[t] = a[t] /\ a[t] <= k - 1
  PROVE  \A t \in Task : \/ c[t] = k + 1 /\ b[t] = k
                         \/ c[t] = b[t] /\ b[t] <= k
<1> SUFFICES ASSUME NEW t \in Task
             PROVE  \/ c[t] = k + 1 /\ b[t] = k
                    \/ c[t] = b[t] /\ b[t] <= k
  OBVIOUS
<1>1. ToSet(next[t]) \subseteq Task
  BY FiniteList
<1>2. \A u \in Task : a[u] \in Nat /\ b[u] \in Nat /\ c[u] \in Nat /\ b[u] <= k
                      /\ a[u] <= b[u]
  <2> TAKE u \in Task
  <2>1. a[u] \in Nat /\ b[u] \in Nat /\ c[u] \in Nat
    OBVIOUS
  <2>2. \/ b[u] = k /\ a[u] = k - 1
        \/ b[u] = a[u] /\ a[u] <= k - 1
    OBVIOUS
  <2> QED BY <2>1, <2>2
<1>3. c[t] >= b[t]
  <2>1. CASE b[t] = 1
    BY <2>1, <1>2 DEF OneLonger
  <2>2. ASSUME NEW u \in ToSet(next[t]), b[t] = a[u] + 1
        PROVE  c[t] >= b[t]
    <3>1. c[t] >= b[u] + 1 /\ u \in Task
      BY <1>1 DEF OneLonger
    <3> QED BY <3>1, <2>2, <1>2
  <2> QED BY <2>1, <2>2 DEF OneLonger
<1>4. CASE c[t] = 1
  BY <1>2, <1>3, <1>4 DEF OneLonger
<1>5. ASSUME NEW u \in ToSet(next[t]), c[t] = b[u] + 1
      PROVE  \/ c[t] = k + 1 /\ b[t] = k
             \/ c[t] = b[t] /\ b[t] <= k
  <2>1. u \in Task /\ b[t] >= a[u] + 1
    BY <1>1 DEF OneLonger
  <2>2. CASE b[u] = k /\ a[u] = k - 1
    BY <2>1, <2>2, <1>2, <1>5
  <2>3. CASE b[u] = a[u] /\ a[u] <= k - 1
    BY <2>1, <2>3, <1>2, <1>3, <1>5
  <2> QED BY <2>1, <2>2, <2>3
<1> QED BY <1>4, <1>5 DEF OneLonger

(* The tasks with a chain of k can only become fewer with every round,     *)
(* because all of them cannot go on among themselves; so there are none    *)
(* left after as many rounds as there are tasks, and nothing grows.        *)
LEMMA ChainSettles ==
  ASSUME TaskAssumption, NEW next \in [Task -> Seq(Task)], AcyclicAlong(next)
  PROVE  /\ LongestChain(next) \in [Task -> Nat]
         /\ OneLonger(next, LongestChain(next), LongestChain(next))
<1> DEFINE N == Cardinality(Task)
           L == LongestChain(next)
<1>1. N \in Nat /\ IsFiniteSet(Task)
  BY FS_CardinalityType DEF TaskAssumption
<1>2. PICK c \in [0 .. N -> [Task -> Nat]] :
        /\ \A t \in Task : c[0][t] = 0
        /\ \A i \in 1 .. N : OneLonger(next, c[i - 1], c[i])
        /\ L = c[N]
  BY ChainRounds
<1>3. L \in [Task -> Nat]
  BY <1>1, <1>2
<1> DEFINE h == [i \in 0 .. (N + 1) |-> IF i = N + 1 THEN Longer(next, L) ELSE c[i]]
<1> HIDE DEF N, L
<1>4. Longer(next, L) \in [Task -> Nat] /\ OneLonger(next, L, Longer(next, L))
  BY <1>3, LongerIsOneLonger
<1>5. h \in [0 .. (N + 1) -> [Task -> Nat]]
  <2>1. \A i \in 0 .. (N + 1) : i # N + 1 => i \in 0 .. N
    BY <1>1
  <2> QED BY <2>1, <1>4
<1>6. \A t \in Task : h[0][t] = 0
  BY <1>1, <1>2
<1>7. ASSUME NEW i \in 1 .. (N + 1) PROVE OneLonger(next, h[i - 1], h[i])
  <2>1. CASE i = N + 1
    <3>1. h[i] = Longer(next, L) /\ h[i - 1] = c[N]
      BY <2>1, <1>1
    <3> QED BY <3>1, <1>2, <1>4
  <2>2. CASE i # N + 1
    <3>1. i \in 1 .. N /\ h[i] = c[i] /\ h[i - 1] = c[i - 1]
      BY <2>2, <1>1
    <3> QED BY <3>1, <1>2
  <2> QED BY <2>1, <2>2
<1>8. h[N] = L /\ h[N + 1] = Longer(next, L)
  BY <1>1, <1>2
<1> HIDE DEF h
<1>9. \A i \in 0 .. (N + 1) : h[i] \in [Task -> Nat]
  BY <1>5
<1>10. ASSUME NEW k \in 1 .. (N + 1) PROVE GrownOrDone(h, k)
  <2> DEFINE Good == {i \in 0 .. (N + 1) : i = 0 \/ GrownOrDone(h, i)}
  <2>1. 0 \in Good
    BY <1>1
  <2>2. ASSUME NEW i \in 1 .. (N + 1), i - 1 \in Good PROVE i \in Good
    <3>0. i \in 0 .. (N + 1) /\ i - 1 \in 0 .. (N + 1)
      BY <1>1
    <3>1. CASE i = 1
      <4>1. OneLonger(next, h[0], h[1])
        BY <3>1, <1>7
      <4>2. \A t \in Task : ToSet(next[t]) \subseteq Task
        BY FiniteList
      <4>3. \A t \in Task : h[1][t] = 1
        BY SMTT(30), <4>1, <4>2, <1>6 DEF OneLonger
      <4> QED BY <3>0, <3>1, <4>3, <1>6 DEF GrownOrDone
    <3>2. CASE i # 1
      <4>1. i - 1 \in Nat \ {0} /\ i - 1 \in 1 .. (N + 1) /\ i - 2 \in 0 .. (N + 1)
        BY <3>2, <1>1
      <4>2. /\ OneLonger(next, h[i - 2], h[i - 1])
            /\ OneLonger(next, h[i - 1], h[i])
        <5>1. OneLonger(next, h[(i - 1) - 1], h[i - 1])
          BY <4>1, <1>7
        <5>2. (i - 1) - 1 = i - 2
          OBVIOUS
        <5> QED BY <5>1, <5>2, <1>7
      <4>3. \A t \in Task : \/ h[i - 1][t] = i - 1 /\ h[i - 2][t] = (i - 1) - 1
                            \/ h[i - 1][t] = h[i - 2][t] /\ h[i - 2][t] <= (i - 1) - 1
        <5>1. GrownOrDone(h, i - 1) /\ (i - 1) - 1 = i - 2
          BY <2>2, <3>2
        <5> QED BY <5>1 DEF GrownOrDone
      <4>4. PICK a \in [Task -> Nat] : a = h[i - 2]
        BY <4>1, <1>9
      <4>5. PICK b \in [Task -> Nat] : b = h[i - 1]
        BY <3>0, <1>9
      <4>6. PICK d \in [Task -> Nat] : d = h[i]
        BY <3>0, <1>9
      <4>7. PICK k1 \in Nat \ {0} : k1 = i - 1
        BY <4>1
      <4>8. \A t \in Task : \/ d[t] = k1 + 1 /\ b[t] = k1
                            \/ d[t] = b[t] /\ b[t] <= k1
        <5>1. OneLonger(next, a, b) /\ OneLonger(next, b, d)
          BY <4>2, <4>4, <4>5, <4>6
        <5>2. \A t \in Task : \/ b[t] = k1 /\ a[t] = k1 - 1
                              \/ b[t] = a[t] /\ a[t] <= k1 - 1
          BY <4>3, <4>4, <4>5, <4>7
        <5> QED BY <5>1, <5>2, NextRound
      <4>9. GrownOrDone(h, i)
        <5>1. k1 + 1 = i
          BY <4>7
        <5> QED BY <5>1, <4>5, <4>6, <4>7, <4>8 DEF GrownOrDone
      <4> QED BY <3>0, <4>9
    <3> QED BY <3>1, <3>2
  <2>3. \A i \in 0 .. (N + 1) : i \in Good
    <3>1. N + 1 \in Nat
      BY <1>1
    <3> HIDE DEF Good
    <3> QED BY <2>1, <2>2, <3>1, IntervalInduction
  <2> QED BY <2>3
<1> DEFINE D(k) == {t \in Task : h[k][t] = k}
           Few == {k \in 0 .. (N + 1) : k = 0 \/ D(k) = {} \/ Cardinality(D(k)) + k <= N + 1}
<1>11. \A k \in 0 .. (N + 1) : D(k) \in SUBSET Task /\ IsFiniteSet(D(k))
         /\ Cardinality(D(k)) \in Nat /\ Cardinality(D(k)) <= N
  <2> TAKE k \in 0 .. (N + 1)
  <2>1. D(k) \in SUBSET Task
    OBVIOUS
  <2> HIDE DEF D
  <2> QED BY <2>1, <1>1, FS_Subset, FS_CardinalityType DEF N
<1>12. ASSUME NEW k \in 1 .. N, D(k + 1) # {}
       PROVE  Cardinality(D(k + 1)) < Cardinality(D(k))
  <2>0. k + 1 \in 1 .. (N + 1) /\ k \in 0 .. (N + 1) /\ k + 1 \in 0 .. (N + 1)
        /\ (k + 1) - 1 = k
    BY <1>1
  <2>1. D(k + 1) \subseteq D(k)
    <3>1. GrownOrDone(h, k + 1)
      BY <2>0, <1>10
    <3>2. ASSUME NEW t \in Task, h[k + 1][t] = k + 1 PROVE h[k][t] = k
      <4>1. \/ h[k + 1][t] = k + 1 /\ h[k][t] = (k + 1) - 1
            \/ h[k + 1][t] = h[k][t] /\ h[k][t] <= (k + 1) - 1
        BY <3>1, <2>0 DEF GrownOrDone
      <4>2. h[k][t] \in Nat
        BY <2>0, <1>9
      <4> QED BY <4>1, <4>2, <3>2
    <3> QED BY <3>2
  <2>2. D(k + 1) # D(k)
    <3> SUFFICES ASSUME D(k + 1) = D(k) PROVE FALSE
      OBVIOUS
    <3>1. ASSUME NEW t \in D(k + 1)
          PROVE  ToSet(next[t]) \cap D(k + 1) # {}
      <4>1. OneLonger(next, h[k], h[k + 1])
        BY <2>0, <1>7
      <4>2. h[k + 1][t] = k + 1 /\ k + 1 # 1 /\ t \in Task
        BY <1>1
      <4>3. PICK u \in ToSet(next[t]) : h[k + 1][t] = h[k][u] + 1
        BY <4>1, <4>2 DEF OneLonger
      <4>4. u \in Task
        BY <4>2, FiniteList
      <4>5. h[k][u] \in Nat
        BY <4>4, <2>0, <1>9
      <4>6. h[k][u] = k
        <5>1. h[k][u] + 1 = k + 1 /\ k \in Int
          BY <4>2, <4>3
        <5> QED BY SMTT(30), <5>1, <4>5
      <4> QED BY <4>3, <4>4, <4>6
    <3>2. D(k + 1) \in SUBSET Task
      BY <2>0, <1>11
    <3> HIDE DEF D
    <3> QED BY <3>1, <3>2, <1>12 DEF AcyclicAlong
  <2>3. /\ IsFiniteSet(D(k)) /\ Cardinality(D(k)) \in Nat
        /\ Cardinality(D(k + 1)) \in Nat
    BY <2>0, <1>11
  <2> HIDE DEF D
  <2>4. /\ Cardinality(D(k + 1)) <= Cardinality(D(k))
        /\ Cardinality(D(k + 1)) # Cardinality(D(k))
    BY <2>1, <2>2, <2>3, FS_Subset
  <2> QED BY <2>3, <2>4
<1>13. \A k \in 0 .. (N + 1) : k \in Few
  <2>1. 0 \in Few
    BY <1>1
  <2>2. ASSUME NEW k \in 1 .. (N + 1), k - 1 \in Few PROVE k \in Few
    <3>0. k \in 0 .. (N + 1) /\ k - 1 \in 0 .. (N + 1)
      BY <1>1
    <3>1. CASE k = 1
      <4>1. Cardinality(D(1)) <= N /\ Cardinality(D(1)) \in Nat
        BY <3>0, <3>1, <1>11
      <4> HIDE DEF D
      <4> QED BY <3>0, <3>1, <4>1, <1>1
    <3>2. CASE k # 1 /\ D(k) # {}
      <4>1. k - 1 \in 1 .. N /\ (k - 1) + 1 = k
        BY <3>2, <1>1
      <4>2. Cardinality(D(k)) < Cardinality(D(k - 1))
        <5> HIDE DEF D
        <5>1. PICK j \in 1 .. N : j = k - 1 /\ j + 1 = k
          BY <4>1
        <5>2. D(j + 1) # {}
          BY <5>1, <3>2
        <5> QED BY <5>1, <5>2, <1>12
      <4>3. /\ Cardinality(D(k)) \in Nat /\ Cardinality(D(k - 1)) \in Nat
        BY <3>0, <1>11
      <4>4. D(k - 1) # {}
        <5>1. Cardinality(D(k - 1)) # 0
          BY <4>2, <4>3
        <5> HIDE DEF D
        <5> QED BY <5>1, FS_EmptySet
      <4>5. Cardinality(D(k - 1)) + (k - 1) <= N + 1
        <5>1. k - 1 # 0
          BY <4>1
        <5> HIDE DEF D
        <5> QED BY <5>1, <2>2, <4>4
      <4> HIDE DEF D
      <4> QED BY <3>0, <4>2, <4>3, <4>5, <1>1
    <3>3. CASE D(k) = {}
      BY <3>0, <3>3
    <3> QED BY <3>1, <3>2, <3>3
  <2>3. N + 1 \in Nat
    BY <1>1
  <2> HIDE DEF Few
  <2> QED BY <2>1, <2>2, <2>3, IntervalInduction
<1>14. D(N + 1) = {}
  <2>1. N + 1 \in Few /\ N + 1 \in 0 .. (N + 1) /\ N + 1 # 0
    <3>1. N + 1 \in 0 .. (N + 1) /\ N + 1 # 0
      BY <1>1
    <3> HIDE DEF Few
    <3> QED BY <3>1, <1>13
  <2>2. IsFiniteSet(D(N + 1)) /\ Cardinality(D(N + 1)) \in Nat
    BY <2>1, <1>11
  <2>3. D(N + 1) = {} \/ Cardinality(D(N + 1)) = 0
    <3>1. D(N + 1) = {} \/ Cardinality(D(N + 1)) + (N + 1) <= N + 1
      BY <2>1
    <3> HIDE DEF D
    <3> QED BY <3>1, <2>2, <1>1
  <2> HIDE DEF D
  <2> QED BY <2>2, <2>3, FS_EmptySet
<1>15. Longer(next, L) = L
  <2>1. GrownOrDone(h, N + 1) /\ (N + 1) - 1 = N
    BY <1>1, <1>10
  <2>2. \A t \in Task : h[N + 1][t] = h[N][t]
    BY <2>1, <1>14 DEF GrownOrDone
  <2>3. h[N + 1] \in [Task -> Nat]
    BY <1>4, <1>8
  <2> QED BY <2>2, <2>3, <1>3, <1>8
<1> QED BY <1>3, <1>4, <1>15 DEF L

-----------------------------------------------------------------------------
(* A chain as long as can be: what ChainSettles says of LongestChain.      *)
IsChain(next, c) == c \in [Task -> Nat] /\ OneLonger(next, c, c)

(* A justified finish is within the longest chain: among the tasks beyond  *)
(* theirs, one would depend on none of the others.                         *)
LEMMA FinishWithinChain ==
  ASSUME NEW deps \in [Task -> Seq(Task)], NEW tm \in [Task -> Times],
         NEW c, IsChain(deps, c), AcyclicAlong(deps), Justified(deps, tm)
  PROVE  \A t \in Task : tm[t].earliestFinish <= c[t]
<1> DEFINE S == {t \in Task : ~ (tm[t].earliestFinish <= c[t])}
<1>1. \A t \in Task : tm[t].earliestFinish \in Int /\ c[t] \in Nat /\ c[t] >= 1
  BY DEF Times, IsChain, OneLonger
<1> SUFFICES ASSUME S # {} PROVE FALSE
  OBVIOUS
<1>2. PICK t \in S : ToSet(deps[t]) \cap S = {}
  <2>1. S \in SUBSET Task
    OBVIOUS
  <2> HIDE DEF S
  <2> QED BY <2>1 DEF AcyclicAlong
<1>3. t \in Task /\ ~ (tm[t].earliestFinish <= 1)
  BY <1>1
<1>4. PICK d \in ToSet(deps[t]) : tm[t].earliestFinish <= tm[d].earliestFinish + 1
  BY <1>3 DEF Justified
<1>5. d \in Task
  BY <1>3, FiniteList
<1>6. tm[d].earliestFinish <= c[d]
  BY <1>2, <1>4, <1>5
<1>7. c[t] >= c[d] + 1
  BY <1>3, <1>4 DEF IsChain, OneLonger
<1>8. tm[t].earliestFinish <= c[t]
  BY <1>1, <1>3, <1>4, <1>5, <1>6, <1>7
<1> QED BY <1>8

(* The dependencies of a reachable graph have such chains.                 *)
LEMMA DependencyChain ==
  ASSUME TaskAssumption, GraphTypeOK, Acyclic
  PROVE  AcyclicAlong(dependencies) /\ IsChain(dependencies, LongestChain(dependencies))
<1>1. AcyclicAlong(dependencies)
  BY DEF Acyclic, AcyclicAlong
<1> QED BY <1>1, ChainSettles DEF IsChain, GraphTypeOK

(* A justified schedule of a graph without cycles is never too late.       *)
LEMMA StaysNeverTooLate == RestartableSpec => []NeverTooLate
<1>1. ScheduleInv /\ Acyclic => NeverTooLate
  <2> SUFFICES ASSUME ScheduleInv, Acyclic, NEW t \in ToSet(order)
               PROVE  timing[t].earliestFinish <= LongestChain(dependencies)[t] * Duration
    BY DEF NeverTooLate
  <2>1. /\ GraphTypeOK /\ timing \in [Task -> Times] /\ Justified(dependencies, timing)
        /\ dependencies \in [Task -> Seq(Task)]
    BY DEF ScheduleInv, TypeOK, GraphTypeOK
  <2> DEFINE L == LongestChain(dependencies)
  <2>2. IsChain(dependencies, L) /\ AcyclicAlong(dependencies)
    BY <2>1, TaskAssumption, DependencyChain
  <2> HIDE DEF L
  <2>3. t \in Task
    BY <2>1, FiniteList DEF GraphTypeOK
  <2>4. timing[t].earliestFinish <= L[t]
    BY <2>1, <2>2, <2>3, FinishWithinChain
  <2>5. L[t] * Duration = L[t]
    BY <2>2, <2>3 DEF IsChain, Duration
  <2> QED BY <2>4, <2>5 DEF L
<1> QED BY <1>1, ScheduleAlwaysJustified, StaysAcyclic, PTL

(* The schedule never claims that a task finishes later than its longest   *)
(* chain of dependencies takes, in whatever order they were inserted:      *)
(* updateTimings of dependency.ts.                                         *)
THEOREM NeverFinishesTooLate == Spec => []NeverTooLate
<1> QED BY StaysNeverTooLate, NeedNotRestart, PTL

-----------------------------------------------------------------------------
(* The lengths of the chains leave no gap: below a task of the graph with  *)
(* a chain of length l there is one of each smaller length.  So no chain   *)
(* is longer than there are nodes.                                         *)
LEMMA ChainWithinNodes ==
  ASSUME NEW nodes \in Seq(Task), NEW next \in [Task -> Seq(Task)],
         NEW c, IsChain(next, c), AcyclicAlong(next),
         \A t \in Task : ToSet(next[t]) \subseteq ToSet(nodes)
  PROVE  \A t \in ToSet(nodes) : c[t] <= Len(nodes)
<1> DEFINE n == Len(nodes)
           Lengths == {c[t] : t \in ToSet(nodes)}
           S == {t \in ToSet(nodes) : ~ (1 .. c[t] \subseteq Lengths)}
<1>1. /\ n \in Nat /\ DOMAIN nodes = 1 .. n
      /\ ToSet(nodes) \subseteq Task
      /\ \A t \in Task : c[t] \in Nat /\ c[t] >= 1
  BY FiniteList DEF IsChain, OneLonger
<1>2. S = {}
  <2> SUFFICES ASSUME S # {} PROVE FALSE
    OBVIOUS
  <2>1. PICK t \in S : ToSet(next[t]) \cap S = {}
    <3>1. S \in SUBSET Task
      BY <1>1
    <3> HIDE DEF S
    <3> QED BY <3>1 DEF AcyclicAlong
  <2>2. t \in ToSet(nodes) /\ t \in Task /\ c[t] \in Lengths
    BY <1>1
  <2>3. CASE c[t] = 1
    <3>1. 1 .. c[t] = {c[t]}
      BY <2>3
    <3> QED BY <2>2, <3>1
  <2>4. ASSUME NEW u \in ToSet(next[t]), c[t] = c[u] + 1 PROVE FALSE
    <3>1. u \in ToSet(nodes) /\ u \in Task
      BY <2>2, <1>1
    <3>2. 1 .. c[u] \subseteq Lengths
      BY <2>1, <3>1
    <3>3. 1 .. c[t] = (1 .. c[u]) \cup {c[t]}
      <4>1. c[u] \in Nat
        BY <1>1, <3>1
      <4> QED BY <4>1, <2>4
    <3> QED BY <2>2, <3>2, <3>3
  <2> QED BY <2>2, <2>3, <2>4 DEF IsChain, OneLonger
<1>3. Cardinality(Lengths) <= n /\ IsFiniteSet(Lengths)
  <2> DEFINE g == [i \in 1 .. n |-> c[nodes[i]]]
  <2>1. g \in Surjection(1 .. n, Lengths)
    <3>1. \A i \in 1 .. n : nodes[i] \in ToSet(nodes)
      BY <1>1 DEF ToSet
    <3>2. \A t \in ToSet(nodes) : \E i \in 1 .. n : t = nodes[i]
      BY <1>1 DEF ToSet
    <3>3. g \in [1 .. n -> Lengths]
      BY <3>1
    <3>4. ASSUME NEW y \in Lengths PROVE \E i \in 1 .. n : g[i] = y
      <4>1. PICK t \in ToSet(nodes) : y = c[t]
        OBVIOUS
      <4>2. PICK i \in 1 .. n : t = nodes[i]
        BY <3>2
      <4>3. g[i] = y
        BY <4>1, <4>2
      <4> QED BY <4>3
    <3> QED BY <3>3, <3>4 DEF Surjection
  <2>2. ExistsSurjection(1 .. n, Lengths)
    BY <2>1 DEF ExistsSurjection
  <2>3. IsFiniteSet(Lengths)
    <3>1. IsFiniteSet(ToSet(nodes))
      BY FiniteList
    <3> QED BY <3>1, FiniteImage
  <2> HIDE DEF Lengths, n
  <2> QED BY <2>2, <2>3, <1>1, FS_SurjCardinalityBound
<1>4. ASSUME NEW t \in ToSet(nodes) PROVE c[t] <= n
  <2>1. 1 .. c[t] \in SUBSET Lengths /\ c[t] \in Nat
    BY <1>1, <1>2
  <2> HIDE DEF Lengths, n, S
  <2>2. Cardinality(1 .. c[t]) = c[t]
    <3>1. PICK k \in Nat : k = c[t]
      BY <2>1
    <3>2. Cardinality(1 .. k) = IF 1 > k THEN 0 ELSE k - 1 + 1
      BY FS_Interval
    <3> QED BY <3>1, <3>2
  <2>3. Cardinality(1 .. c[t]) <= Cardinality(Lengths) /\ Cardinality(Lengths) \in Nat
    BY <2>1, <1>3, FS_Subset, FS_CardinalityType
  <2> QED BY <2>1, <2>2, <2>3, <1>1, <1>3
<1> QED BY <1>4

(* The two sides of the dependencies lead to the same order of tasks: what *)
(* is acyclic along the one is acyclic along the other.                    *)
LEMMA DependentsAcyclic ==
  ASSUME TaskAssumption, GraphTypeOK, Acyclic, BothSidesAgree
  PROVE  AcyclicAlong(dependents)
<1> DEFINE c == LongestChain(dependencies)
<1>1. IsChain(dependencies, c)
  BY DependencyChain
<1> HIDE DEF c
<1> SUFFICES ASSUME NEW S \in SUBSET Task, S # {}
             PROVE  \E t \in S : ToSet(dependents[t]) \cap S = {}
  BY DEF AcyclicAlong
<1> DEFINE Lengths == {c[t] : t \in S}
<1>2. IsFiniteSet(Lengths)
  <2>1. IsFiniteSet(S)
    BY FS_Subset DEF TaskAssumption
  <2> QED BY <2>1, FiniteImage
<1>3. \A t \in Task : c[t] \in Nat
  BY <1>1 DEF IsChain
<1>4. Lengths \in SUBSET Int /\ Lengths # {}
  BY <1>3
<1>5. Max(Lengths) \in Lengths /\ \A y \in Lengths : Max(Lengths) >= y
  <2> HIDE DEF Lengths
  <2> QED BY <1>2, <1>4, MaxIsGreatest
<1>6. PICK t \in S : \A u \in S : c[t] >= c[u]
  BY <1>5
<1>7. ASSUME NEW u \in ToSet(dependents[t]), u \in S PROVE FALSE
  <2>1. t \in ToSet(dependencies[u])
    BY <1>7 DEF BothSidesAgree
  <2>2. c[u] >= c[t] + 1
    BY <2>1, <1>7, <1>1 DEF IsChain, OneLonger
  <2> QED BY <2>2, <1>3, <1>6, <1>7
<1> QED BY <1>7

(* And so have the dependents.                                             *)
LEMMA DependentChain ==
  ASSUME TaskAssumption, GraphTypeOK, Acyclic, BothSidesAgree
  PROVE  IsChain(dependents, LongestChain(dependents))
<1>1. AcyclicAlong(dependents)
  BY DependentsAcyclic
<1> QED BY <1>1, ChainSettles DEF IsChain, GraphTypeOK

-----------------------------------------------------------------------------
(* One pass over the graph: each node waits for what its dependencies held *)
(* before the pass, at least.                                              *)
Waits(deps, times, new, t) ==
  /\ new[t].earliestFinish >= 1
  /\ \A d \in ToSet(deps[t]) : new[t].earliestFinish >= times[d].earliestFinish + 1

(* In one pass every node is visited, and nothing is taken back after the  *)
(* visit.                                                                  *)
LEMMA UpdateWaits ==
  ASSUME NEW nodes \in Seq(Task), nodes # <<>>, NEW times \in [Task -> Times],
         NEW deps \in [Task -> Seq(Task)], NEW dpts \in [Task -> Seq(Task)],
         Justified(deps, times)
  PROVE  \A t \in ToSet(nodes) :
           Waits(deps, times, UpdateTimings(nodes, deps, dpts, times), t)
<1> DEFINE n == Len(nodes)
           new == UpdateTimings(nodes, deps, dpts, times)
<1>1. n \in Nat /\ DOMAIN nodes = 1 .. n
  OBVIOUS
<1>2. PICK f \in [0 .. n -> [Task -> Times]], b \in [0 .. n -> [Task -> Times]],
           finish \in Int : Parts(nodes, deps, dpts, times, new, f, b, finish)
  <2> HIDE DEF n
  <2> QED BY UpdateTimingsParts DEF n, new
<1> DEFINE Good == {i \in 0 .. n : /\ Justified(deps, f[i])
                                   /\ NotEarlier(times, f[i])
                                   /\ \A j \in 1 .. i : Waits(deps, times, f[i], nodes[j])}
<1>3. \A t \in Task : times[t].earliestFinish \in Int
  BY DEF Times
<1>4. 0 \in Good
  BY <1>1, <1>2, <1>3 DEF Parts, Passes, NotEarlier
<1>5. ASSUME NEW i \in 1 .. n, i - 1 \in Good PROVE i \in Good
  <2>1. /\ f[i - 1] \in [Task -> Times] /\ f[i] \in [Task -> Times]
        /\ nodes[i] \in Task /\ i - 1 \in 0 .. n /\ i \in 0 .. n
    BY NodeSteps
  <2>2. Delays(deps, f[i - 1], f[i], nodes[i])
    BY <1>2 DEF Parts, Passes
  <2>3. Justified(deps, f[i]) /\ NotEarlier(f[i - 1], f[i])
    BY <2>1, <2>2, <1>5, DelayNotEarlier
  <2>4. \A t \in Task : /\ f[i - 1][t].earliestFinish \in Int
                        /\ f[i][t].earliestFinish \in Int
    BY <2>1 DEF Times
  <2>5. NotEarlier(times, f[i - 1]) /\ \A j \in 1 .. (i - 1) : Waits(deps, times, f[i - 1], nodes[j])
    BY <1>5
  <2>6. NotEarlier(times, f[i])
    <3> SUFFICES ASSUME NEW t \in Task
                 PROVE  f[i][t].earliestFinish >= times[t].earliestFinish
      BY DEF NotEarlier
    <3>1. f[i][t].earliestFinish >= f[i - 1][t].earliestFinish
      BY <2>3 DEF NotEarlier
    <3>2. f[i - 1][t].earliestFinish >= times[t].earliestFinish
      BY <2>5 DEF NotEarlier
    <3> QED BY SMTT(30), <3>1, <3>2, <2>4, <1>3
  <2>7. ASSUME NEW j \in 1 .. i PROVE Waits(deps, times, f[i], nodes[j])
    <3>1. nodes[j] \in Task /\ ToSet(deps[nodes[j]]) \subseteq Task
      <4>1. nodes[j] \in Task
        BY <1>1
      <4> QED BY <4>1, FiniteList
    <3>2. CASE j = i
      <4>1. ASSUME NEW d \in ToSet(deps[nodes[i]])
            PROVE  f[i][nodes[i]].earliestFinish >= times[d].earliestFinish + 1
        <5>1. f[i][nodes[i]].earliestFinish >= f[i - 1][d].earliestFinish + 1
          BY <2>2 DEF Delays
        <5>2. d \in Task
          BY <3>1, <3>2
        <5>3. f[i - 1][d].earliestFinish >= times[d].earliestFinish
          BY <2>5, <5>2 DEF NotEarlier
        <5>4. /\ f[i][nodes[i]].earliestFinish \in Int
              /\ f[i - 1][d].earliestFinish \in Int
              /\ times[d].earliestFinish \in Int
          BY <5>2, <2>1, <2>4, <1>3
        <5>5. PICK x \in Int, y \in Int, z \in Int :
                /\ x = f[i][nodes[i]].earliestFinish
                /\ y = f[i - 1][d].earliestFinish
                /\ z = times[d].earliestFinish
          BY <5>4
        <5>6. x >= y + 1 /\ y >= z
          BY <5>1, <5>3, <5>5
        <5>7. x >= z + 1
          BY <5>6
        <5> QED BY <5>5, <5>7
      <4>2. f[i][nodes[i]].earliestFinish >= 1
        BY <2>2 DEF Delays
      <4> QED BY <3>2, <4>1, <4>2 DEF Waits
    <3>3. CASE j # i
      <4>1. Waits(deps, times, f[i - 1], nodes[j])
        BY <3>3, <2>5
      <4>2. f[i][nodes[j]].earliestFinish >= f[i - 1][nodes[j]].earliestFinish
        BY <3>1, <2>3 DEF NotEarlier
      <4>3. /\ f[i][nodes[j]].earliestFinish \in Int
            /\ f[i - 1][nodes[j]].earliestFinish \in Int
        BY <3>1, <2>4
      <4>4. f[i][nodes[j]].earliestFinish >= 1
        <5>1. f[i - 1][nodes[j]].earliestFinish >= 1
          BY Zenon, <4>1 DEF Waits
        <5>2. PICK x \in Int, y \in Int :
                /\ x = f[i][nodes[j]].earliestFinish
                /\ y = f[i - 1][nodes[j]].earliestFinish
          BY Zenon, <4>3
        <5>3. x >= y /\ y >= 1
          BY Zenon, <4>2, <5>1, <5>2
        <5>4. x >= 1
          BY <5>3
        <5> QED BY Zenon, <5>2, <5>4
      <4>5. ASSUME NEW d \in ToSet(deps[nodes[j]])
            PROVE  f[i][nodes[j]].earliestFinish >= times[d].earliestFinish + 1
        <5>1. f[i - 1][nodes[j]].earliestFinish >= times[d].earliestFinish + 1
          BY <4>1 DEF Waits
        <5>2. times[d].earliestFinish \in Int
          BY <3>1, <1>3
        <5>3. PICK x \in Int, y \in Int, z \in Int :
                /\ x = f[i][nodes[j]].earliestFinish
                /\ y = f[i - 1][nodes[j]].earliestFinish
                /\ z = times[d].earliestFinish
          BY <5>2, <4>3
        <5>4. x >= y /\ y >= z + 1
          BY <5>1, <5>3, <4>2
        <5>5. x >= z + 1
          BY <5>4
        <5> QED BY <5>3, <5>5
      <4> QED BY <4>4, <4>5 DEF Waits
    <3> QED BY <3>2, <3>3
  <2> QED BY <2>1, <2>3, <2>6, <2>7
<1>6. \A i \in 0 .. n : i \in Good
  <2> HIDE DEF Good, n
  <2> QED BY <1>1, <1>4, <1>5, IntervalInduction
<1>7. n \in 0 .. n
  BY <1>1
<1>8. \A t \in Task : new[t].earliestFinish = f[n][t].earliestFinish
  BY <1>2 DEF Parts, FinishesKept
<1>9. \A j \in 1 .. n : Waits(deps, times, f[n], nodes[j])
  BY <1>6, <1>7
<1> HIDE DEF new
<1>10. ASSUME NEW t \in ToSet(nodes) PROVE Waits(deps, times, new, t)
  <2>1. PICK j \in 1 .. n : t = nodes[j]
    BY <1>1 DEF ToSet
  <2>2. t \in Task
    BY <1>1, <2>1
  <2> QED BY <2>1, <2>2, <1>8, <1>9 DEF Waits
<1> QED BY <1>10 DEF new

(* After k passes the tasks with a chain of at most k finish when it says. *)
EarlySettled(nodes, c, tm, k) ==
  \A t \in ToSet(nodes) : c[t] <= k => tm[t].earliestFinish = c[t]

(* One pass settles the finishes of the next longer chains.                *)
LEMMA EarlySettlesOneMore ==
  ASSUME NEW nodes \in Seq(Task), nodes # <<>>, NEW times \in [Task -> Times],
         NEW deps \in [Task -> Seq(Task)], NEW dpts \in [Task -> Seq(Task)],
         Justified(deps, times), NEW c, IsChain(deps, c), AcyclicAlong(deps),
         \A t \in Task : ToSet(deps[t]) \subseteq ToSet(nodes),
         NEW k \in Nat, EarlySettled(nodes, c, times, k)
  PROVE  EarlySettled(nodes, c, UpdateTimings(nodes, deps, dpts, times), k + 1)
<1> DEFINE new == UpdateTimings(nodes, deps, dpts, times)
<1>1. new \in [Task -> Times]
  BY UpdateTimingsType
<1>2. Justified(deps, new)
  BY UpdateNotEarlier
<1>3. \A t \in ToSet(nodes) : Waits(deps, times, new, t)
  BY UpdateWaits
<1> HIDE DEF new
<1>4. \A t \in Task : new[t].earliestFinish <= c[t] /\ new[t].earliestFinish \in Int
  BY <1>1, <1>2, FinishWithinChain DEF Times
<1>5. ToSet(nodes) \subseteq Task /\ \A t \in Task : c[t] \in Nat
  BY FiniteList DEF IsChain
<1>6. ASSUME NEW t \in ToSet(nodes), c[t] <= k + 1
      PROVE  new[t].earliestFinish >= c[t]
  <2>1. CASE c[t] = 1
    BY <2>1, <1>3 DEF Waits
  <2>2. ASSUME NEW u \in ToSet(deps[t]), c[t] = c[u] + 1
        PROVE  new[t].earliestFinish >= c[t]
    <3>1. u \in ToSet(nodes) /\ c[u] <= k
      BY <1>5, <1>6, <2>2
    <3>2. times[u].earliestFinish = c[u]
      BY <3>1 DEF EarlySettled
    <3> QED BY <3>2, <2>2, <1>3 DEF Waits
  <2> QED BY <2>1, <2>2, <1>5 DEF IsChain, OneLonger
<1>7. EarlySettled(nodes, c, new, k + 1)
  BY <1>4, <1>5, <1>6 DEF EarlySettled
<1> QED BY <1>7 DEF new

(* After k passes over settled earliest finishes the tasks with at most k  *)
(* tasks waiting one for the other, themselves included, start as late as  *)
(* these leave them.                                                       *)
OnTime(r, end, tm, t) == tm[t].latestStart = end - r[t]

AllOnTime(r, end, tm, tasks) == \A t \in tasks : OnTime(r, end, tm, t)

LateSettled(nodes, r, end, tm, k) ==
  \A t \in ToSet(nodes) : r[t] <= k => OnTime(r, end, tm, t)

(* One node of the backward pass, when those that wait for it are on time. *)
LEMMA AdvanceOnTime ==
  ASSUME NEW dpts \in [Task -> Seq(Task)], NEW end \in Int,
         NEW r, IsChain(dpts, r), NEW tm \in [Task -> Times], NEW new,
         NEW t \in Task, Advances(dpts, end, tm, new, t),
         AllOnTime(r, end, tm, ToSet(dpts[t]))
  PROVE  OnTime(r, end, new, t)
<1>1. ToSet(dpts[t]) \subseteq Task /\ (ToSet(dpts[t]) = {} <=> dpts[t] = <<>>)
  BY FiniteList
<1>2. \A u \in Task : r[u] \in Nat
  BY DEF IsChain
<1>3. CASE dpts[t] = <<>>
  <2>1. r[t] = 1
    BY <1>1, <1>3 DEF IsChain, OneLonger
  <2> QED BY <2>1, <1>3 DEF Advances, OnTime
<1>4. CASE dpts[t] # <<>>
  <2>1. PICK u \in ToSet(dpts[t]) : r[t] = r[u] + 1
    <3>1. PICK v \in ToSet(dpts[t]) : TRUE
      BY <1>1, <1>4
    <3>2. r[t] >= r[v] + 1 /\ (r[v] >= 1 /\ v \in Task)
      BY <1>1, <3>1 DEF IsChain, OneLonger
    <3>3. r[t] # 1
      BY <3>2, <1>2
    <3> QED BY <3>3 DEF IsChain, OneLonger
  <2>2. PICK d \in ToSet(dpts[t]) : new[t].latestStart = tm[d].latestStart - 1
    BY <1>4 DEF Advances
  <2>3. /\ u \in Task /\ d \in Task
        /\ new[t].latestStart <= tm[u].latestStart - 1
        /\ r[t] >= r[d] + 1
    BY <1>1, <1>4 DEF Advances, IsChain, OneLonger
  <2>4. tm[u].latestStart = end - r[u] /\ tm[d].latestStart = end - r[d]
    BY <1>1, <2>3 DEF AllOnTime, OnTime
  <2>5. PICK x \in Int, p \in Int, q \in Int, s \in Int :
          x = new[t].latestStart /\ p = r[t] /\ q = r[u] /\ s = r[d]
    <3>1. new[t].latestStart \in Int
      BY DEF Advances, Times
    <3>2. r[t] \in Int /\ r[u] \in Int /\ r[d] \in Int
      BY <2>3, <1>2
    <3> QED BY <3>1, <3>2
  <2>6. /\ p = q + 1 /\ p >= s + 1
        /\ x = (end - s) - 1
        /\ x <= (end - q) - 1
    BY <2>1, <2>2, <2>3, <2>4, <2>5
  <2>7. x = end - p
    BY <2>6
  <2> QED BY <2>5, <2>7 DEF OnTime
<1> QED BY <1>3, <1>4

(* The backward pass over nodes of which those with at most k waiting are  *)
(* on time.                                                                *)
LEMMA BackwardOnTime ==
  ASSUME NEW nodes \in Seq(Task), NEW dpts \in [Task -> Seq(Task)],
         NEW r, IsChain(dpts, r),
         \A t \in Task : ToSet(dpts[t]) \subseteq ToSet(nodes),
         NEW end \in Int, NEW b \in [0 .. Len(nodes) -> [Task -> Times]],
         \A i \in 1 .. Len(nodes) : Advances(dpts, end, b[i - 1], b[i], nodes[i]),
         NEW k \in Nat, LateSettled(nodes, r, end, b[0], k)
  PROVE  LateSettled(nodes, r, end, b[Len(nodes)], k + 1)
<1> DEFINE n == Len(nodes)
<1>1. /\ n \in Nat /\ DOMAIN nodes = 1 .. n /\ n \in 0 .. n
      /\ ToSet(nodes) \subseteq Task
  BY FiniteList
<1>2. \A t \in ToSet(nodes) : r[t] \in Nat
  BY <1>1 DEF IsChain
<1> DEFINE Good == {i \in 0 .. n :
                      /\ LateSettled(nodes, r, end, b[i], k)
                      /\ \A j \in 1 .. i :
                           r[nodes[j]] <= k + 1 => OnTime(r, end, b[i], nodes[j])}
<1>3. 0 \in Good
  BY <1>1
<1>4. ASSUME NEW i \in 1 .. n, i - 1 \in Good PROVE i \in Good
  <2>1. /\ b[i - 1] \in [Task -> Times] /\ b[i] \in [Task -> Times]
        /\ nodes[i] \in Task /\ i - 1 \in 0 .. n /\ i \in 0 .. n
        /\ nodes[i] \in ToSet(nodes)
    BY NodeSteps
  <2>2. Advances(dpts, end, b[i - 1], b[i], nodes[i])
    OBVIOUS
  <2>3. r[nodes[i]] <= k + 1 => OnTime(r, end, b[i], nodes[i])
    <3> SUFFICES ASSUME r[nodes[i]] <= k + 1 PROVE OnTime(r, end, b[i], nodes[i])
      OBVIOUS
    <3>1. ASSUME NEW u \in ToSet(dpts[nodes[i]]) PROVE OnTime(r, end, b[i - 1], u)
      <4>1. u \in ToSet(nodes)
        BY <2>1
      <4>2. r[nodes[i]] >= r[u] + 1
        BY <2>1 DEF IsChain, OneLonger
      <4>3. r[u] <= k
        BY SMTT(30), <4>1, <4>2, <2>1, <1>2
      <4> QED BY <4>1, <4>3, <1>4 DEF LateSettled
    <3>2. PICK tm \in [Task -> Times] : tm = b[i - 1]
      BY <2>1
    <3>3. PICK t \in Task : t = nodes[i]
      BY <2>1
    <3>4. PICK after : after = b[i]
      OBVIOUS
    <3>5. Advances(dpts, end, tm, after, t) /\ AllOnTime(r, end, tm, ToSet(dpts[t]))
      BY <2>2, <3>1, <3>2, <3>3, <3>4 DEF AllOnTime
    <3>6. OnTime(r, end, after, t)
      BY <3>5, AdvanceOnTime
    <3> QED BY <3>3, <3>4, <3>6
  <2>4. ASSUME NEW t \in Task, t # nodes[i], OnTime(r, end, b[i - 1], t)
        PROVE  OnTime(r, end, b[i], t)
    BY <2>2, <2>4 DEF Advances, OnTime
  <2>5. LateSettled(nodes, r, end, b[i], k)
    <3> SUFFICES ASSUME NEW t \in ToSet(nodes), r[t] <= k
                 PROVE  OnTime(r, end, b[i], t)
      BY DEF LateSettled
    <3>1. r[t] <= k + 1 /\ t \in Task
      BY <1>1, <1>2
    <3>2. OnTime(r, end, b[i - 1], t)
      BY <1>4 DEF LateSettled
    <3>3. CASE t = nodes[i]
      BY <3>1, <3>3, <2>3
    <3>4. CASE t # nodes[i]
      BY <3>1, <3>2, <3>4, <2>4
    <3> QED BY <3>3, <3>4
  <2>6. ASSUME NEW j \in 1 .. i, r[nodes[j]] <= k + 1
        PROVE  OnTime(r, end, b[i], nodes[j])
    <3>1. nodes[j] \in Task
      BY <1>1
    <3>2. CASE nodes[j] = nodes[i]
      BY <3>2, <2>3, <2>6
    <3>3. CASE nodes[j] # nodes[i]
      <4>1. j \in 1 .. (i - 1)
        <5>1. j # i
          BY <3>3
        <5> QED BY <5>1
      <4> QED BY <4>1, <3>1, <3>3, <2>4, <2>6, <1>4
    <3> QED BY <3>2, <3>3
  <2> QED BY <2>1, <2>5, <2>6
<1>5. \A i \in 0 .. n : i \in Good
  <2> HIDE DEF Good, n
  <2> QED BY <1>1, <1>3, <1>4, IntervalInduction
<1>6. \A j \in 1 .. n : r[nodes[j]] <= k + 1 => OnTime(r, end, b[n], nodes[j])
  BY <1>1, <1>5
<1>7. \A t \in ToSet(nodes) : \E j \in 1 .. n : t = nodes[j]
  BY <1>1 DEF ToSet
<1> QED BY <1>6, <1>7 DEF LateSettled

(* One pass, once the finishes are settled, settles the starts before the  *)
(* next longer chains.                                                     *)
LEMMA LateSettlesOneMore ==
  ASSUME NEW nodes \in Seq(Task), nodes # <<>>, NEW times \in [Task -> Times],
         NEW deps \in [Task -> Seq(Task)], NEW dpts \in [Task -> Seq(Task)],
         Justified(deps, times), NEW c, IsChain(deps, c), AcyclicAlong(deps),
         \A t \in Task : ToSet(deps[t]) \subseteq ToSet(nodes),
         NEW r, IsChain(dpts, r),
         \A t \in Task : ToSet(dpts[t]) \subseteq ToSet(nodes),
         NEW end \in Nat, \A t \in ToSet(nodes) : c[t] <= end,
         \E t \in ToSet(nodes) : c[t] = end,
         EarlySettled(nodes, c, times, end),
         NEW k \in Nat, LateSettled(nodes, r, end, times, k)
  PROVE  LateSettled(nodes, r, end, UpdateTimings(nodes, deps, dpts, times), k + 1)
<1>1. ToSet(nodes) \subseteq Task /\ \A t \in ToSet(nodes) : c[t] \in Nat
  BY FiniteList DEF IsChain
<1>2. PICK f \in [0 .. Len(nodes) -> [Task -> Times]],
           b \in [0 .. Len(nodes) -> [Task -> Times]], finish \in Int :
        Parts(nodes, deps, dpts, times, b[Len(nodes)], f, b, finish)
        /\ UpdateTimings(nodes, deps, dpts, times) = b[Len(nodes)]
  <2>1. PICK new : new = UpdateTimings(nodes, deps, dpts, times)
    OBVIOUS
  <2>2. PICK f \in [0 .. Len(nodes) -> [Task -> Times]],
             b \in [0 .. Len(nodes) -> [Task -> Times]], finish \in Int :
          Parts(nodes, deps, dpts, times, new, f, b, finish)
    BY <2>1, UpdateTimingsParts
  <2> QED BY <2>1, <2>2 DEF Parts
<1>3. EarlySettled(nodes, c, b[Len(nodes)], end + 1)
  <2>1. EarlySettled(nodes, c, UpdateTimings(nodes, deps, dpts, times), end + 1)
    BY EarlySettlesOneMore
  <2> QED BY <2>1, <1>2
<1>4. \A t \in ToSet(nodes) : f[Len(nodes)][t].earliestFinish = c[t]
  <2>1. \A t \in ToSet(nodes) : c[t] <= end + 1
    BY <1>1
  <2> QED BY <2>1, <1>1, <1>2, <1>3 DEF EarlySettled, Parts, FinishesKept
<1>5. finish = end
  <2>1. PICK t \in ToSet(nodes) : f[Len(nodes)][t].earliestFinish = finish
    BY <1>2 DEF Parts, Passes
  <2>2. PICK u \in ToSet(nodes) : c[u] = end
    OBVIOUS
  <2>3. c[t] = finish /\ c[t] <= end /\ end <= finish
    BY <2>1, <2>2, <1>2, <1>4 DEF Parts, Passes
  <2> QED BY <2>3
<1>6. \A i \in 1 .. Len(nodes) : Advances(dpts, end, b[i - 1], b[i], nodes[i])
  BY <1>2, <1>5 DEF Parts, Passes
<1>7. LateSettled(nodes, r, end, b[0], k)
  BY <1>1, <1>2 DEF LateSettled, OnTime, Parts, LateKept
<1>8. end \in Int
  OBVIOUS
<1>9. LateSettled(nodes, r, end, b[Len(nodes)], k + 1)
  BY <1>6, <1>7, <1>8, BackwardOnTime
<1> QED BY <1>2, <1>9

(* The passes of AfterPasses, one for each call that asks again.           *)
Rounds(h, n) ==
  /\ h[0] = timing
  /\ \A i \in 1 .. n : h[i] = UpdateTimings(order, dependencies, dependents, h[i - 1])

(* AfterPasses runs updateTimings that often.                              *)
LEMMA RoundsExist ==
  ASSUME TypeOK, order # <<>>, NEW n \in Nat
  PROVE  \E h \in [0 .. n -> [Task -> Times]] : Rounds(h, n) /\ AfterPasses(n) = h[n]
<1> DEFINE X == [Task -> Times]
           step == [x \in X |-> UpdateTimings(order, dependencies, dependents, x)]
           Computes(g) ==
             g = [k \in 0 .. n |->
                    IF k = 0 THEN timing
                    ELSE UpdateTimings(order, dependencies, dependents, g[k - 1])]
           after == CHOOSE g : Computes(g)
<1>1. timing \in X
  BY DEF TypeOK
<1>2. step \in [X -> X]
  <2>1. \A x \in X : UpdateTimings(order, dependencies, dependents, x) \in X
    BY UpdateTimingsType DEF TypeOK, GraphTypeOK
  <2> QED BY <2>1
<1> HIDE DEF X
<1>3. PICK h \in [0 .. n -> X] : IsIteration(h, n, timing, step)
  <2> HIDE DEF step, Computes
  <2> QED BY <1>1, <1>2, IterationExists
<1>4. ASSUME NEW i \in 1 .. n
      PROVE  h[i] = UpdateTimings(order, dependencies, dependents, h[i - 1])
  <2>1. h[i - 1] \in X
    OBVIOUS
  <2> QED BY <2>1, <1>3 DEF IsIteration
<1>5. Computes(h)
  <2>1. h = [k \in 0 .. n |-> h[k]]
    OBVIOUS
  <2>2. \A k \in 0 .. n :
          h[k] = IF k = 0 THEN timing
                 ELSE UpdateTimings(order, dependencies, dependents, h[k - 1])
    BY <1>3, <1>4 DEF IsIteration
  <2> QED BY <2>1, <2>2
<1>6. Computes(after)
  <2> HIDE DEF Computes
  <2> QED BY <1>5
<1>7. AfterPasses(n) = after[n]
  BY DEF AfterPasses
<1> HIDE DEF after
<1>8. after[0] = timing
      /\ \A i \in 1 .. n :
           after[i] = UpdateTimings(order, dependencies, dependents, after[i - 1])
  BY <1>6
<1> DEFINE Good == {i \in 0 .. n : after[i] \in X}
<1>9. \A i \in 0 .. n : i \in Good
  <2>1. 0 \in Good
    BY <1>1, <1>8
  <2>2. ASSUME NEW i \in 1 .. n, i - 1 \in Good PROVE i \in Good
    <3>1. \A x \in X : UpdateTimings(order, dependencies, dependents, x) \in X
      BY <1>2
    <3> QED BY <2>2, <3>1, <1>8
  <2> HIDE DEF Good
  <2> QED BY <2>1, <2>2, IntervalInduction
<1>10. after \in [0 .. n -> X]
  BY <1>6, <1>9
<1> QED BY <1>7, <1>8, <1>10 DEF X, Rounds

(* Each pass settles one more, first of the finishes and then of the       *)
(* starts.                                                                 *)
LEMMA RoundsSettle ==
  ASSUME ScheduleInv, order # <<>>,
         NEW c, IsChain(dependencies, c), AcyclicAlong(dependencies),
         \A t \in Task : ToSet(dependencies[t]) \subseteq ToSet(order),
         NEW r, IsChain(dependents, r),
         \A t \in Task : ToSet(dependents[t]) \subseteq ToSet(order),
         NEW end \in Nat, \A t \in ToSet(order) : c[t] <= end,
         \E t \in ToSet(order) : c[t] = end,
         NEW n \in Nat, NEW h \in [0 .. n -> [Task -> Times]], Rounds(h, n)
  PROVE  \A i \in 0 .. n :
           /\ EarlySettled(order, c, h[i], i)
           /\ i >= end => LateSettled(order, r, end, h[i], i - end)
<1> DEFINE Good == {i \in 0 .. n :
                      /\ Justified(dependencies, h[i])
                      /\ EarlySettled(order, c, h[i], i)
                      /\ i >= end => LateSettled(order, r, end, h[i], i - end)}
<1>1. /\ order \in Seq(Task) /\ ToSet(order) \subseteq Task
      /\ dependencies \in [Task -> Seq(Task)] /\ dependents \in [Task -> Seq(Task)]
  BY FiniteList DEF ScheduleInv, TypeOK, GraphTypeOK
<1>2. \A t \in ToSet(order) : c[t] \in Nat /\ c[t] >= 1 /\ r[t] \in Nat /\ r[t] >= 1
  BY <1>1 DEF IsChain, OneLonger
<1>3. end >= 1
  BY <1>2
<1>4. 0 \in Good
  <2>1. Justified(dependencies, h[0])
    BY DEF Rounds, ScheduleInv
  <2>2. EarlySettled(order, c, h[0], 0)
    BY <1>2 DEF EarlySettled
  <2> QED BY <2>1, <2>2, <1>3
<1>5. ASSUME NEW i \in 1 .. n, i - 1 \in Good PROVE i \in Good
  <2>1. PICK k \in Nat : k = i - 1 /\ i = k + 1 /\ k \in 0 .. n /\ i \in 0 .. n
    OBVIOUS
  <2>2. PICK tm \in [Task -> Times] : tm = h[k]
    BY <2>1
  <2>3. /\ Justified(dependencies, tm)
        /\ EarlySettled(order, c, tm, k)
        /\ k >= end => LateSettled(order, r, end, tm, k - end)
    BY <2>1, <2>2, <1>5
  <2>4. h[i] = UpdateTimings(order, dependencies, dependents, tm)
    BY <2>1, <2>2 DEF Rounds
  <2>5. Justified(dependencies, h[i])
    BY <2>3, <2>4, <1>1, UpdateNotEarlier
  <2>6. EarlySettled(order, c, h[i], k + 1)
    BY <2>3, <2>4, <1>1, EarlySettlesOneMore
  <2>7. ASSUME k >= end
        PROVE  LateSettled(order, r, end, h[i], (k - end) + 1)
    <3>1. EarlySettled(order, c, tm, end)
      BY <2>3, <2>7, <1>2 DEF EarlySettled
    <3>2. PICK j \in Nat : j = k - end
      BY <2>7
    <3>3. LateSettled(order, r, end, tm, j)
      BY <2>3, <2>7, <3>2
    <3>4. LateSettled(order, r, end, UpdateTimings(order, dependencies, dependents, tm), j + 1)
      BY <2>3, <3>1, <3>3, <1>1, LateSettlesOneMore
    <3> QED BY <2>4, <3>2, <3>4
  <2>8. i >= end => LateSettled(order, r, end, h[i], i - end)
    <3>1. CASE i >= end /\ k >= end
      <4>1. (k - end) + 1 = i - end
        BY <2>1
      <4> QED BY <4>1, <2>7, <3>1
    <3>2. CASE ~ (k >= end)
      <4>1. i >= end => i - end = 0
        BY <2>1, <3>2
      <4>2. LateSettled(order, r, end, h[i], 0)
        BY <1>2 DEF LateSettled
      <4> QED BY <4>1, <4>2
    <3> QED BY <3>1, <3>2
  <2> QED BY <2>1, <2>5, <2>6, <2>8
<1>6. \A i \in 0 .. n : i \in Good
  <2> HIDE DEF Good
  <2> QED BY <1>4, <1>5, IntervalInduction
<1> QED BY <1>6

(* As many passes as there are nodes suffice for the one, as many again for*)
(* the other.                                                              *)
LEMMA EverythingSettles ==
  ASSUME ScheduleInv, Acyclic, BothSidesAgree, order # <<>>
  PROVE  \A t \in ToSet(order) :
           /\ AfterPasses(Len(order))[t].earliestFinish = LongestChain(dependencies)[t]
           /\ AfterPasses(2 * Len(order))[t].latestStart =
                Max({LongestChain(dependencies)[u] : u \in ToSet(order)})
                  - LongestChain(dependents)[t]
<1> DEFINE n == Len(order)
           c == LongestChain(dependencies)
           r == LongestChain(dependents)
           Lengths == {c[u] : u \in ToSet(order)}
           end == Max(Lengths)
<1>1. /\ TypeOK /\ GraphTypeOK /\ order \in Seq(Task) /\ n \in Nat
      /\ dependencies \in [Task -> Seq(Task)] /\ dependents \in [Task -> Seq(Task)]
  BY DEF ScheduleInv, TypeOK, GraphTypeOK
<1>2. /\ IsFiniteSet(ToSet(order)) /\ ToSet(order) \subseteq Task /\ ToSet(order) # {}
  BY <1>1, FiniteList
<1>3. /\ IsChain(dependencies, c) /\ AcyclicAlong(dependencies)
      /\ IsChain(dependents, r) /\ AcyclicAlong(dependents)
  BY <1>1, TaskAssumption, DependencyChain, DependentChain, DependentsAcyclic
<1>4. \A t \in Task : /\ ToSet(dependencies[t]) \subseteq ToSet(order)
                      /\ ToSet(dependents[t]) \subseteq ToSet(order)
  <2>1. \A t \in Task : /\ ToSet(dependencies[t]) \subseteq Task
                        /\ ToSet(dependents[t]) \subseteq Task
    BY <1>1, FiniteList
  <2> QED BY <2>1 DEF BothSidesAgree
<1> HIDE DEF c, r
<1>5. \A t \in ToSet(order) : /\ c[t] \in Nat /\ r[t] \in Nat
                              /\ c[t] <= n /\ r[t] <= n
  <2>1. \A t \in ToSet(order) : c[t] <= n
    BY <1>1, <1>3, <1>4, ChainWithinNodes
  <2>2. \A t \in ToSet(order) : r[t] <= n
    BY <1>1, <1>3, <1>4, ChainWithinNodes
  <2> QED BY <2>1, <2>2, <1>2, <1>3 DEF IsChain
<1>6. end \in Lengths /\ \A y \in Lengths : end >= y
  <2>1. IsFiniteSet(Lengths)
    BY <1>2, FiniteImage
  <2>2. Lengths \in SUBSET Int /\ Lengths # {}
    BY <1>2, <1>5
  <2> HIDE DEF Lengths
  <2> QED BY <2>1, <2>2, MaxIsGreatest
<1> HIDE DEF end
<1>7. /\ end \in Nat /\ end <= n
      /\ \A t \in ToSet(order) : c[t] <= end
      /\ \E t \in ToSet(order) : c[t] = end
  BY <1>5, <1>6
<1>8. ASSUME NEW t \in ToSet(order) PROVE AfterPasses(n)[t].earliestFinish = c[t]
  <2>1. PICK h \in [0 .. n -> [Task -> Times]] : Rounds(h, n) /\ AfterPasses(n) = h[n]
    BY <1>1, RoundsExist
  <2>2. n \in 0 .. n
    BY <1>1
  <2> HIDE DEF n
  <2>3. EarlySettled(order, c, h[n], n)
    BY <1>1, <1>3, <1>4, <1>7, <2>1, <2>2, RoundsSettle
  <2> QED BY <2>1, <2>3, <1>5 DEF EarlySettled
<1>9. ASSUME NEW t \in ToSet(order)
      PROVE  AfterPasses(2 * n)[t].latestStart = end - r[t]
  <2>0. PICK m \in Nat : m = 2 * n /\ m >= end /\ m \in 0 .. m /\ r[t] <= m - end
    <3>1. 2 * n \in Nat /\ 2 * n >= end /\ r[t] <= 2 * n - end
      BY <1>1, <1>5, <1>7
    <3> QED BY <3>1
  <2>1. PICK h \in [0 .. m -> [Task -> Times]] : Rounds(h, m) /\ AfterPasses(m) = h[m]
    BY <1>1, RoundsExist
  <2>2. \A i \in 0 .. m : i >= end => LateSettled(order, r, end, h[i], i - end)
    BY <1>1, <1>3, <1>4, <1>7, <2>1, RoundsSettle
  <2>3. LateSettled(order, r, end, h[m], m - end)
    BY <2>0, <2>2
  <2>4. h[m][t].latestStart = end - r[t]
    BY <2>0, <2>3 DEF LateSettled, OnTime
  <2> QED BY <2>0, <2>1, <2>4
<1> QED BY <1>8, <1>9 DEF c, r, end, n

(* The same in the words of PassesSettle.                                  *)
LEMMA KeepsSettling == RestartableSpec => []PassesSettle
<1>1. ScheduleInv /\ Acyclic /\ BothSidesAgree => PassesSettle
  <2> SUFFICES ASSUME ScheduleInv, Acyclic, BothSidesAgree, order # <<>>,
                      NEW t \in ToSet(order)
               PROVE  /\ AfterPasses(Len(order))[t].earliestFinish =
                           LongestChain(dependencies)[t] * Duration
                      /\ AfterPasses(2 * Len(order))[t].latestStart =
                           (Max({LongestChain(dependencies)[u] : u \in ToSet(order)})
                              - LongestChain(dependents)[t]) * Duration
    BY DEF PassesSettle
  <2> DEFINE x == LongestChain(dependencies)[t]
             y == Max({LongestChain(dependencies)[u] : u \in ToSet(order)})
             z == LongestChain(dependents)[t]
  <2>1. /\ AfterPasses(Len(order))[t].earliestFinish = x
        /\ AfterPasses(2 * Len(order))[t].latestStart = y - z
    BY EverythingSettles
  <2>2. x \in Int /\ y - z \in Int
    <3> HIDE DEF x, y, z
    <3>1. /\ AfterPasses(Len(order))[t].earliestFinish \in Int
          /\ AfterPasses(2 * Len(order))[t].latestStart \in Int
      <4>1. TypeOK /\ Len(order) \in Nat /\ t \in Task
        BY FiniteList DEF ScheduleInv, TypeOK, GraphTypeOK
      <4>2. ASSUME NEW m \in Nat PROVE AfterPasses(m) \in [Task -> Times]
        <5>1. PICK h \in [0 .. m -> [Task -> Times]] : AfterPasses(m) = h[m]
          BY <4>1, RoundsExist
        <5>2. m \in 0 .. m
          OBVIOUS
        <5> QED BY <5>1, <5>2
      <4>3. 2 * Len(order) \in Nat
        BY <4>1
      <4> QED BY <4>1, <4>2, <4>3 DEF Times
    <3> QED BY <3>1, <2>1
  <2>3. x * Duration = x /\ (y - z) * Duration = y - z
    <3>1. \A i \in Int : i * Duration = i
      BY DEF Duration
    <3> HIDE DEF x, y, z
    <3> QED BY <3>1, <2>2
  <2> QED BY <2>1, <2>3
<1> QED BY <1>1, ScheduleAlwaysJustified, StaysAcyclic, SidesKeepAgreeing, PTL

(* The schedule does not stay behind: whatever the order in which the      *)
(* tasks were inserted, and whatever earlier passes left, asking again as  *)
(* often as there are nodes makes every earliest finish that of the        *)
(* longest chain, and as often once more every latest start.               *)
THEOREM PassesAlwaysSettle == Spec => []PassesSettle
<1> QED BY KeepsSettling, NeedNotRestart, PTL

-----------------------------------------------------------------------------
(* Where the backward pass leaves a node: at the end of the project if     *)
(* nobody waits for it, and before that otherwise.                         *)
AtEnd(dpts, end, tm, t) ==
  /\ dpts[t] = <<>> => tm[t].latestFinish = end
  /\ dpts[t] # <<>> => tm[t].latestFinish <= end - 1

AllAtEnd(nodes, dpts, end, tm) == \A t \in ToSet(nodes) : AtEnd(dpts, end, tm, t)

SameFinishes(nodes, old, tm) ==
  \A t \in Task \ ToSet(nodes) : tm[t].latestFinish = old[t].latestFinish

BackwardRun(nodes, dpts, end, b) ==
  \A i \in 1 .. Len(nodes) : Advances(dpts, end, b[i - 1], b[i], nodes[i])

StartsBefore(tm, end) == \A t \in Task : tm[t].latestStart <= end - 1

(* The backward pass when no latest start is later than the end less one   *)
(* duration, as it is before the pass and stays.                           *)
LEMMA BackwardEnds ==
  ASSUME NEW nodes \in Seq(Task), NEW dpts \in [Task -> Seq(Task)], NEW end \in Int,
         NEW b \in [0 .. Len(nodes) -> [Task -> Times]],
         BackwardRun(nodes, dpts, end, b), StartsBefore(b[0], end)
  PROVE  /\ StartsBefore(b[Len(nodes)], end)
         /\ AllAtEnd(nodes, dpts, end, b[Len(nodes)])
         /\ SameFinishes(nodes, b[0], b[Len(nodes)])
<1> DEFINE n == Len(nodes)
           Good == {i \in 0 .. n :
                      /\ StartsBefore(b[i], end)
                      /\ \A j \in 1 .. i : AtEnd(dpts, end, b[i], nodes[j])
                      /\ SameFinishes(nodes, b[0], b[i])}
<1>1. n \in Nat /\ DOMAIN nodes = 1 .. n /\ n \in 0 .. n
  OBVIOUS
<1>2. 0 \in Good
  BY <1>1 DEF SameFinishes
<1>3. ASSUME NEW i \in 1 .. n, i - 1 \in Good PROVE i \in Good
  <2>1. /\ b[i - 1] \in [Task -> Times] /\ b[i] \in [Task -> Times]
        /\ nodes[i] \in Task /\ i - 1 \in 0 .. n /\ i \in 0 .. n
        /\ nodes[i] \in ToSet(nodes)
    BY NodeSteps
  <2>2. Advances(dpts, end, b[i - 1], b[i], nodes[i])
    BY DEF BackwardRun
  <2>3. PICK t \in Task : t = nodes[i]
    BY <2>1
  <2>4. PICK x \in Int : x = b[i][t].latestStart /\ b[i][t].latestFinish = x + 1
    <3>1. b[i][t].latestStart \in Int
      BY <2>1 DEF Times
    <3> QED BY <3>1, <2>2, <2>3 DEF Advances
  <2>5. x <= end - 1 /\ AtEnd(dpts, end, b[i], t)
    <3>1. CASE dpts[t] = <<>>
      <4>1. x = end - 1
        BY <3>1, <2>2, <2>3, <2>4 DEF Advances
      <4>2. x + 1 = end
        BY <4>1
      <4>3. x <= end - 1
        BY <4>1
      <4>4. b[i][t].latestFinish = end
        BY <4>2, <2>4
      <4> QED BY <4>3, <4>4, <3>1 DEF AtEnd
    <3>2. CASE dpts[t] # <<>>
      <4>1. PICK d \in ToSet(dpts[t]) : x = b[i - 1][d].latestStart - 1
        BY <3>2, <2>2, <2>3, <2>4 DEF Advances
      <4>2. d \in Task
        BY FiniteList
      <4>3. b[i - 1][d].latestStart \in Int /\ b[i - 1][d].latestStart <= end - 1
        BY <4>2, <2>1, <1>3 DEF StartsBefore, Times
      <4>4. x <= end - 2
        BY SMTT(30), <4>1, <4>3
      <4> QED BY SMTT(30), <4>4, <3>2, <2>4 DEF AtEnd
    <3> QED BY <3>1, <3>2
  <2>6. \A u \in Task \ {t} : b[i][u] = b[i - 1][u]
    BY <2>2, <2>3 DEF Advances
  <2>7. StartsBefore(b[i], end)
    <3> SUFFICES ASSUME NEW u \in Task PROVE b[i][u].latestStart <= end - 1
      BY DEF StartsBefore
    <3>1. CASE u = t
      BY <3>1, <2>4, <2>5
    <3>2. CASE u # t
      BY <3>2, <2>6, <1>3 DEF StartsBefore
    <3> QED BY <3>1, <3>2
  <2>8. ASSUME NEW j \in 1 .. i PROVE AtEnd(dpts, end, b[i], nodes[j])
    <3>1. CASE nodes[j] = t
      BY <3>1, <2>5
    <3>2. CASE nodes[j] # t
      <4>1. j \in 1 .. (i - 1) /\ nodes[j] \in Task
        <5>1. j # i /\ nodes[j] \in Task
          BY <3>2, <2>3, <1>1
        <5> QED BY <5>1
      <4>2. AtEnd(dpts, end, b[i - 1], nodes[j])
        BY <4>1, <1>3
      <4> QED BY <4>1, <4>2, <3>2, <2>6 DEF AtEnd
    <3> QED BY <3>1, <3>2
  <2>9. SameFinishes(nodes, b[0], b[i])
    BY <2>1, <2>3, <2>6, <1>3 DEF SameFinishes
  <2> QED BY <2>1, <2>7, <2>8, <2>9
<1>4. \A i \in 0 .. n : i \in Good
  <2> HIDE DEF Good, n
  <2> QED BY <1>1, <1>2, <1>3, IntervalInduction
<1>5. /\ StartsBefore(b[n], end) /\ SameFinishes(nodes, b[0], b[n])
      /\ \A j \in 1 .. n : AtEnd(dpts, end, b[n], nodes[j])
  BY <1>1, <1>4
<1>6. \A t \in ToSet(nodes) : \E j \in 1 .. n : t = nodes[j]
  BY <1>1 DEF ToSet
<1> QED BY <1>5, <1>6 DEF AllAtEnd

(* What the end of the critical path needs: the nodes that finish last are *)
(* waited for by nobody, and no latest start, not even one that is out of  *)
(* date, is later than a finish that has been found.                       *)
LatestIs(nodes, dpts, tm, end) ==
  /\ \A t \in ToSet(nodes) : /\ tm[t].latestFinish <= end
                             /\ tm[t].latestFinish = end => dpts[t] = <<>>
  /\ nodes # <<>> => \E t \in ToSet(nodes) : tm[t].latestFinish = end

StartsWithin(tasks, tm) ==
  \A t \in Task : \/ tm[t].latestStart <= 0
                  \/ \E u \in tasks : tm[t].latestStart <= tm[u].earliestFinish - 1

Ends(nodes, dpts, tm) ==
  /\ \E end \in Nat : LatestIs(nodes, dpts, tm, end)
  /\ StartsWithin(ToSet(nodes), tm)
  /\ \A t \in Task \ ToSet(nodes) : tm[t].latestFinish = 0

(* A pass leaves those and only those nodes at the end of the project that *)
(* nobody waits for, and there is one.                                     *)
LEMMA UpdateEnds ==
  ASSUME NEW nodes \in Seq(Task), nodes # <<>>, NEW times \in [Task -> Times],
         NEW deps \in [Task -> Seq(Task)], NEW dpts \in [Task -> Seq(Task)],
         Justified(deps, times), AcyclicAlong(dpts),
         \A t \in Task : ToSet(dpts[t]) \subseteq ToSet(nodes),
         NEW tasks, tasks \subseteq ToSet(nodes), StartsWithin(tasks, times),
         \A t \in Task \ tasks : times[t].latestFinish = 0,
         NEW new, new = UpdateTimings(nodes, deps, dpts, times)
  PROVE  Ends(nodes, dpts, new)
<1>1. ToSet(nodes) \in SUBSET Task /\ ToSet(nodes) # {}
  BY FiniteList
<1>2. PICK f \in [0 .. Len(nodes) -> [Task -> Times]],
           b \in [0 .. Len(nodes) -> [Task -> Times]], finish \in Int :
        Parts(nodes, deps, dpts, times, new, f, b, finish)
  BY UpdateTimingsParts
<1>3. /\ new = b[Len(nodes)]
      /\ new \in [Task -> Times]
      /\ NotEarlier(times, new)
      /\ \A t \in ToSet(nodes) : Waits(deps, times, new, t)
  <2>1. new = b[Len(nodes)]
    BY <1>2 DEF Parts
  <2>2. new \in [Task -> Times]
    BY UpdateTimingsType
  <2>3. NotEarlier(times, new)
    BY UpdateNotEarlier
  <2>4. \A t \in ToSet(nodes) : Waits(deps, times, new, t)
    BY UpdateWaits
  <2> QED BY <2>1, <2>2, <2>3, <2>4
<1>4. /\ \A t \in ToSet(nodes) : new[t].earliestFinish <= finish
      /\ \E t \in ToSet(nodes) : new[t].earliestFinish = finish
  BY <1>1, <1>2, <1>3 DEF Parts, FinishesKept, Passes
<1>5. finish \in Nat \ {0}
  <2>1. PICK t \in ToSet(nodes) : new[t].earliestFinish = finish
    BY <1>4
  <2> QED BY <2>1, <1>3 DEF Waits
<1>6. StartsBefore(b[0], finish)
  <2> SUFFICES ASSUME NEW t \in Task PROVE b[0][t].latestStart <= finish - 1
    BY DEF StartsBefore
  <2>1. b[0][t].latestStart = times[t].latestStart /\ times[t].latestStart \in Int
    BY <1>2 DEF Parts, LateKept, Times
  <2>2. CASE times[t].latestStart <= 0
    BY <2>1, <2>2, <1>5
  <2>3. ASSUME NEW u \in tasks, times[t].latestStart <= times[u].earliestFinish - 1
        PROVE  b[0][t].latestStart <= finish - 1
    <3>1. u \in ToSet(nodes) /\ u \in Task
      BY <1>1
    <3>2. PICK x \in Int, y \in Int, z \in Int :
            /\ x = times[t].latestStart
            /\ y = times[u].earliestFinish
            /\ z = new[u].earliestFinish
      BY <3>1, <2>1, <1>3 DEF Times
    <3>3. x <= y - 1 /\ z >= y /\ z <= finish
      BY <3>1, <3>2, <2>3, <1>3, <1>4 DEF NotEarlier
    <3>4. x <= finish - 1
      BY <3>3
    <3> QED BY <3>2, <3>4, <2>1
  <2> QED BY <2>2, <2>3 DEF StartsWithin
<1>7. BackwardRun(nodes, dpts, finish, b)
  BY <1>2 DEF Parts, Passes, BackwardRun
<1>8. /\ StartsBefore(new, finish)
      /\ AllAtEnd(nodes, dpts, finish, new)
      /\ SameFinishes(nodes, b[0], new)
  BY <1>3, <1>6, <1>7, BackwardEnds
<1>9. LatestIs(nodes, dpts, new, finish)
  <2>1. \A t \in ToSet(nodes) : new[t].latestFinish \in Int
    BY <1>1, <1>3 DEF Times
  <2>2. \A t \in ToSet(nodes) : /\ new[t].latestFinish <= finish
                                /\ new[t].latestFinish = finish => dpts[t] = <<>>
    BY <2>1, <1>8 DEF AllAtEnd, AtEnd
  <2>3. PICK t \in ToSet(nodes) : ToSet(dpts[t]) \cap ToSet(nodes) = {}
    BY <1>1 DEF AcyclicAlong
  <2>4. dpts[t] = <<>>
    <3>1. t \in Task /\ ToSet(dpts[t]) = {}
      BY <2>3, <1>1
    <3> QED BY <3>1, FiniteList
  <2>5. new[t].latestFinish = finish
    BY <2>4, <1>8 DEF AllAtEnd, AtEnd
  <2> QED BY <2>2, <2>5 DEF LatestIs
<1>10. StartsWithin(ToSet(nodes), new)
  BY <1>4, <1>8 DEF StartsWithin, StartsBefore
<1>11. \A t \in Task \ ToSet(nodes) : new[t].latestFinish = 0
  BY <1>2, <1>8 DEF Parts, LateKept, SameFinishes
<1> QED BY <1>5, <1>9, <1>10, <1>11 DEF Ends

EndInv == Ends(order, dependents, timing)

(* The nodes that a refused call leaves behind wait for nothing, are       *)
(* waited for by nobody, and have not been scheduled yet.                  *)
LEMMA RejectKeepsEnds ==
  ASSUME TypeOK, BothSidesAgree, EndInv,
         NEW t \in Task, NEW d \in Task, RejectDependency(t, d)
  PROVE  EndInv'
<1>1. /\ order \in Seq(Task) /\ order' \in Seq(Task) /\ order' # <<>>
      /\ ToSet(order') = ToSet(order) \cup {t, d}
      /\ ToSet(order) \subseteq Task
      /\ UNCHANGED <<dependents, timing>>
  <2>1. order \in Seq(Task) /\ IsInjective(order)
    BY DEF TypeOK, GraphTypeOK
  <2>2. /\ WithNodes(order, t, d) \in Seq(Task) /\ WithNodes(order, t, d) # <<>>
        /\ ToSet(WithNodes(order, t, d)) = ToSet(order) \cup {t, d}
    BY <2>1, NodesAdded, NodesAddedOnce
  <2>3. ToSet(order) \subseteq Task
    BY <2>1, FiniteList
  <2> QED BY <2>1, <2>2, <2>3 DEF RejectDependency
<1>2. StartsWithin(ToSet(order'), timing')
  BY <1>1 DEF EndInv, Ends, StartsWithin
<1>3. \A u \in Task \ ToSet(order') : timing'[u].latestFinish = 0
  BY <1>1 DEF EndInv, Ends
<1>4. ASSUME NEW u \in Task \ ToSet(order)
      PROVE  dependents[u] = <<>> /\ timing[u].latestFinish = 0
  <2>1. dependents[u] \in Seq(Task)
    BY DEF TypeOK, GraphTypeOK
  <2>2. ToSet(dependents[u]) \subseteq Task /\ (ToSet(dependents[u]) = {} <=> dependents[u] = <<>>)
    BY <2>1, FiniteList
  <2>3. ToSet(dependents[u]) = {}
    BY <2>2 DEF BothSidesAgree
  <2> QED BY <2>2, <2>3 DEF EndInv, Ends
<1>5. PICK end \in Nat : LatestIs(order, dependents, timing, end)
  BY DEF EndInv, Ends
<1>6. \E e \in Nat : LatestIs(order', dependents', timing', e)
  <2>1. CASE order = <<>>
    <3>1. ToSet(order) = {}
      BY <2>1 DEF ToSet
    <3>2. \A u \in ToSet(order') : timing[u].latestFinish = 0 /\ dependents[u] = <<>>
      BY <3>1, <1>1, <1>4
    <3>3. LatestIs(order', dependents', timing', 0)
      <4>1. t \in ToSet(order') /\ timing' = timing /\ dependents' = dependents
        BY <1>1
      <4>2. \A u \in ToSet(order') : /\ timing'[u].latestFinish <= 0
                                     /\ timing'[u].latestFinish = 0
                                     /\ dependents'[u] = <<>>
        BY <3>2, <4>1
      <4> QED BY <4>1, <4>2, Zenon DEF LatestIs
    <3> QED BY <3>3
  <2>2. CASE order # <<>>
    <3>1. \A u \in ToSet(order') :
            u \in ToSet(order) \/ (timing[u].latestFinish = 0 /\ dependents[u] = <<>>)
      BY <1>1, <1>4
    <3>2. LatestIs(order', dependents', timing', end)
      BY <3>1, <2>2, <1>1, <1>5 DEF LatestIs
    <3> QED BY <3>2
  <2> QED BY <2>1, <2>2
<1> QED BY <1>2, <1>3, <1>6 DEF EndInv, Ends


(* What DependentsAcyclic says, of every reachable graph.                  *)
LEMMA DependentsStayAcyclic == RestartableSpec => []AcyclicAlong(dependents)
<1>1. ScheduleInv /\ Acyclic /\ BothSidesAgree => AcyclicAlong(dependents)
  BY TaskAssumption, DependentsAcyclic DEF ScheduleInv, TypeOK
<1> QED BY <1>1, ScheduleAlwaysJustified, StaysAcyclic, SidesKeepAgreeing, PTL

(* A pass after a new dependency, or without one.                          *)
LEMMA OtherStepsKeepEnds ==
  ASSUME ScheduleInv, AcyclicAlong(dependents'), BothSidesAgree', ScheduleInv', EndInv,
         \/ \E t, d \in Task : AddDependency(t, d)
         \/ CalculateCriticalPath
         \/ UNCHANGED vars
  PROVE  EndInv'
<1>1. CASE UNCHANGED vars
  BY <1>1 DEF vars, EndInv, Ends, LatestIs, StartsWithin
<1>2. ASSUME order' # <<>>, ToSet(order) \subseteq ToSet(order'),
             Justified(dependencies', timing),
             timing' = UpdateTimings(order', dependencies', dependents', timing)
      PROVE  EndInv'
  <2>1. /\ order' \in Seq(Task) /\ timing \in [Task -> Times] /\ GraphTypeOK'
        /\ dependencies' \in [Task -> Seq(Task)] /\ dependents' \in [Task -> Seq(Task)]
    BY DEF ScheduleInv, TypeOK, GraphTypeOK
  <2>2. \A u \in Task : ToSet(dependents'[u]) \subseteq ToSet(order')
    <3>1. \A u \in Task : ToSet(dependents'[u]) \subseteq Task
      BY <2>1, FiniteList
    <3> QED BY <3>1 DEF BothSidesAgree
  <2>3. /\ StartsWithin(ToSet(order), timing)
        /\ \A u \in Task \ ToSet(order) : timing[u].latestFinish = 0
    BY DEF EndInv, Ends
  <2>4. Ends(order', dependents', timing')
    BY <2>1, <2>2, <2>3, <1>2, UpdateEnds
  <2> QED BY <2>4 DEF EndInv, Ends, LatestIs, StartsWithin
<1>3. ASSUME NEW t \in Task, NEW d \in Task, AddDependency(t, d)
      PROVE  EndInv'
  <2>1. /\ order \in Seq(Task) /\ IsInjective(order)
        /\ dependencies \in [Task -> Seq(Task)]
    BY DEF ScheduleInv, TypeOK, GraphTypeOK
  <2>2. order' # <<>> /\ ToSet(order) \subseteq ToSet(order')
    BY <2>1, <1>3, NodesAdded, NodesAddedOnce DEF AddDependency
  <2>3. \A u \in Task : ToSet(dependencies[u]) \subseteq ToSet(dependencies'[u])
    BY <2>1, <1>3, AppendedElements DEF AddDependency
  <2>4. Justified(dependencies', timing)
    BY <2>3 DEF ScheduleInv, Justified
  <2>5. timing' = UpdateTimings(order', dependencies', dependents', timing)
    BY <1>3 DEF AddDependency
  <2> QED BY <2>2, <2>4, <2>5, <1>2
<1>4. CASE CalculateCriticalPath
  <2>1. /\ order' # <<>> /\ order' = order /\ dependencies' = dependencies
        /\ timing' = UpdateTimings(order', dependencies', dependents', timing)
    BY <1>4 DEF CalculateCriticalPath
  <2>2. Justified(dependencies', timing)
    BY <2>1 DEF ScheduleInv
  <2> QED BY <2>1, <2>2, <1>2
<1> QED BY <1>1, <1>3, <1>4

(* The latest finishes are as the search for the end of the critical path  *)
(* needs them.                                                             *)
LEMMA EndsAlwaysKnown == RestartableSpec => []EndInv
<1>1. Init => EndInv
  <2> SUFFICES ASSUME Init PROVE EndInv
    OBVIOUS
  <2>1. order = <<>> /\ ToSet(order) = {}
    BY DEF Init, ToSet
  <2>2. \A t \in Task : timing[t].latestStart = 0 /\ timing[t].latestFinish = 0
    BY DEF Init
  <2>3. LatestIs(order, dependents, timing, 0) /\ 0 \in Nat
    BY <2>1 DEF LatestIs
  <2> QED BY <2>1, <2>2, <2>3 DEF EndInv, Ends, StartsWithin
<1>2. /\ ScheduleInv /\ ScheduleInv' /\ AcyclicAlong(dependents)'
      /\ BothSidesAgree /\ BothSidesAgree'
      /\ EndInv /\ [Next]_vars
      => EndInv'
  <2> SUFFICES ASSUME ScheduleInv, ScheduleInv', AcyclicAlong(dependents'), BothSidesAgree,
                      BothSidesAgree', EndInv, [Next]_vars
               PROVE  EndInv'
    OBVIOUS
  <2>1. ASSUME NEW t \in Task, NEW d \in Task, RejectDependency(t, d)
        PROVE  EndInv'
    <3>1. TypeOK
      BY DEF ScheduleInv
    <3> QED BY <2>1, <3>1, RejectKeepsEnds
  <2>2. ASSUME \/ \E t, d \in Task : AddDependency(t, d)
               \/ CalculateCriticalPath
               \/ UNCHANGED vars
        PROVE  EndInv'
    BY <2>2, OtherStepsKeepEnds
  <2> QED BY <2>1, <2>2 DEF Next
<1> QED BY <1>1, <1>2, ScheduleAlwaysJustified, DependentsStayAcyclic,
           SidesKeepAgreeing, PTL DEF RestartableSpec

(* calculateCriticalPath takes the first node with the largest finish, and *)
(* there is one.                                                           *)
LEMMA EndIsFound ==
  ASSUME TypeOK, EndInv, order # <<>>
  PROVE  /\ CriticalEnd \in 1 .. Len(order)
         /\ dependents[order[CriticalEnd]] = <<>>
<1> DEFINE F == {timing[t].latestFinish : t \in ToSet(order)}
           I == {i \in 1 .. Len(order) : timing[order[i]].latestFinish = MaxFinish}
<1>1. /\ order \in Seq(Task) /\ Len(order) \in Nat /\ DOMAIN order = 1 .. Len(order)
      /\ IsFiniteSet(ToSet(order)) /\ ToSet(order) \subseteq Task
      /\ timing \in [Task -> Times]
  BY FiniteList DEF TypeOK, GraphTypeOK
<1>2. PICK end \in Nat : LatestIs(order, dependents, timing, end)
  BY DEF EndInv, Ends
<1>3. PICK t \in ToSet(order) : timing[t].latestFinish = end
  BY <1>2 DEF LatestIs
<1>4. MaxFinish = end
  <2>1. IsFiniteSet(F)
    <3> DEFINE g == [u \in ToSet(order) |-> timing[u].latestFinish]
    <3>1. F = {g[u] : u \in ToSet(order)}
      OBVIOUS
    <3> HIDE DEF g, F
    <3> QED BY <3>1, <1>1, FiniteImage
  <2>2. F \in SUBSET Int
    BY <1>1 DEF Times
  <2>3. end \in F /\ \A y \in F : y <= end
    BY <1>2, <1>3 DEF LatestIs
  <2>4. MaxFinish = Max({0} \cup F)
    BY DEF MaxFinish
  <2> HIDE DEF F
  <2>5. IsFiniteSet({0} \cup F)
    <3>1. {0} \cup F = F \cup {0}
      OBVIOUS
    <3> QED BY <3>1, <2>1, FS_AddElement
  <2>6. {0} \cup F \in SUBSET Int /\ {0} \cup F # {}
    BY <2>2
  <2>7. MaxFinish \in {0} \cup F /\ MaxFinish >= end
    BY <2>3, <2>4, <2>5, <2>6, MaxIsGreatest
  <2>8. MaxFinish <= end /\ MaxFinish \in Int
    BY <2>2, <2>3, <2>7
  <2> QED BY <2>7, <2>8
<1>5. CriticalEnd = IF I # {} THEN Min(I) ELSE 0
  BY DEF CriticalEnd, SelectInSeq
<1>6. I # {} /\ IsFiniteSet(I) /\ I \in SUBSET Int
  <2>1. PICK i \in 1 .. Len(order) : t = order[i]
    BY <1>1 DEF ToSet
  <2>2. I # {}
    BY <2>1, <1>3, <1>4
  <2>3. IsFiniteSet(I)
    <3>1. I \in SUBSET (1 .. Len(order))
      OBVIOUS
    <3>2. IsFiniteSet(1 .. Len(order))
      BY <1>1, FS_Interval
    <3> DEFINE D == 1 .. Len(order)
    <3>3. I \in SUBSET D /\ IsFiniteSet(D)
      BY <3>1, <3>2
    <3> HIDE DEF D, I
    <3> QED BY <3>3, FS_Subset
  <2> QED BY <2>2, <2>3
<1>7. CriticalEnd \in I
  <2> HIDE DEF I
  <2> QED BY <1>5, <1>6, MinIsLeast
<1>8. order[CriticalEnd] \in ToSet(order)
  BY <1>1, <1>7 DEF ToSet
<1> QED BY <1>2, <1>4, <1>7, <1>8 DEF LatestIs

(* A chain of dependencies from a task that waits for nothing to u.        *)
IsPath(p, u) ==
  /\ Len(p) \in Nat \ {0}
  /\ dependencies[p[1]] = <<>>
  /\ \A i \in 2 .. Len(p) : p[i - 1] \in ToSet(dependencies[p[i]])
  /\ p[Len(p)] = u

(* One step back leaves paths paths.                                       *)
LEMMA BackKeepsPaths ==
  ASSUME GraphTypeOK, NEW w \in [Task -> Seq(Task)],
         \A u \in Task : w[u] # NoPath => IsPath(w[u], u)
  PROVE  /\ OneStepBack(w) \in [Task -> Seq(Task)]
         /\ \A u \in Task :
              OneStepBack(w)[u] # NoPath => IsPath(OneStepBack(w)[u], u)
<1>1. ASSUME NEW u \in Task
      PROVE  /\ OneStepBack(w)[u] \in Seq(Task)
             /\ OneStepBack(w)[u] # NoPath => IsPath(OneStepBack(w)[u], u)
  <2>1. dependencies[u] \in Seq(Task)
    BY DEF GraphTypeOK
  <2>2. CASE dependencies[u] = <<>>
    <3>1. OneStepBack(w)[u] = <<u>>
      BY <2>2 DEF OneStepBack
    <3>2. Len(<<u>>) = 1 /\ <<u>>[1] = u /\ <<u>> \in Seq(Task)
      OBVIOUS
    <3> QED BY <3>1, <3>2, <2>2 DEF IsPath
  <2>3. CASE dependencies[u] # <<>>
    <3> DEFINE v == dependencies[u][1]
    <3>1. v \in Task /\ v \in ToSet(dependencies[u])
      BY <2>1, <2>3 DEF ToSet
    <3> HIDE DEF v
    <3>2. OneStepBack(w)[u] = IF w[v] = NoPath THEN NoPath ELSE Append(w[v], u)
      BY <2>3 DEF OneStepBack, v
    <3>3. CASE w[v] = NoPath
      BY <3>2, <3>3 DEF NoPath
    <3>4. CASE w[v] # NoPath
      <4>1. PICK p \in Seq(Task) : p = w[v] /\ IsPath(p, v)
        BY <3>1, <3>4
      <4>2. PICK q \in Seq(Task) : q = Append(p, u)
        <5>1. Append(p, u) \in Seq(Task)
          BY AppendedElements
        <5> QED BY <5>1
      <4>3. /\ Len(q) = Len(p) + 1 /\ Len(p) \in Nat \ {0}
            /\ \A i \in 1 .. Len(p) : q[i] = p[i]
            /\ q[Len(q)] = u
        BY <4>1, <4>2 DEF IsPath
      <4>4. dependencies[q[1]] = <<>>
        <5>1. 1 \in 1 .. Len(p)
          BY <4>3
        <5>2. q[1] = p[1]
          BY <5>1, <4>3
        <5> QED BY <5>2, <4>1 DEF IsPath
      <4>5. ASSUME NEW i \in 2 .. Len(q)
            PROVE  q[i - 1] \in ToSet(dependencies[q[i]])
        <5>1. CASE i = Len(q)
          <6>1. i - 1 = Len(p) /\ q[i - 1] = p[Len(p)] /\ q[i] = u
            <7>1. i - 1 = Len(p) /\ Len(p) \in 1 .. Len(p)
              BY <5>1, <4>3
            <7>2. q[Len(p)] = p[Len(p)]
              BY <7>1, <4>3
            <7> QED BY <7>1, <7>2, <5>1, <4>3
          <6> QED BY <6>1, <4>1, <3>1 DEF IsPath
        <5>2. CASE i # Len(q)
          <6>1. i \in 2 .. Len(p) /\ i \in 1 .. Len(p) /\ i - 1 \in 1 .. Len(p)
            BY <5>2, <4>3
          <6>2. q[i] = p[i] /\ q[i - 1] = p[i - 1]
            BY <6>1, <4>3
          <6> QED BY <6>1, <6>2, <4>1 DEF IsPath
        <5> QED BY <5>1, <5>2
      <4>6. IsPath(q, u)
        BY <4>3, <4>4, <4>5 DEF IsPath
      <4> QED BY <4>1, <4>2, <4>6, <3>2, <3>4
    <3> QED BY <3>3, <3>4
  <2> QED BY <2>2, <2>3
<1>2. OneStepBack(w) = [u \in Task |-> OneStepBack(w)[u]]
  BY DEF OneStepBack
<1> QED BY <1>1, <1>2

(* The walk is over when it has gone as far back as the longest chain.     *)
Arrived(c, w, k) == \A u \in Task : c[u] <= k => w[u] # NoPath

(* One step back finds the paths that are one task longer.                 *)
LEMMA BackArrives ==
  ASSUME GraphTypeOK, NEW c, IsChain(dependencies, c), NEW w \in [Task -> Seq(Task)],
         NEW k \in Nat, Arrived(c, w, k)
  PROVE  Arrived(c, OneStepBack(w), k + 1)
<1> SUFFICES ASSUME NEW u \in Task, c[u] <= k + 1 PROVE OneStepBack(w)[u] # NoPath
  BY DEF Arrived
<1>1. CASE dependencies[u] = <<>>
  BY <1>1 DEF OneStepBack, NoPath
<1>2. CASE dependencies[u] # <<>>
  <2> DEFINE v == dependencies[u][1]
  <2>1. v \in Task /\ v \in ToSet(dependencies[u])
    BY <1>2 DEF ToSet, GraphTypeOK
  <2> HIDE DEF v
  <2>2. c[u] >= c[v] + 1 /\ c[u] \in Nat /\ c[v] \in Nat
    BY <2>1 DEF IsChain, OneLonger
  <2>3. c[v] <= k
    BY <2>2
  <2>4. w[v] # NoPath /\ w[v] \in Seq(Task)
    BY <2>1, <2>3 DEF Arrived
  <2>5. Append(w[v], u) # <<>>
    <3>1. Len(Append(w[v], u)) = Len(w[v]) + 1 /\ Len(w[v]) \in Nat
      BY <2>4
    <3>2. Len(Append(w[v], u)) # 0
      BY <3>1
    <3>3. Len(<<>>) = 0
      OBVIOUS
    <3> QED BY <3>2, <3>3, Zenon
  <2>6. OneStepBack(w)[u] = Append(w[v], u)
    BY <1>2, <2>4 DEF OneStepBack, v
  <2> QED BY <2>5, <2>6 DEF NoPath
<1> QED BY <1>1, <1>2

(* One step back leaves lists lists, whatever they hold.                   *)
LEMMA BackType ==
  ASSUME GraphTypeOK, NEW w \in [Task -> Seq(Task)]
  PROVE  OneStepBack(w) \in [Task -> Seq(Task)]
<1> SUFFICES ASSUME NEW u \in Task PROVE OneStepBack(w)[u] \in Seq(Task)
  BY DEF OneStepBack
<1>1. CASE dependencies[u] = <<>>
  BY <1>1 DEF OneStepBack
<1>2. CASE dependencies[u] # <<>>
  <2>1. dependencies[u] \in Seq(Task)
    BY DEF GraphTypeOK
  <2>2. dependencies[u][1] \in Task
    BY <2>1, <1>2
  <2>3. PICK p \in Seq(Task) : p = w[dependencies[u][1]]
    BY <2>2
  <2>4. Append(p, u) \in Seq(Task)
    BY AppendedElements
  <2>5. OneStepBack(w)[u] = IF p = NoPath THEN NoPath ELSE Append(p, u)
    BY <2>3, <1>2 DEF OneStepBack
  <2> QED BY <2>4, <2>5
<1> QED BY <1>1, <1>2

(* The walk back from a task is over within the length of its longest      *)
(* chain, and what it has found is a path.                                 *)
LEMMA WalkArrives ==
  ASSUME GraphTypeOK, NEW c, IsChain(dependencies, c),
         NEW n \in Nat, NEW u \in Task, c[u] <= n
  PROVE  PathTo(u, n) # NoPath /\ IsPath(PathTo(u, n), u)
<1> DEFINE X == [Task -> Seq(Task)]
           none == [v \in Task |-> NoPath]
           step == [x \in X |-> OneStepBack(x)]
           Computes(g) ==
             g = [k \in 0 .. n |-> IF k = 0 THEN none ELSE OneStepBack(g[k - 1])]
           walk == CHOOSE g : Computes(g)
           Whole(w) == \A v \in Task : w[v] # NoPath => IsPath(w[v], v)
<1>1. none \in X /\ Whole(none) /\ Arrived(c, none, 0)
  BY DEF NoPath, IsChain, OneLonger, Arrived
<1>2. step \in [X -> X]
  <2>1. \A w \in X : OneStepBack(w) \in X
    BY BackType
  <2> QED BY <2>1
<1>3. ASSUME NEW w \in X, NEW k \in Nat, Whole(w), Arrived(c, w, k)
      PROVE  /\ OneStepBack(w) \in X /\ Whole(OneStepBack(w))
             /\ Arrived(c, OneStepBack(w), k + 1)
  BY <1>3, BackKeepsPaths, BackArrives
<1> HIDE DEF X, none
<1>4. PICK h \in [0 .. n -> X] : IsIteration(h, n, none, step)
  <2> HIDE DEF step, Computes
  <2> QED BY <1>1, <1>2, IterationExists
<1>5. Computes(h)
  <2>1. h = [k \in 0 .. n |-> h[k]]
    OBVIOUS
  <2>2. ASSUME NEW i \in 1 .. n PROVE h[i] = OneStepBack(h[i - 1])
    <3>1. h[i - 1] \in X
      OBVIOUS
    <3> QED BY <3>1, <1>4 DEF IsIteration
  <2>3. \A k \in 0 .. n : h[k] = IF k = 0 THEN none ELSE OneStepBack(h[k - 1])
    BY <2>2, <1>4 DEF IsIteration
  <2> QED BY <2>1, <2>3
<1>6. Computes(walk)
  <2> HIDE DEF Computes
  <2> QED BY <1>5
<1>7. PathTo(u, n) = walk[n][u]
  BY DEF PathTo, none
<1> HIDE DEF walk
<1>8. walk[0] = none /\ \A i \in 1 .. n : walk[i] = OneStepBack(walk[i - 1])
  BY <1>6
<1> DEFINE Good == {i \in 0 .. n : walk[i] \in X /\ Whole(walk[i]) /\ Arrived(c, walk[i], i)}
<1>9. \A i \in 0 .. n : i \in Good
  <2>1. 0 \in Good
    BY <1>1, <1>8
  <2>2. ASSUME NEW i \in 1 .. n, i - 1 \in Good PROVE i \in Good
    <3>1. PICK k \in Nat : k = i - 1 /\ i = k + 1 /\ i \in 0 .. n
      OBVIOUS
    <3>2. PICK w \in X : w = walk[k] /\ Whole(w) /\ Arrived(c, w, k)
      BY <2>2, <3>1
    <3> HIDE DEF Whole
    <3>3. /\ OneStepBack(w) \in X /\ Whole(OneStepBack(w))
          /\ Arrived(c, OneStepBack(w), k + 1)
      BY <3>2, <1>3
    <3>4. walk[i] = OneStepBack(w)
      BY <3>1, <3>2, <1>8
    <3> QED BY <3>1, <3>3, <3>4
  <2> HIDE DEF Good
  <2> QED BY <2>1, <2>2, IntervalInduction
<1>10. Whole(walk[n]) /\ Arrived(c, walk[n], n)
  <2>1. n \in 0 .. n
    OBVIOUS
  <2> QED BY <2>1, <1>9
<1> QED BY <1>7, <1>10 DEF Arrived

(* The walk starts where EndIsFound says, and ends as WalkArrives says.    *)
LEMMA CriticalPathStaysWhole == RestartableSpec => []CriticalPathIsWholeChain
<1>1. ScheduleInv /\ Acyclic /\ BothSidesAgree /\ EndInv => CriticalPathIsWholeChain
  <2> SUFFICES ASSUME ScheduleInv, Acyclic, BothSidesAgree, EndInv, order # <<>>
               PROVE  /\ CriticalEnd # 0
                      /\ CriticalPath # NoPath
                      /\ dependencies[CriticalPath[1]] = <<>>
                      /\ \A i \in 2 .. Len(CriticalPath) :
                           CriticalPath[i - 1] \in ToSet(dependencies[CriticalPath[i]])
                      /\ dependents[CriticalPath[Len(CriticalPath)]] = <<>>
    BY DEF CriticalPathIsWholeChain
  <2> DEFINE n == Len(order)
             c == LongestChain(dependencies)
             u == order[CriticalEnd]
  <2>1. /\ TypeOK /\ GraphTypeOK /\ order \in Seq(Task) /\ n \in Nat
        /\ dependencies \in [Task -> Seq(Task)] /\ DOMAIN order = 1 .. n
    BY DEF ScheduleInv, TypeOK, GraphTypeOK
  <2>2. CriticalEnd \in 1 .. n /\ dependents[u] = <<>>
    BY <2>1, EndIsFound
  <2>3. u \in ToSet(order) /\ u \in Task
    <3>1. PICK i \in 1 .. n : i = CriticalEnd
      BY <2>2
    <3>2. order[i] \in Task /\ i \in DOMAIN order
      BY <2>1
    <3>3. order[i] \in ToSet(order)
      BY <3>2 DEF ToSet
    <3> QED BY <3>1, <3>2, <3>3
  <2>4. IsChain(dependencies, c) /\ AcyclicAlong(dependencies)
    BY <2>1, TaskAssumption, DependencyChain
  <2>5. \A t \in Task : ToSet(dependencies[t]) \subseteq ToSet(order)
    <3>1. \A t \in Task : ToSet(dependencies[t]) \subseteq Task
      BY <2>1, FiniteList
    <3> QED BY <3>1 DEF BothSidesAgree
  <2> HIDE DEF c
  <2>6. c[u] <= n
    BY <2>1, <2>3, <2>4, <2>5, ChainWithinNodes
  <2>7. CriticalPath = PathTo(u, n)
    BY <2>2 DEF CriticalPath
  <2> HIDE DEF u, n
  <2>8. CriticalPath # NoPath /\ IsPath(CriticalPath, u)
    BY <2>1, <2>3, <2>4, <2>6, <2>7, WalkArrives
  <2>9. CriticalEnd # 0
    BY <2>1, <2>2
  <2> QED BY <2>2, <2>8, <2>9 DEF IsPath
<1> QED BY <1>1, ScheduleAlwaysJustified, StaysAcyclic, SidesKeepAgreeing,
           EndsAlwaysKnown, PTL

(* The path that is shown is a whole chain of dependencies: the walk that  *)
(* finds it, a loop without any other bound, ends at a task that waits for *)
(* nothing, and it started from one that nobody waits for.                 *)
THEOREM CriticalPathAlwaysWhole == Spec => []CriticalPathIsWholeChain
<1> QED BY CriticalPathStaysWhole, NeedNotRestart, PTL
=============================================================================
