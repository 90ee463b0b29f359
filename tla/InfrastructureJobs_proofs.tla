---------------------- MODULE InfrastructureJobs_proofs ----------------------
(***************************************************************************)
(* What the jobs promise for any number of items, of runs, and of calls    *)
(* that fail:                                                              *)
(*  - every run waits for calls of its script whose lists and conditions   *)
(*    it has seen;                                                         *)
(*  - the nightly backup publishes what it did;                            *)
(*  - traffic is moved only by a run that found something in its own region; *)
(*  - a verification deletes its copies;                                   *)
(*  - a run by itself rejects only because a call failed, nothing was found  *)
(*    to fail over to, or at a call that always throws.                    *)
(* Which job may touch what is read off its script, script by script.      *)
(***************************************************************************)
EXTENDS InfrastructureJobs, FiniteSetTheorems, WellFoundedInduction, TLAPS

-----------------------------------------------------------------------------
(* The scripts.  Calls, branches, stages and scripts that do without the   *)
(* resources X.of, the kinds of call X.kind, lists of X.list, what depends  *)
(* on X.need, and stages with a catch in X.catch.                          *)

Count == Cardinality(Item)

LEMMA Items == Count \in Nat /\ Item = 1 .. Count /\ \A i \in Item : i \in Nat \ {0}
  BY ItemAssumption, FS_CardinalityType DEF Count, ItemAssumption

Nothing == [of |-> {}, kind |-> {}, list |-> {}, need |-> {}, catch |-> {}]

Spared(X, c) ==
  /\ DOMAIN c = {"kind", "of", "item", "needs", "own"}
  /\ c.of \notin X.of /\ c.kind \notin X.kind
  /\ c.kind = "list" => c.of \notin X.list
  /\ \A s \in c.needs : s[1] \notin X.need
Branch(X, b) == \E C : b \in Seq(C) /\ \A c \in C : Spared(X, c)
Branches(X, B) == \E C : B \in Seq(C) /\ \A b \in C : Branch(X, b)
Markers == {<<"failed", 0>>, <<"refused", 0>>}
StageFits(X, s) ==
  /\ s.next \in Nat \ {0} /\ s.catch \in {0, 1} \ X.catch
  /\ s.rethrow \subseteq Markers /\ Branches(X, s.branches)
Spares(X, stages) == \E C : stages \in Seq(C) /\ \A s \in C : StageFits(X, s)

LEMMA Variants ==
  ASSUME NEW X, NEW c, Spared(X, c), NEW i, NEW name
  PROVE  /\ Spared(X, Swallowed(c)) /\ Spared(X, For(c, i))
         /\ name \notin X.need => Spared(X, If(name, c)) /\ Spared(X, Listed(c, name, i))
  <1>1. DOMAIN c = {"kind", "of", "item", "needs", "own"}
    BY DEF Spared
  <1>2. Spared(X, Swallowed(c)) /\ Spared(X, For(c, i))
    BY <1>1 DEF Spared, Swallowed, For
  <1>3. ASSUME NEW d, name \notin X.need, d \in {If(name, c), Listed(c, name, i)}
        PROVE  Spared(X, d)
    <2>1. /\ DOMAIN d = DOMAIN c /\ d.of = c.of /\ d.kind = c.kind
          /\ d.needs = c.needs \cup {<<name, 0>>} \/ d.needs = c.needs \cup {<<name, i>>}
      BY <1>1, <1>3 DEF If, Listed
    <2>2. \A s \in d.needs : s[1] \notin X.need
      <3>1. \A s \in d.needs : s \in c.needs \/ s[1] = name
        BY <2>1
      <3> QED BY <1>3, <3>1 DEF Spared
    <2> QED BY <2>1, <2>2 DEF Spared
  <1> QED BY <1>2, <1>3

(* The kinds of call that are found everywhere.                            *)
Usual(X) == X.kind \cap {"read", "put", "local", "stub", "broken"} = {}

LEMMA PlainCalls ==
  ASSUME NEW X, Usual(X), NEW of, of \notin X.of
  PROVE  /\ Spared(X, Read(of)) /\ Spared(X, Put(of)) /\ Spared(X, Local(of))
         /\ Spared(X, Stub(of)) /\ Spared(X, Broken(of))
         /\ "create" \notin X.kind => Spared(X, Create(of))
         /\ "list" \notin X.kind /\ of \notin X.list => Spared(X, List(of))
         /\ \A kind, item : kind \notin X.kind \cup {"list"} => Spared(X, Call(kind, of, item, {}))
  BY DEF Usual, Spared, Read, List, Put, Create, Local, Stub, Broken, Call

LEMMA Joined ==
  ASSUME NEW X, NEW a, NEW b, Branch(X, a), Branch(X, b)
  PROVE  Branch(X, a \o b)
  <1>1. PICK C : a \in Seq(C) /\ \A c \in C : Spared(X, c)
    BY DEF Branch
  <1>2. PICK D : b \in Seq(D) /\ \A c \in D : Spared(X, c)
    BY DEF Branch
  <1> DEFINE E == C \cup D
  <1>3. a \in Seq(E) /\ b \in Seq(E)
    BY <1>1, <1>2
  <1>4. \A c \in E : Spared(X, c)
    BY <1>1, <1>2
  <1> HIDE DEF E
  <1>5. a \o b \in Seq(E)
    BY <1>3
  <1> QED BY <1>4, <1>5 DEF Branch

LEMMA OneCall ==
  ASSUME NEW X, NEW c,
         Spared(X, c)
  PROVE  Branch(X, <<c>>)
  <1> DEFINE C == {c}
  <1>1. <<c>> \in Seq(C)
    OBVIOUS
  <1>2. \A x \in C : Spared(X, x)
    OBVIOUS
  <1> HIDE DEF C
  <1> QED BY <1>1, <1>2 DEF Branch

LEMMA TwoCalls ==
  ASSUME NEW X, NEW c, NEW d,
         Spared(X, c),
         Spared(X, d)
  PROVE  Branch(X, <<c, d>>)
  <1> DEFINE C == {c, d}
  <1>1. <<c, d>> \in Seq(C)
    OBVIOUS
  <1>2. \A x \in C : Spared(X, x)
    OBVIOUS
  <1> HIDE DEF C
  <1> QED BY <1>1, <1>2 DEF Branch

LEMMA ThreeCalls ==
  ASSUME NEW X, NEW c, NEW d, NEW e,
         Spared(X, c),
         Spared(X, d),
         Spared(X, e)
  PROVE  Branch(X, <<c, d, e>>)
  <1> DEFINE C == {c, d, e}
  <1>1. <<c, d, e>> \in Seq(C)
    OBVIOUS
  <1>2. \A x \in C : Spared(X, x)
    OBVIOUS
  <1> HIDE DEF C
  <1> QED BY <1>1, <1>2 DEF Branch

LEMMA FourCalls ==
  ASSUME NEW X, NEW c, NEW d, NEW e, NEW f,
         Spared(X, c),
         Spared(X, d),
         Spared(X, e),
         Spared(X, f)
  PROVE  Branch(X, <<c, d, e, f>>)
  <1> DEFINE C == {c, d, e, f}
  <1>1. <<c, d, e, f>> \in Seq(C)
    OBVIOUS
  <1>2. \A x \in C : Spared(X, x)
    OBVIOUS
  <1> HIDE DEF C
  <1> QED BY <1>1, <1>2 DEF Branch

LEMMA FiveCalls ==
  ASSUME NEW X, NEW c, NEW d, NEW e, NEW f, NEW g,
         Spared(X, c),
         Spared(X, d),
         Spared(X, e),
         Spared(X, f),
         Spared(X, g)
  PROVE  Branch(X, <<c, d, e, f, g>>)
  <1> DEFINE C == {c, d, e, f, g}
  <1>1. <<c, d, e, f, g>> \in Seq(C)
    OBVIOUS
  <1>2. \A x \in C : Spared(X, x)
    OBVIOUS
  <1> HIDE DEF C
  <1> QED BY <1>1, <1>2 DEF Branch

LEMMA SixCalls ==
  ASSUME NEW X, NEW c, NEW d, NEW e, NEW f, NEW g, NEW h,
         Spared(X, c),
         Spared(X, d),
         Spared(X, e),
         Spared(X, f),
         Spared(X, g),
         Spared(X, h)
  PROVE  Branch(X, <<c, d, e, f, g, h>>)
  <1> DEFINE C == {c, d, e, f, g, h}
  <1>1. <<c, d, e, f, g, h>> \in Seq(C)
    OBVIOUS
  <1>2. \A x \in C : Spared(X, x)
    OBVIOUS
  <1> HIDE DEF C
  <1> QED BY <1>1, <1>2 DEF Branch

LEMMA OneBranch ==
  ASSUME NEW X, NEW c,
         Branch(X, c)
  PROVE  Branches(X, <<c>>)
  <1> DEFINE C == {c}
  <1>1. <<c>> \in Seq(C)
    OBVIOUS
  <1>2. \A x \in C : Branch(X, x)
    OBVIOUS
  <1> HIDE DEF C
  <1> QED BY <1>1, <1>2 DEF Branches

LEMMA ThreeBranches ==
  ASSUME NEW X, NEW c, NEW d, NEW e,
         Branch(X, c),
         Branch(X, d),
         Branch(X, e)
  PROVE  Branches(X, <<c, d, e>>)
  <1> DEFINE C == {c, d, e}
  <1>1. <<c, d, e>> \in Seq(C)
    OBVIOUS
  <1>2. \A x \in C : Branch(X, x)
    OBVIOUS
  <1> HIDE DEF C
  <1> QED BY <1>1, <1>2 DEF Branches

LEMMA FiveBranches ==
  ASSUME NEW X, NEW c, NEW d, NEW e, NEW f, NEW g,
         Branch(X, c),
         Branch(X, d),
         Branch(X, e),
         Branch(X, f),
         Branch(X, g)
  PROVE  Branches(X, <<c, d, e, f, g>>)
  <1> DEFINE C == {c, d, e, f, g}
  <1>1. <<c, d, e, f, g>> \in Seq(C)
    OBVIOUS
  <1>2. \A x \in C : Branch(X, x)
    OBVIOUS
  <1> HIDE DEF C
  <1> QED BY <1>1, <1>2 DEF Branches

LEMMA OneStage ==
  ASSUME NEW X, NEW c,
         StageFits(X, c)
  PROVE  Spares(X, <<c>>)
  <1> DEFINE C == {c}
  <1>1. <<c>> \in Seq(C)
    OBVIOUS
  <1>2. \A x \in C : StageFits(X, x)
    OBVIOUS
  <1> HIDE DEF C
  <1> QED BY <1>1, <1>2 DEF Spares

LEMMA TwoStages ==
  ASSUME NEW X, NEW c, NEW d,
         StageFits(X, c),
         StageFits(X, d)
  PROVE  Spares(X, <<c, d>>)
  <1> DEFINE C == {c, d}
  <1>1. <<c, d>> \in Seq(C)
    OBVIOUS
  <1>2. \A x \in C : StageFits(X, x)
    OBVIOUS
  <1> HIDE DEF C
  <1> QED BY <1>1, <1>2 DEF Spares

LEMMA ThreeStages ==
  ASSUME NEW X, NEW c, NEW d, NEW e,
         StageFits(X, c),
         StageFits(X, d),
         StageFits(X, e)
  PROVE  Spares(X, <<c, d, e>>)
  <1> DEFINE C == {c, d, e}
  <1>1. <<c, d, e>> \in Seq(C)
    OBVIOUS
  <1>2. \A x \in C : StageFits(X, x)
    OBVIOUS
  <1> HIDE DEF C
  <1> QED BY <1>1, <1>2 DEF Spares

LEMMA FourStages ==
  ASSUME NEW X, NEW c, NEW d, NEW e, NEW f,
         StageFits(X, c),
         StageFits(X, d),
         StageFits(X, e),
         StageFits(X, f)
  PROVE  Spares(X, <<c, d, e, f>>)
  <1> DEFINE C == {c, d, e, f}
  <1>1. <<c, d, e, f>> \in Seq(C)
    OBVIOUS
  <1>2. \A x \in C : StageFits(X, x)
    OBVIOUS
  <1> HIDE DEF C
  <1> QED BY <1>1, <1>2 DEF Spares

LEMMA JoinedStages ==
  ASSUME NEW X, NEW a, NEW b, Spares(X, a), Spares(X, b)
  PROVE  Spares(X, a \o b)
  <1>1. PICK C : a \in Seq(C) /\ \A s \in C : StageFits(X, s)
    BY DEF Spares
  <1>2. PICK D : b \in Seq(D) /\ \A s \in D : StageFits(X, s)
    BY DEF Spares
  <1> DEFINE E == C \cup D
  <1>3. a \in Seq(E) /\ b \in Seq(E)
    BY <1>1, <1>2
  <1>4. \A s \in E : StageFits(X, s)
    BY <1>1, <1>2
  <1> HIDE DEF E
  <1>5. a \o b \in Seq(E)
    BY <1>3
  <1> QED BY <1>4, <1>5 DEF Spares

LEMMA Appended ==
  ASSUME NEW X, NEW b, Branch(X, b), NEW c, Spared(X, c)
  PROVE  Branch(X, Append(b, c))
  <1>1. PICK C : b \in Seq(C) /\ \A d \in C : Spared(X, d)
    BY DEF Branch
  <1> DEFINE E == C \cup {c}
  <1>3. b \in Seq(E) /\ c \in E
    BY <1>1
  <1>4. \A d \in E : Spared(X, d)
    BY <1>1
  <1> HIDE DEF E
  <1>5. Append(b, c) \in Seq(E)
    BY <1>3
  <1> QED BY <1>4, <1>5 DEF Branch

LEMMA ForItems ==
  ASSUME NEW X, NEW call, \A i \in Item : Spared(X, call[i]),
         call = [i \in Item |-> call[i]]
  PROVE  Branch(X, call)
  <1> DEFINE C == {call[i] : i \in Item}
  <1>1. call \in [1 .. Count -> C]
    BY Items
  <1>2. call \in Seq(C)
    <2> HIDE DEF C
    <2> QED BY <1>1, Items
  <1>3. \A c \in C : Spared(X, c)
    OBVIOUS
  <1> HIDE DEF C
  <1> QED BY <1>2, <1>3 DEF Branch

LEMMA Loops ==
  ASSUME NEW X, NEW c, Spared(X, c)
  PROVE  Branch(X, [i \in Item |-> For(c, i)])
  <1> DEFINE loop == [i \in Item |-> For(c, i)]
  <1>1. \A i \in Item : Spared(X, loop[i])
    BY Variants
  <1>2. loop = [i \in Item |-> loop[i]]
    OBVIOUS
  <1> HIDE DEF loop
  <1>3. Branch(X, loop)
    BY <1>1, <1>2, ForItems
  <1> QED BY <1>3 DEF loop

LEMMA ListedLoops ==
  ASSUME NEW X, NEW c, Spared(X, c), NEW type, type \notin X.need
  PROVE  Branch(X, [i \in Item |-> Listed(c, type, i)])
  <1> DEFINE loop == [i \in Item |-> Listed(c, type, i)]
  <1>1. \A i \in Item : Spared(X, loop[i])
    BY Variants
  <1>2. loop = [i \in Item |-> loop[i]]
    OBVIOUS
  <1> HIDE DEF loop
  <1>3. Branch(X, loop)
    BY <1>1, <1>2, ForItems
  <1> QED BY <1>3 DEF loop

LEMMA BranchForItems ==
  ASSUME NEW X, NEW branch, \A i \in Item : Branch(X, branch[i]),
         branch = [i \in Item |-> branch[i]]
  PROVE  Branches(X, branch)
  <1> DEFINE C == {branch[i] : i \in Item}
  <1>1. branch \in [1 .. Count -> C]
    BY Items
  <1>2. branch \in Seq(C)
    <2> HIDE DEF C
    <2> QED BY <1>1, Items
  <1>3. \A b \in C : Branch(X, b)
    OBVIOUS
  <1> HIDE DEF C
  <1> QED BY <1>2, <1>3 DEF Branches

LEMMA BranchLoops ==
  ASSUME NEW X, NEW c, Spared(X, c)
  PROVE  Branches(X, [i \in Item |-> <<For(c, i)>>])
  <1> DEFINE loop == [i \in Item |-> <<For(c, i)>>]
  <1>1. \A i \in Item : Branch(X, loop[i])
    BY Variants, OneCall
  <1>2. loop = [i \in Item |-> loop[i]]
    OBVIOUS
  <1> HIDE DEF loop
  <1>3. Branches(X, loop)
    BY <1>1, <1>2, BranchForItems
  <1> QED BY <1>3 DEF loop

LEMMA ListedBranchLoops ==
  ASSUME NEW X, NEW c, Spared(X, c), NEW type, type \notin X.need
  PROVE  Branches(X, [i \in Item |-> <<Listed(c, type, i)>>])
  <1> DEFINE loop == [i \in Item |-> <<Listed(c, type, i)>>]
  <1>1. \A i \in Item : Branch(X, loop[i])
    BY Variants, OneCall
  <1>2. loop = [i \in Item |-> loop[i]]
    OBVIOUS
  <1> HIDE DEF loop
  <1>3. Branches(X, loop)
    BY <1>1, <1>2, BranchForItems
  <1> QED BY <1>3 DEF loop

LEMMA EachItem ==
  ASSUME NEW k \in {2, 3}, NEW calls
  PROVE  /\ k * Count \in Nat
         /\ \A n \in 1 .. k * Count :
              /\ ((n - 1) \div k) + 1 \in Item /\ ((n - 1) % k) + 1 \in 1 .. k
              /\ Each(k, calls)[n] = calls[((n - 1) \div k) + 1][((n - 1) % k) + 1]
         /\ \A C : (\A i \in Item, m \in 1 .. k : calls[i][m] \in C) =>
                     Each(k, calls) \in Seq(C) /\ Len(Each(k, calls)) = k * Count
  <1>1. ASSUME NEW n \in 1 .. k * Count
        PROVE  ((n - 1) \div k) + 1 \in Item /\ ((n - 1) % k) + 1 \in 1 .. k
    BY <1>1, Items
  <1>2. k * Count \in Nat
    BY Items
  <1>4. \A n \in 1 .. k * Count :
          Each(k, calls)[n] = calls[((n - 1) \div k) + 1][((n - 1) % k) + 1]
    BY DEF Each, Count
  <1>5. ASSUME NEW C, \A i \in Item, m \in 1 .. k : calls[i][m] \in C
        PROVE  Each(k, calls) \in Seq(C) /\ Len(Each(k, calls)) = k * Count
    <2> DEFINE n == k * Count
               e == Each(k, calls)
    <2>1. n \in Nat /\ e \in [1 .. n -> C]
      BY <1>1, <1>2, <1>5 DEF Each, Count
    <2> HIDE DEF n, e
    <2>2. e \in Seq(C) /\ Len(e) = n
      BY <2>1
    <2> QED BY <2>2 DEF e, n
  <1> QED BY <1>1, <1>2, <1>4, <1>5

LEMMA ForItemsTwice ==
  ASSUME NEW X, NEW calls, \A i \in Item, m \in 1 .. 2 : Spared(X, calls[i][m])
  PROVE  Branch(X, Each(2, calls))
  <1> DEFINE C == {calls[i][m] : i \in Item, m \in 1 .. 2}
  <1>1. \A i \in Item, m \in 1 .. 2 : calls[i][m] \in C
    OBVIOUS
  <1>2. \A c \in C : Spared(X, c)
    OBVIOUS
  <1> HIDE DEF C
  <1>3. Each(2, calls) \in Seq(C)
    BY <1>1, EachItem
  <1> QED BY <1>2, <1>3 DEF Branch

LEMMA PairLoops ==
  ASSUME NEW X, NEW c, Spared(X, c), NEW d, Spared(X, d)
  PROVE  Branch(X, Each(2, [i \in Item |-> <<For(c, i), For(d, i)>>]))
  <1> DEFINE loop == [i \in Item |-> <<For(c, i), For(d, i)>>]
  <1>1. ASSUME NEW i \in Item, NEW m \in 1 .. 2
        PROVE  Spared(X, loop[i][m])
    <2>1. m = 1 \/ m = 2
      OBVIOUS
    <2>2. loop[i][1] = For(c, i) /\ loop[i][2] = For(d, i)
      OBVIOUS
    <2> QED BY <2>1, <2>2, Variants
  <1> HIDE DEF loop
  <1>2. Branch(X, Each(2, loop))
    BY <1>1, ForItemsTwice
  <1> QED BY <1>2 DEF loop

LEMMA ListedPairLoops ==
  ASSUME NEW X, NEW c, Spared(X, c), NEW d, Spared(X, d), NEW type, type \notin X.need
  PROVE  Branch(X, Each(2, [i \in Item |-> <<Listed(c, type, i), Listed(d, type, i)>>]))
  <1> DEFINE loop == [i \in Item |-> <<Listed(c, type, i), Listed(d, type, i)>>]
  <1>1. ASSUME NEW i \in Item, NEW m \in 1 .. 2
        PROVE  Spared(X, loop[i][m])
    <2>1. m = 1 \/ m = 2
      OBVIOUS
    <2>2. loop[i][1] = Listed(c, type, i) /\ loop[i][2] = Listed(d, type, i)
      OBVIOUS
    <2> QED BY <2>1, <2>2, Variants
  <1> HIDE DEF loop
  <1>2. Branch(X, Each(2, loop))
    BY <1>1, ForItemsTwice
  <1> QED BY <1>2 DEF loop

LEMMA DoFits ==
  ASSUME NEW X, 0 \notin X.catch, NEW calls, Branch(X, calls)
  PROVE  StageFits(X, Do(calls))
  <1>1. Branches(X, <<calls>>)
    BY OneBranch
  <1> QED BY <1>1 DEF StageFits, Do, Stage

LEMMA TryFits ==
  ASSUME NEW X, 1 \notin X.catch, NEW calls, Branch(X, calls)
  PROVE  /\ StageFits(X, Try(calls, 1, 1)) /\ StageFits(X, Try(calls, 2, 1))
         /\ StageFits(X, Try(calls, 3, 1))
  <1>1. Branches(X, <<calls>>)
    BY OneBranch
  <1> QED BY <1>1 DEF StageFits, Try, Stage

LEMMA AllFit ==
  ASSUME NEW X, 0 \notin X.catch, NEW B, Branches(X, B)
  PROVE  StageFits(X, All(B))
  BY DEF StageFits, All, Stage

LEMMA RethrowFits ==
  ASSUME NEW X, 0 \notin X.catch, NEW caught \in SUBSET {"failed", "refused"}
  PROVE  StageFits(X, Rethrow(caught))
  <1>1. \E C : <<>> \in Seq(C) /\ \A b \in C : Branch(X, b)
    <2> DEFINE C == {}
    <2>1. <<>> \in Seq(C) /\ \A b \in C : Branch(X, b)
      OBVIOUS
    <2> HIDE DEF C
    <2> QED BY <2>1
  <1>2. Rethrow(caught).rethrow \subseteq Markers
    BY DEF Rethrow, Stage, Markers
  <1> QED BY <1>1, <1>2 DEF Branches, StageFits, Rethrow, Stage

-----------------------------------------------------------------------------
(* Script by script.                                                       *)

Harmless(X) ==
  /\ Usual(X) /\ 0 \notin X.catch
  /\ X.of \subseteq {"traffic", "copy"} /\ X.need \subseteq {"failed", "refused"}

LEMMA UsualLoops ==
  ASSUME NEW X, Usual(X), NEW of, of \notin X.of, NEW type, type \notin X.need
  PROVE  /\ Branch(X, [i \in Item |-> Listed(Read(of), type, i)])
         /\ Branch(X, [i \in Item |-> Listed(Put(of), type, i)])
         /\ Branch(X, [i \in Item |-> Listed(Stub(of), type, i)])
         /\ Branches(X, [i \in Item |-> <<Listed(Read(of), type, i)>>])
  <1>1. Spared(X, Read(of)) /\ Spared(X, Put(of)) /\ Spared(X, Stub(of))
    BY PlainCalls
  <1>2. \A c \in {Read(of), Put(of), Stub(of)} :
          Branch(X, [i \in Item |-> Listed(c, type, i)])
    BY <1>1, ListedLoops
  <1> QED BY <1>1, <1>2, ListedBranchLoops

LEMMA RunSecurityScanFits ==
  ASSUME NEW X, Harmless(X)
  PROVE  Spares(X, RunSecurityScan)
  BY PlainCalls, ThreeCalls, DoFits, OneStage DEF RunSecurityScan, Harmless

LEMMA AllocateCostsFits ==
  ASSUME NEW X, Harmless(X)
  PROVE  Spares(X, AllocateCosts)
  BY PlainCalls, TwoCalls, DoFits, OneStage DEF AllocateCosts, Harmless

LEMMA GenerateForecastFits ==
  ASSUME NEW X, Harmless(X)
  PROVE  Spares(X, GenerateForecast)
  BY PlainCalls, TwoCalls, DoFits, OneStage DEF GenerateForecast, Harmless

LEMMA PlanCapacityFits ==
  ASSUME NEW X, Harmless(X)
  PROVE  Spares(X, PlanCapacity)
  BY PlainCalls, TwoCalls, DoFits, OneStage DEF PlanCapacity, Harmless

LEMMA AnalyzeUsageFits ==
  ASSUME NEW X, Harmless(X)
  PROVE  Spares(X, AnalyzeUsage)
  BY PlainCalls, FiveCalls, DoFits, OneStage DEF AnalyzeUsage, Harmless

LEMMA PerformanceTestFits ==
  ASSUME NEW X, Harmless(X)
  PROVE  Spares(X, PerformanceTest)
  BY PlainCalls, TwoCalls, DoFits, OneStage DEF PerformanceTest, Harmless

LEMMA CreateDashboardFits ==
  ASSUME NEW X, Harmless(X)
  PROVE  Spares(X, CreateDashboard)
  BY PlainCalls, OneCall, DoFits, OneStage DEF CreateDashboard, Harmless

LEMMA CreateApiDashboardFits ==
  ASSUME NEW X, Harmless(X)
  PROVE  Spares(X, CreateApiDashboard)
  BY PlainCalls, OneCall, DoFits, OneStage DEF CreateApiDashboard, Harmless

LEMMA CreatePerformanceDashboardFits ==
  ASSUME NEW X, Harmless(X)
  PROVE  Spares(X, CreatePerformanceDashboard)
  BY PlainCalls, OneCall, DoFits, OneStage
    DEF CreatePerformanceDashboard, Harmless

LEMMA CreateHealthDashboardFits ==
  ASSUME NEW X, Harmless(X)
  PROVE  Spares(X, CreateHealthDashboard)
  BY PlainCalls, OneCall, DoFits, OneStage DEF CreateHealthDashboard, Harmless

LEMMA SetupContinuousTestsFits ==
  ASSUME NEW X, Harmless(X), "create" \notin X.kind
  PROVE  Spares(X, SetupContinuousTests)
  BY PlainCalls, TwoCalls, DoFits, OneStage
    DEF SetupContinuousTests, Harmless

LEMMA SetupLoadBalancerFits ==
  ASSUME NEW X, Harmless(X)
  PROVE  Spares(X, SetupLoadBalancer)
  BY PlainCalls, ThreeCalls, DoFits, OneStage DEF SetupLoadBalancer, Harmless

LEMMA RunComplianceChecksFits ==
  ASSUME NEW X, Harmless(X)
  PROVE  Spares(X, RunComplianceChecks)
  BY PlainCalls, OneCall, DoFits, OneStage DEF RunComplianceChecks, Harmless

LEMMA RunDailyPerformanceTestFits ==
  ASSUME NEW X, Harmless(X)
  PROVE  Spares(X, RunDailyPerformanceTest)
  BY PlainCalls, Variants, OneCall, DoFits, OneStage
    DEF RunDailyPerformanceTest, Harmless

LEMMA RunWeeklyLoadTestFits ==
  ASSUME NEW X, Harmless(X)
  PROVE  Spares(X, RunWeeklyLoadTest)
  BY PlainCalls, Variants, OneCall, DoFits, OneStage
    DEF RunWeeklyLoadTest, Harmless

LEMMA ValidateRecoveryFits ==
  ASSUME NEW X, Harmless(X)
  PROVE  Spares(X, ValidateRecovery)
  BY PlainCalls, Variants, OneCall, DoFits, OneStage
    DEF ValidateRecovery, Harmless

LEMMA PerformRecoveryFits ==
  ASSUME NEW X, Harmless(X), "restore" \notin X.kind
  PROVE  Spares(X, PerformRecovery)
  BY PlainCalls, OneCall, DoFits, OneStage DEF PerformRecovery, Harmless

LEMMA TrackChangesFits ==
  ASSUME NEW X, Harmless(X)
  PROVE  Spares(X, TrackChanges)
  BY PlainCalls, OneCall, DoFits, OneStage DEF TrackChanges, Harmless

LEMMA AnalyzeTrendsFits ==
  ASSUME NEW X, Harmless(X)
  PROVE  Spares(X, AnalyzeTrends)
  BY PlainCalls, Variants, ThreeCalls, DoFits, OneStage
    DEF AnalyzeTrends, Harmless

LEMMA CreateAlertsFits ==
  ASSUME NEW X, Harmless(X)
  PROVE  Spares(X, CreateAlerts)
  BY PlainCalls, OneCall, DoFits, OneStage DEF CreateAlerts, Harmless

LEMMA SetupPerformanceAlertsFits ==
  ASSUME NEW X, Harmless(X)
  PROVE  Spares(X, SetupPerformanceAlerts)
  BY PlainCalls, OneCall, DoFits, OneStage DEF SetupPerformanceAlerts, Harmless

LEMMA SetupReplicationFits ==
  ASSUME NEW X, Harmless(X), "create" \notin X.kind
  PROVE  Spares(X, SetupReplication)
  <1>1. Branch(X, [i \in Item |-> For(Create("global table"), i)])
    BY PlainCalls, Loops DEF Harmless
  <1>2. Branch(X, <<If("KMS key", Broken("KMSMasterKeyId"))>>)
    BY PlainCalls, Variants, OneCall DEF Harmless
  <1> QED BY <1>1, <1>2, DoFits, Joined, OneStage DEF SetupReplication, Harmless

LEMMA CreateTablesFits ==
  ASSUME NEW X, Harmless(X), "create" \notin X.kind
  PROVE  Spares(X, CreateTables)
  <1>1. Branch(X, [i \in Item |-> For(Swallowed(Create("table")), i)])
    BY PlainCalls, Variants, Loops DEF Harmless
  <1> QED BY <1>1, DoFits, OneStage DEF CreateTables, Harmless

LEMMA RunBackupFits ==
  ASSUME NEW X, Harmless(X)
  PROVE  Spares(X, RunBackup)
  BY PlainCalls, Variants, DoFits, ForItems, OneStage
    DEF RunBackup, BackupAllTables, CreateBackup, Harmless

LEMMA SetupAutoScalingFits ==
  ASSUME NEW X, Harmless(X), "create" \notin X.kind
  PROVE  Spares(X, SetupAutoScaling)
  BY PlainCalls, TwoCalls, DoFits, OneStage DEF SetupAutoScaling, Harmless

LEMMA SetupFailoverFits ==
  ASSUME NEW X, Harmless(X), "create" \notin X.kind
  PROVE  Spares(X, SetupFailover)
  <1>1. Branch(X, [i \in Item |-> For(Create("global table"), i)])
    BY PlainCalls, Loops DEF Harmless
  <1>2. Branch(X, <<Put("dns health check"), Broken("region health check")>>)
    BY PlainCalls, TwoCalls DEF Harmless
  <1> QED BY <1>1, <1>2, DoFits, Joined, OneStage DEF SetupFailover, Harmless

LEMMA GenerateDocsFits ==
  ASSUME NEW X, Harmless(X), "list" \notin X.kind,
         X.list \cap {"stack"} = {}
  PROVE  Spares(X, GenerateDocs)
  <1>0. /\ Usual(X) /\ "stack" \notin X.need
        /\ "stack resources" \notin X.of
    BY DEF Harmless
  <1>1. Branch(X, [i \in Item |-> Listed(Read("stack resources"), "stack", i)])
    BY <1>0, UsualLoops
  <1> QED BY PlainCalls, <1>1, TwoCalls, DoFits, Joined, OneStage
    DEF GenerateDocs, Harmless

LEMMA SetupBackupStrategyFits ==
  ASSUME NEW X, Harmless(X), "create" \notin X.kind, "list" \notin X.kind,
         X.list \cap {"table", "database"} = {}
  PROVE  Spares(X, SetupBackupStrategy)
  <1>0. /\ Usual(X) /\ "table" \notin X.need /\ "database" \notin X.need
        /\ "table description" \notin X.of /\ "table selection" \notin X.of
        /\ "database selection" \notin X.of
    BY DEF Harmless
  <1>1. Branch(X,
         [i \in Item |-> Listed(Read("table description"), "table", i)])
    BY <1>0, UsualLoops
  <1>2. Branch(X, [i \in Item |-> Listed(Put("table selection"), "table", i)])
    BY <1>0, UsualLoops
  <1>3. Branch(X,
         [i \in Item |-> Listed(Put("database selection"), "database", i)])
    BY <1>0, UsualLoops
  <1>4. /\ Branch(X, <<Create("backup vault"), Create("backup plan"), List("table")>>)
        /\ Branch(X, <<List("database")>>)
        /\ Branch(X, <<Stub("configureRetentionRules"), Stub("setupCrossRegionCopy")>>)
    BY PlainCalls, OneCall, TwoCalls, ThreeCalls DEF Harmless
  <1> QED BY <1>1, <1>2, <1>3, <1>4, DoFits, Joined, OneStage
    DEF SetupBackupStrategy, Harmless

LEMMA PerformDrTestFits ==
  ASSUME NEW X, Harmless(X), 1 \notin X.catch
  PROVE  Spares(X, PerformDrTest)
  BY PlainCalls, OneCall, ThreeCalls, DoFits, TryFits, RethrowFits,
    ThreeStages DEF PerformDrTest, Harmless

LEMMA AggregateMetricsFits ==
  ASSUME NEW X, Harmless(X)
  PROVE  Spares(X, AggregateMetrics)
  BY PlainCalls, OneCall, DoFits, ThreeBranches, AllFit, TwoStages
    DEF AggregateMetrics, Harmless

LEMMA VerifyReplicationFits ==
  ASSUME NEW X, Harmless(X)
  PROVE  Spares(X, VerifyReplication)
  <1>1. Branches(X, [i \in Item |-> <<For(Read("table checksum"), i)>>])
    BY PlainCalls, BranchLoops DEF Harmless
  <1> QED BY <1>1, OneCall, DoFits, AllFit, OneStage
    DEF VerifyReplication, Harmless

LEMMA CollectInventoryFits ==
  ASSUME NEW X, Harmless(X), "list" \notin X.kind,
         X.list \cap {"table"} = {}
  PROVE  Spares(X, CollectInventory)
  <1>0. /\ Usual(X) /\ "table" \notin X.need
        /\ "table description" \notin X.of
    BY DEF Harmless
  <1>1. Branches(X,
         [i \in Item |-> <<Listed(Read("table description"), "table", i)>>])
    BY <1>0, UsualLoops
  <1> QED BY PlainCalls, <1>1, OneCall, ThreeCalls, DoFits, AllFit,
    ThreeStages DEF CollectInventory, Harmless

LEMMA RunTestsFits ==
  ASSUME NEW X, Harmless(X)
  PROVE  Spares(X, RunTests)
  <1>1. Branches(X, [i \in Item |-> <<For(Swallowed(Read("endpoint")), i)>>])
    BY PlainCalls, Variants, BranchLoops DEF Harmless
  <1> QED BY PlainCalls, <1>1, OneCall, TwoCalls, DoFits, AllFit, ThreeStages
    DEF RunTests, Harmless

LEMMA PerformMaintenanceFits ==
  ASSUME NEW X, Harmless(X), "list" \notin X.kind,
         X.list \cap {"table"} = {}
  PROVE  Spares(X, PerformMaintenance)
  <1>0. /\ Usual(X) /\ "table" \notin X.need
        /\ "optimizeDynamoDBTable" \notin X.of
    BY DEF Harmless
  <1>1. Branch(X,
         [i \in Item |-> Listed(Stub("optimizeDynamoDBTable"), "table", i)])
    BY <1>0, UsualLoops
  <1> QED BY PlainCalls, <1>1, OneCall, DoFits, Joined, ThreeBranches, AllFit,
    TwoStages DEF PerformMaintenance, Harmless

LEMMA ApplyTagsFits ==
  ASSUME NEW X, Harmless(X), "list" \notin X.kind,
         X.list \cap {"instance", "database", "table"} = {}
  PROVE  Spares(X, ApplyTags)
  <1>0. /\ Usual(X) /\ "instance" \notin X.need /\ "database" \notin X.need /\ "table" \notin X.need
        /\ "tag" \notin X.of /\ "database tag" \notin X.of
    BY DEF Harmless
  <1>1. Branch(X, [i \in Item |-> Listed(Put("tag"), "instance", i)])
    BY <1>0, UsualLoops
  <1>2. Branch(X, [i \in Item |-> Listed(Put("database tag"), "database", i)])
    BY <1>0, UsualLoops
  <1>3. Branch(X,
         Each(2, [i \in Item |-> <<Listed(Read("table description"), "table", i),
                                  Listed(Put("table tag"), "table", i)>>]))
    <2>1. Spared(X, Read("table description")) /\ Spared(X, Put("table tag"))
      BY PlainCalls DEF Harmless
    <2> QED BY <1>0, <2>1, ListedPairLoops
  <1>4. /\ Branch(X, <<List("instance")>>) /\ Branch(X, <<List("database")>>)
        /\ Branch(X, <<List("table")>>) /\ Branch(X, <<Stub("verifyTags")>>)
    BY PlainCalls, OneCall DEF Harmless
  <1> QED BY <1>1, <1>2, <1>3, <1>4, DoFits, Joined, ThreeBranches, AllFit, TwoStages
    DEF ApplyTags, Harmless

LEMMA AnalyzeCostsFits ==
  ASSUME NEW X, Harmless(X), "list" \notin X.kind,
         X.list \cap {"table"} = {}
  PROVE  Spares(X, AnalyzeCosts)
  <1> DEFINE Optimized(c) == If("DynamoDB is expensive", c)
  <1>1. Branch(X,
         [i \in Item |-> Optimized(Listed(Put("table capacity"), "table", i))])
    <2> DEFINE loop == [i \in Item |-> Optimized(Listed(Put("table capacity"), "table", i))]
    <2>1. \A i \in Item : Spared(X, loop[i])
      BY PlainCalls, Variants DEF Harmless
    <2>2. loop = [i \in Item |-> loop[i]]
      OBVIOUS
    <2> HIDE DEF loop
    <2>3. Branch(X, loop)
      BY <2>1, <2>2, ForItems
    <2> QED BY <2>3 DEF loop
  <1>2. Branch(X, <<Read("costs"), If("a day without DynamoDB", Broken("day.Metrics")),
                     Optimized(List("table"))>>)
    BY PlainCalls, Variants, ThreeCalls DEF Harmless
  <1> QED BY <1>1, <1>2, DoFits, Joined, OneStage DEF AnalyzeCosts, Harmless

LEMMA PerformCleanupFits ==
  ASSUME NEW X, Harmless(X), "list" \notin X.kind,
         X.list \cap {"stopped instance", "snapshot", "volume"} = {},
         "delete" \notin X.kind
  PROVE  Spares(X, PerformCleanup)
  <1>1. ASSUME NEW type, type \notin X.of \cup X.list \cup X.need
        PROVE  Branch(X, Loop(type, Put)) /\ Branch(X, Loop(type, Delete))
    <2>1. Branch(X, <<List(type)>>)
      BY PlainCalls, <1>1, OneCall DEF Harmless
    <2>2. /\ Branch(X, [i \in Item |-> Listed(Put(type), type, i)])
          /\ Branch(X, [i \in Item |-> Listed(Delete(type), type, i)])
      <3>1. Spared(X, Put(type)) /\ Spared(X, Delete(type))
        BY PlainCalls, <1>1 DEF Harmless, Delete
      <3> QED BY <1>1, <3>1, ListedLoops
    <2> QED BY <2>1, <2>2, Joined DEF Loop
  <1>2. /\ Branch(X, Loop("stopped instance", Put))
        /\ Branch(X, Loop("snapshot", Delete))
        /\ Branch(X, Loop("volume", Delete))
    <2>1. {"stopped instance", "snapshot", "volume"}
            \cap (X.of \cup X.list \cup X.need) = {}
      BY DEF Harmless
    <2> QED BY <1>1, <2>1
  <1>3. Branch(X, <<Broken("describeLogGroups")>>) /\ Branch(X, <<Stub("cleanupOldMetrics")>>)
    BY PlainCalls, OneCall DEF Harmless
  <1> QED BY <1>2, <1>3, FiveBranches, AllFit, OneStage
    DEF PerformCleanup, Harmless

LEMMA GenerateReportFits ==
  ASSUME NEW X, Harmless(X), 1 \notin X.catch
  PROVE  Spares(X, GenerateReport)
  <1>1. /\ Branch(X, <<Local("baseline")>>)
        /\ Branch(X, <<Local("default baseline")>>)
        /\ Branch(X, <<Put("performance report")>>)
    BY PlainCalls, OneCall DEF Harmless
  <1>2. StageFits(X, Try(<<Local("baseline")>>, 2, 1))
    BY <1>1, TryFits
  <1> QED BY <1>1, <1>2, DoFits, ThreeStages DEF GenerateReport, Harmless

LEMMA DeployFits ==
  ASSUME NEW X, Harmless(X), "create" \notin X.kind, 1 \notin X.catch,
         "refused" \notin X.need
  PROVE  Spares(X, Deploy)
  <1>1. /\ Branch(X, <<Local("template")>>)
        /\ Branch(X, <<Create("stack")>>)
        /\ Branch(X, <<If("refused", Put("stack update"))>>)
    BY PlainCalls, Variants, OneCall DEF Harmless
  <1>2. StageFits(X, Try(<<Create("stack")>>, 3, 1))
    BY <1>1, TryFits
  <1> QED BY <1>1, <1>2, DoFits, RethrowFits, FourStages DEF Deploy, Harmless

LEMMA PerformSecurityScanFits ==
  ASSUME NEW X, Harmless(X)
  PROVE  Spares(X, PerformSecurityScan)
  BY PlainCalls, OneCall, DoFits, OneStage DEF PerformSecurityScan, Harmless

LEMMA PerformDailyBackupFits ==
  ASSUME NEW X, Harmless(X), 1 \notin X.catch
  PROVE  Spares(X, PerformDailyBackup)
  <1>1. Branch(X, BackupAllTables)
    BY PlainCalls, Loops DEF BackupAllTables, CreateBackup, Harmless
  <1>2. Branch(X, Append(BackupAllTables, Put("success metric")))
    BY PlainCalls, <1>1, Appended DEF Harmless
  <1>3. Branch(X, <<Put("failure metric")>>)
    BY PlainCalls, OneCall DEF Harmless
  <1> QED BY <1>2, <1>3, DoFits, TryFits, RethrowFits, ThreeStages
    DEF PerformDailyBackup, Harmless

LEMMA InitiateFailoverFits ==
  ASSUME NEW X, X = [Nothing EXCEPT !.of = {"copy"}]
  PROVE  Spares(X, InitiateFailover)
  <1>0. Usual(X) /\ X.kind = {} /\ X.list = {} /\ X.catch = {} /\ X.of = {"copy"}
    BY DEF Nothing, Usual
  <1>1. Branch(X, <<Here(List("table")), Here(List("function")),
          Here(Require("table")), Here(Require("function")),
          Put("traffic"), Stub("verifyFailover")>>)
    BY <1>0, PlainCalls, Variants, SixCalls DEF Here, Require
  <1>2. Branch(X, <<Stub("rollback")>>)
    BY <1>0, PlainCalls, OneCall
  <1> QED BY <1>0, <1>1, <1>2, DoFits, TryFits, RethrowFits, ThreeStages
    DEF InitiateFailover

LEMMA VerifyBackupsFits ==
  ASSUME NEW X, X = [Nothing EXCEPT !.of = {"traffic"}]
  PROVE  Spares(X, VerifyBackups)
  <1>0. /\ Usual(X) /\ X.kind = {} /\ X.list = {} /\ X.catch = {} /\ X.of = {"traffic"}
        /\ X.need = {}
    BY DEF Nothing, Usual
  <1> DEFINE C == {s \in UNION {{VerifyTable(i)[m] : m \in 1 .. 3} : i \in Item} : StageFits(X, s)}
             tables == [i \in Item |-> VerifyTable(i)]
  <1>1. ASSUME NEW i \in Item, NEW m \in 1 .. 3
        PROVE  StageFits(X, VerifyTable(i)[m])
    <2>1. Branch(X, <<For(List("table backup"), i)>>)
      BY <1>0, PlainCalls, Variants, OneCall
    <2>2. Branch(X, <<Copy("restore", i), Had(Read("table"), i), Copy("scan", i)>>)
      BY <1>0, PlainCalls, Variants, ThreeCalls DEF Copy, Had
    <2>3. Branch(X, <<Swallowed(Copy("delete", i))>>)
      BY <1>0, PlainCalls, Variants, OneCall DEF Copy, Had
    <2>4. /\ StageFits(X, VerifyTable(i)[1])
          /\ StageFits(X, VerifyTable(i)[2])
          /\ StageFits(X, VerifyTable(i)[3])
      BY <1>0, <2>1, <2>2, <2>3, DoFits, TryFits DEF VerifyTable
    <2> QED BY <2>4
  <1>2. \A i \in Item, m \in 1 .. 3 : tables[i][m] \in C
    BY <1>1
  <1>3. \A s \in C : StageFits(X, s)
    OBVIOUS
  <1> HIDE DEF C, tables
  <1>4. Each(3, tables) \in Seq(C)
    BY <1>2, EachItem
  <1>5. Spares(X, Each(3, tables))
    BY <1>3, <1>4 DEF Spares
  <1>6. Branch(X, <<Put("verification report")>>)
    BY <1>0, PlainCalls, OneCall
  <1> QED BY <1>0, <1>5, <1>6, DoFits, OneStage, JoinedStages
    DEF VerifyBackups, tables

LEMMA JobsAreScripts ==
  /\ DOMAIN Script = {"performDailyBackup", "runBackup", "performRecovery", "validateRecovery",
       "verifyBackups", "setupBackupStrategy", "initiateFailover",
       "performDrTest", "setupFailover", "setupReplication",
       "verifyReplication", "performCleanup", "performMaintenance",
       "applyTags", "performSecurityScan", "runComplianceChecks",
       "runSecurityScan", "trackChanges", "analyzeCosts", "allocateCosts",
       "generateForecast", "planCapacity", "aggregateMetrics", "analyzeUsage",
       "analyzeTrends", "collectInventory", "runTests",
       "generateDocs", "generateReport", "performanceTest",
       "runDailyPerformanceTest", "runWeeklyLoadTest", "createAlerts",
       "setupPerformanceAlerts", "createDashboard", "createApiDashboard",
       "createPerformanceDashboard", "createHealthDashboard",
       "setupContinuousTests", "setupAutoScaling", "setupLoadBalancer",
       "createTables", "deploy"}
  /\ \A j \in DOMAIN Script \ {"verifyBackups", "initiateFailover"} :
       Script[j] \in {PerformDailyBackup, RunBackup, PerformRecovery, ValidateRecovery,
         SetupBackupStrategy, PerformDrTest, SetupFailover, SetupReplication,
         VerifyReplication, PerformCleanup, PerformMaintenance, ApplyTags,
         PerformSecurityScan, RunComplianceChecks, RunSecurityScan,
         TrackChanges, AnalyzeCosts, AllocateCosts, GenerateForecast,
         PlanCapacity, AggregateMetrics, AnalyzeUsage, AnalyzeTrends,
         CollectInventory, RunTests, GenerateDocs,
         GenerateReport, PerformanceTest, RunDailyPerformanceTest,
         RunWeeklyLoadTest, CreateAlerts, SetupPerformanceAlerts,
         CreateDashboard, CreateApiDashboard, CreatePerformanceDashboard,
         CreateHealthDashboard, SetupContinuousTests,
         SetupAutoScaling, SetupLoadBalancer, CreateTables, Deploy}
  /\ Script.verifyBackups = VerifyBackups /\ Script.initiateFailover = InitiateFailover
  /\ Script.performDailyBackup = PerformDailyBackup
  BY DEF Script

(* Only failing over touches the traffic, and only verifying backups makes *)
(* copies.                                                                 *)
Foreign(j) ==
  [Nothing EXCEPT !.of = (IF j = "initiateFailover" THEN {} ELSE {"traffic"})
                           \cup (IF j = "verifyBackups" THEN {} ELSE {"copy"})]

LEMMA ForeignIs ==
  ASSUME NEW j
  PROVE  /\ Foreign(j).kind = {} /\ Foreign(j).list = {} /\ Foreign(j).need = {}
         /\ Foreign(j).catch = {} /\ Usual(Foreign(j))
         /\ Foreign(j).of = (IF j = "initiateFailover" THEN {} ELSE {"traffic"})
                             \cup (IF j = "verifyBackups" THEN {} ELSE {"copy"})
  BY DEF Foreign, Nothing, Usual

LEMMA JobFits ==
  ASSUME NEW j \in DOMAIN Script
  PROVE  Spares(Foreign(j), Script[j])
  <1>1. CASE j = "verifyBackups"
    <2>1. Foreign(j) = [Nothing EXCEPT !.of = {"traffic"}]
      <3>1. (IF j = "initiateFailover" THEN {} ELSE {"traffic"})
              \cup (IF j = "verifyBackups" THEN {} ELSE {"copy"}) = {"traffic"}
        BY <1>1
      <3> QED BY <3>1 DEF Foreign
    <2> QED BY <1>1, <2>1, JobsAreScripts, VerifyBackupsFits
  <1>2. CASE j = "initiateFailover"
    <2>1. Foreign(j) = [Nothing EXCEPT !.of = {"copy"}]
      <3>1. (IF j = "initiateFailover" THEN {} ELSE {"traffic"})
              \cup (IF j = "verifyBackups" THEN {} ELSE {"copy"}) = {"copy"}
        BY <1>2
      <3> QED BY <3>1 DEF Foreign
    <2> QED BY <1>2, <2>1, JobsAreScripts, InitiateFailoverFits
  <1>3. CASE j \notin {"verifyBackups", "initiateFailover"}
    <2> DEFINE X == Foreign(j)
    <2>1. /\ Harmless(X) /\ X.list = {} /\ "create" \notin X.kind /\ "list" \notin X.kind
          /\ "delete" \notin X.kind /\ "restore" \notin X.kind /\ 1 \notin X.catch
          /\ "refused" \notin X.need
      BY ForeignIs DEF Harmless
    <2> HIDE DEF X
    <2>2. /\ Spares(X, PerformDailyBackup)
          /\ Spares(X, RunBackup)
          /\ Spares(X, PerformRecovery)
          /\ Spares(X, ValidateRecovery)
          /\ Spares(X, SetupBackupStrategy)
          /\ Spares(X, PerformDrTest)
          /\ Spares(X, SetupFailover)
          /\ Spares(X, SetupReplication)
      BY <2>1, PerformDailyBackupFits, RunBackupFits, PerformRecoveryFits,
        ValidateRecoveryFits, SetupBackupStrategyFits, PerformDrTestFits,
        SetupFailoverFits, SetupReplicationFits
    <2>3. /\ Spares(X, VerifyReplication)
          /\ Spares(X, PerformCleanup)
          /\ Spares(X, PerformMaintenance)
          /\ Spares(X, ApplyTags)
          /\ Spares(X, PerformSecurityScan)
          /\ Spares(X, RunComplianceChecks)
          /\ Spares(X, RunSecurityScan)
          /\ Spares(X, TrackChanges)
      BY <2>1, VerifyReplicationFits, PerformCleanupFits,
        PerformMaintenanceFits, ApplyTagsFits, PerformSecurityScanFits,
        RunComplianceChecksFits, RunSecurityScanFits, TrackChangesFits
    <2>4. /\ Spares(X, AnalyzeCosts)
          /\ Spares(X, AllocateCosts)
          /\ Spares(X, GenerateForecast)
          /\ Spares(X, PlanCapacity)
          /\ Spares(X, AggregateMetrics)
          /\ Spares(X, AnalyzeUsage)
          /\ Spares(X, AnalyzeTrends)
          /\ Spares(X, CollectInventory)
      BY <2>1, AnalyzeCostsFits, AllocateCostsFits, GenerateForecastFits,
        PlanCapacityFits, AggregateMetricsFits, AnalyzeUsageFits,
        AnalyzeTrendsFits, CollectInventoryFits
    <2>5. /\ Spares(X, RunTests)
          /\ Spares(X, GenerateDocs)
          /\ Spares(X, GenerateReport)
          /\ Spares(X, PerformanceTest)
          /\ Spares(X, RunDailyPerformanceTest)
          /\ Spares(X, RunWeeklyLoadTest)
          /\ Spares(X, CreateAlerts)
      BY <2>1, RunTestsFits, GenerateDocsFits,
        GenerateReportFits, PerformanceTestFits, RunDailyPerformanceTestFits,
        RunWeeklyLoadTestFits, CreateAlertsFits
    <2>6. /\ Spares(X, SetupPerformanceAlerts)
          /\ Spares(X, CreateDashboard)
          /\ Spares(X, CreateApiDashboard)
          /\ Spares(X, CreatePerformanceDashboard)
          /\ Spares(X, CreateHealthDashboard)
          /\ Spares(X, SetupContinuousTests)
          /\ Spares(X, SetupAutoScaling)
      BY <2>1, SetupPerformanceAlertsFits, CreateDashboardFits,
        CreateApiDashboardFits, CreatePerformanceDashboardFits,
        CreateHealthDashboardFits, SetupContinuousTestsFits,
        SetupAutoScalingFits
    <2>7. /\ Spares(X, SetupLoadBalancer)
          /\ Spares(X, CreateTables)
          /\ Spares(X, Deploy)
      BY <2>1, SetupLoadBalancerFits, CreateTablesFits, DeployFits
    <2> QED BY <1>3, <2>2, <2>3, <2>4, <2>5, <2>6, <2>7, JobsAreScripts DEF X
  <1> QED BY <1>1, <1>2, <1>3

-----------------------------------------------------------------------------
(* What a step of a run does to it, in terms of the calls of its branches. *)

LEMMA Least ==
  ASSUME NEW T \in SUBSET Nat, T # {}
  PROVE  \E m \in T : \A k \in T : m <= k
  <1> DEFINE R == OpToRel(<, Nat)
  <1>1. IsWellFoundedOn(R, Nat)
    BY NatLessThanWellFounded
  <1>2. \A j, k \in Nat : j < k => <<j, k>> \in R
    BY DEF OpToRel
  <1> HIDE DEF R
  <1>3. PICK m \in T : \A k \in T : ~ (<<k, m>> \in R)
    BY <1>1, WFMin
  <1>4. ASSUME NEW k \in T
        PROVE  m <= k
    <2>1. m \in Nat /\ k \in Nat /\ ~(<<k, m>> \in R)
      BY <1>3
    <2>2. ~(k < m)
      BY <1>2, <2>1
    <2> QED BY <2>1, <2>2
  <1> QED BY <1>4

(* m is the next call of branch b after its n-th.                          *)
Follows(b, n, seen, m) ==
  /\ m \in n + 1 .. Len(b) + 1
  /\ m <= Len(b) => b[m].needs \subseteq seen
  /\ \A k \in n + 1 .. m - 1 : ~(b[k].needs \subseteq seen)

LEMMA NextCallExists ==
  ASSUME NEW C, NEW b \in Seq(C), NEW n \in 0 .. Len(b), NEW seen
  PROVE  Follows(b, n, seen, NextCall(b, n, seen))
  <1> DEFINE T == {m \in n + 1 .. Len(b) + 1 : m <= Len(b) => b[m].needs \subseteq seen}
  <1>1. Len(b) \in Nat /\ n \in Nat
    OBVIOUS
  <1>2. T \in SUBSET Nat /\ Len(b) + 1 \in T
    BY <1>1
  <1>3. PICK m \in T : \A k \in T : m <= k
    <2> HIDE DEF T
    <2> QED BY <1>2, Least
  <1>4. m \in n + 1 .. Len(b) + 1 /\ (m <= Len(b) => b[m].needs \subseteq seen)
    BY <1>3
  <1>5. ASSUME NEW k \in n + 1 .. m - 1
        PROVE  ~(b[k].needs \subseteq seen)
    <2>1. k \in Nat /\ k < m /\ k \in n + 1 .. Len(b) + 1
      BY <1>1, <1>4, <1>5
    <2>2. k \notin T
      <3> HIDE DEF T
      <3>1. m \in Nat
        BY <1>1, <1>4
      <3> QED BY <1>3, <2>1, <3>1
    <2> QED BY <2>1, <2>2, <1>1, <1>4
  <1>6. \E p \in n + 1 .. Len(b) + 1 :
          /\ p <= Len(b) => b[p].needs \subseteq seen
          /\ \A k \in n + 1 .. p - 1 : ~(b[k].needs \subseteq seen)
    BY <1>4, <1>5
  <1> QED BY <1>6 DEF Follows, NextCall

(* The stages of a script that fits.                                       *)
LEMMA StageOf ==
  ASSUME NEW X, NEW S, Spares(X, S), NEW n \in 1 .. Len(S)
  PROVE  StageFits(X, S[n])
  <1>1. PICK C : S \in Seq(C) /\ \A s \in C : StageFits(X, s)
    BY DEF Spares
  <1> QED BY <1>1

LEMMA BranchOf ==
  ASSUME NEW X, NEW S, Spares(X, S), NEW n \in 1 .. Len(S),
         NEW b \in DOMAIN S[n].branches
  PROVE  /\ Branch(X, S[n].branches[b])
         /\ \E C : S[n].branches[b] \in Seq(C)
         /\ Len(S[n].branches[b]) \in Nat
         /\ DOMAIN S[n].branches[b] = 1 .. Len(S[n].branches[b])
  <1>1. PICK B : B = S[n].branches
    OBVIOUS
  <1>2. PICK D : B \in Seq(D) /\ \A a \in D : Branch(X, a)
    BY <1>1, StageOf DEF StageFits, Branches
  <1>3. Branch(X, B[b])
    BY <1>1, <1>2
  <1>4. PICK E : B[b] \in Seq(E)
    BY <1>3 DEF Branch
  <1>5. Len(B[b]) \in Nat /\ DOMAIN B[b] = 1 .. Len(B[b])
    BY <1>4
  <1> QED BY <1>1, <1>3, <1>4, <1>5

LEMMA CallOf ==
  ASSUME NEW X, NEW S, Spares(X, S), NEW n \in 1 .. Len(S),
         NEW b \in DOMAIN S[n].branches, NEW k \in DOMAIN S[n].branches[b]
  PROVE  Spared(X, S[n].branches[b][k])
  <1>1. PICK a : a = S[n].branches[b]
    OBVIOUS
  <1>2. PICK C : a \in Seq(C) /\ \A c \in C : Spared(X, c)
    BY <1>1, BranchOf DEF Branch
  <1> QED BY <1>1, <1>2

LEMMA StagesFit ==
  ASSUME NEW X, NEW S, Spares(X, S)
  PROVE  /\ Len(S) \in Nat /\ DOMAIN S = 1 .. Len(S)
         /\ \A n \in 1 .. Len(S) :
              /\ S[n].next \in Nat \ {0} /\ S[n].catch \in {0, 1}
              /\ Len(S[n].branches) \in Nat
              /\ DOMAIN S[n].branches = 1 .. Len(S[n].branches)
              /\ \A b \in DOMAIN S[n].branches :
                   /\ Len(S[n].branches[b]) \in Nat
                   /\ DOMAIN S[n].branches[b] = 1 .. Len(S[n].branches[b])
                   /\ \E C : S[n].branches[b] \in Seq(C)
  <1>1. Len(S) \in Nat /\ DOMAIN S = 1 .. Len(S)
    BY DEF Spares
  <1>2. ASSUME NEW n \in 1 .. Len(S)
        PROVE  /\ S[n].next \in Nat \ {0} /\ S[n].catch \in {0, 1}
               /\ Len(S[n].branches) \in Nat
               /\ DOMAIN S[n].branches = 1 .. Len(S[n].branches)
    <2>1. StageFits(X, S[n])
      BY StageOf
    <2>2. PICK B : S[n].branches \in Seq(B)
      BY <2>1 DEF StageFits, Branches
    <2> QED BY <2>1, <2>2 DEF StageFits
  <1> QED BY <1>1, <1>2, BranchOf

Fields == {"state", "stage", "at", "seen", "failed"}
States == {"idle", "running", "rejected", "resolved", "killed"}

(* Branch a of x is at one of its calls, which the run may make, or past   *)
(* the last.                                                               *)
Placed(x, a) ==
  LET branch == Stages[x.stage].branches[a]
  IN x.at[a] \in 1 .. Len(branch) + 1
       /\ (x.at[a] <= Len(branch) => branch[x.at[a]].needs \subseteq x.seen)

RunShape(x) ==
  /\ DOMAIN x = Fields /\ x.state \in States
  /\ x.state # "idle" => x.stage \in Nat \ {0}
  /\ x.state # "idle" /\ x.stage <= Len(Stages) =>
       /\ DOMAIN x.at = DOMAIN Stages[x.stage].branches
       /\ \A a \in DOMAIN x.at : Placed(x, a)

Shape ==
  /\ scenario \in Scenario
  /\ DOMAIN run = Run /\ DOMAIN effects = Run /\ failures \in Nat
  /\ \A r \in Run : RunShape(run[r])
  /\ \A r \in Run : run[r].state = "idle" => run[r] = Idle /\ effects[r] = {}

LEMMA JobSpares ==
  ASSUME scenario \in Scenario
  PROVE  job \in DOMAIN Script /\ Spares(Foreign(job), Stages)
  BY ScenarioAssumption, JobFits DEF ScenarioAssumption, job, Stages

(* What the operators on runs do.                                          *)
Called(x, b, c) ==
  /\ x.state \in {"running", "rejected"}
  /\ x.stage \in 1 .. Len(Stages)
  /\ b \in DOMAIN Stages[x.stage].branches
  /\ x.at[b] \in DOMAIN Stages[x.stage].branches[b]
  /\ c = Stages[x.stage].branches[b][x.at[b]]
  /\ c.needs \subseteq x.seen

LEMMA CalledAt ==
  ASSUME scenario \in Scenario, NEW x, NEW b, NEW c, Called(x, b, c)
  PROVE  /\ Len(Stages) \in Nat /\ x.stage \in 1 .. Len(Stages)
         /\ x.stage \in Nat \ {0} /\ x.stage + 1 \in Nat \ {0} /\ x.state # "idle"
         /\ Len(Stages[x.stage].branches[b]) \in Nat
         /\ x.at[b] \in 1 .. Len(Stages[x.stage].branches[b])
  <1>1. /\ x.stage \in 1 .. Len(Stages) /\ x.state # "idle"
        /\ b \in DOMAIN Stages[x.stage].branches
        /\ x.at[b] \in DOMAIN Stages[x.stage].branches[b]
    BY DEF Called
  <1>2. Spares(Foreign(job), Stages)
    BY JobSpares
  <1>3. Len(Stages) \in Nat
    BY <1>2, StagesFit
  <1>4. /\ Len(Stages[x.stage].branches[b]) \in Nat
        /\ DOMAIN Stages[x.stage].branches[b] = 1 .. Len(Stages[x.stage].branches[b])
    BY <1>1, <1>2, BranchOf
  <1> QED BY <1>1, <1>3, <1>4

Elsewhere(x, y, b) ==
  /\ DOMAIN y = Fields /\ y.stage = x.stage
  /\ DOMAIN y.at = DOMAIN x.at
  /\ \A a \in DOMAIN x.at \ {b} : y.at[a] = x.at[a]

Advanced(x, y, b, seen) ==
  /\ Elsewhere(x, y, b) /\ y.state = x.state /\ y.seen = seen
  /\ Follows(Stages[x.stage].branches[b], x.at[b], seen, y.at[b])

Ended(x, y, b) ==
  /\ Elsewhere(x, y, b) /\ y.state = "rejected" /\ y.seen = x.seen
  /\ y.at[b] = Len(Stages[x.stage].branches[b]) + 1

Entered(y, n, seen) ==
  /\ DOMAIN y = Fields /\ y.state = "running" /\ y.stage = n /\ y.seen = seen
  /\ n <= Len(Stages) =>
       /\ DOMAIN y.at = DOMAIN Stages[n].branches
       /\ \A b \in DOMAIN y.at : Follows(Stages[n].branches[b], 0, seen, y.at[b])

LEMMA AdvanceMoves ==
  ASSUME scenario \in Scenario, NEW x, RunShape(x), NEW b, NEW c, Called(x, b, c),
         NEW seen
  PROVE  Advanced(x, Advance(x, b, seen), b, seen) /\ Advance(x, b, seen).failed = x.failed
  <1> DEFINE branch == Stages[x.stage].branches[b]
             y == Advance(x, b, seen)
             m == NextCall(branch, x.at[b], seen)
  <1>1. /\ x.stage \in 1 .. Len(Stages) /\ b \in DOMAIN x.at
        /\ x.at[b] \in DOMAIN branch /\ DOMAIN x = Fields
    <2>1. x.state # "idle" /\ x.stage <= Len(Stages)
      BY JobSpares, StagesFit DEF Called
    <2> QED BY <2>1 DEF Called, RunShape
  <1>2. Follows(branch, x.at[b], seen, m)
    <2>1. PICK C : branch \in Seq(C)
      BY <1>1, JobSpares, StagesFit DEF Called
    <2> HIDE DEF branch, m
    <2>2. x.at[b] \in 0 .. Len(branch)
      BY <1>1, <2>1
    <2> QED BY <2>1, <2>2, NextCallExists DEF m
  <1> HIDE DEF m
  <1>3. y = [x EXCEPT !.seen = seen, !.at[b] = m]
    BY DEF Advance, m
  <1> HIDE DEF y
  <1>4. /\ DOMAIN y = Fields /\ y.state = x.state /\ y.stage = x.stage /\ y.seen = seen
        /\ y.failed = x.failed /\ y.at = [x.at EXCEPT ![b] = m]
    BY <1>1, <1>3 DEF Fields
  <1>5. /\ DOMAIN y.at = DOMAIN x.at /\ y.at[b] = m
        /\ \A a \in DOMAIN x.at \ {b} : y.at[a] = x.at[a]
    BY <1>1, <1>4
  <1> QED BY <1>2, <1>4, <1>5 DEF Advanced, Elsewhere, y

LEMMA EnterMoves ==
  ASSUME scenario \in Scenario, NEW x, DOMAIN x = Fields, x.state = "running",
         NEW n \in Nat \ {0}
  PROVE  Entered(Enter(x, n), n, x.seen) /\ Enter(x, n).failed = x.failed
  <1> DEFINE y == Enter(x, n)
             next(b) == NextCall(Stages[n].branches[b], 0, x.seen)
             at == IF n > Len(Stages) THEN <<>> ELSE [b \in DOMAIN Stages[n].branches |-> next(b)]
  <1>1. y = [x EXCEPT !.stage = n, !.at = at]
    BY DEF Enter
  <1>2. ASSUME n <= Len(Stages)
        PROVE  /\ DOMAIN at = DOMAIN Stages[n].branches
               /\ \A b \in DOMAIN at : Follows(Stages[n].branches[b], 0, x.seen, at[b])
    <2>1. Len(Stages) \in Nat
      BY JobSpares, StagesFit
    <2>2. at = [b \in DOMAIN Stages[n].branches |-> next(b)]
      BY <1>2, <2>1
    <2>3. ASSUME NEW b \in DOMAIN Stages[n].branches
          PROVE  Follows(Stages[n].branches[b], 0, x.seen, next(b))
      <3> DEFINE branch == Stages[n].branches[b]
      <3>1. PICK C : branch \in Seq(C)
        BY <1>2, <2>1, <2>3, JobSpares, StagesFit
      <3> HIDE DEF branch
      <3>2. 0 \in 0 .. Len(branch)
        BY <3>1
      <3>3. Follows(branch, 0, x.seen, NextCall(branch, 0, x.seen))
        BY <3>1, <3>2, NextCallExists
      <3> QED BY <3>3 DEF branch
    <2> HIDE DEF next
    <2> QED BY <2>2, <2>3
  <1> HIDE DEF y, at
  <1>3. /\ DOMAIN y = Fields /\ y.state = "running" /\ y.stage = n /\ y.seen = x.seen
        /\ y.failed = x.failed /\ y.at = at
    BY <1>1 DEF Fields
  <1> QED BY <1>2, <1>3 DEF Entered, y

(* A call that throws is swallowed, rejects the run, or enters the handler *)
(* of its stage.                                                           *)
Thrown(x, y, b, c) ==
  /\ y.failed = x.failed \cup {c}
  /\ \/ c.own /\ Advanced(x, y, b, x.seen)
     \/ /\ ~c.own /\ Ended(x, y, b)
        /\ x.state = "rejected" \/ Stages[x.stage].catch = 0
     \/ /\ ~c.own /\ x.state = "running" /\ Stages[x.stage].catch = 1
        /\ \E why \in {"failed", "refused"} : Entered(y, x.stage + 1, x.seen \cup {<<why, 0>>})

LEMMA ThrowMoves ==
  ASSUME scenario \in Scenario, NEW x, RunShape(x), NEW b, NEW c, Called(x, b, c),
         NEW why \in {"failed", "refused"}
  PROVE  Thrown(x, Throw(x, b, c, why), b, c)
  <1> DEFINE branch == Stages[x.stage].branches[b]
             over == Len(branch) + 1
             caught == Stages[x.stage].catch
             y == [x EXCEPT !.failed = @ \cup {c}, !.at[b] = over]
             w == [y EXCEPT !.seen = @ \cup {<<why, 0>>}]
             z == Throw(x, b, c, why)
  <1>1. /\ x.stage \in 1 .. Len(Stages) /\ b \in DOMAIN x.at
        /\ DOMAIN x = Fields /\ caught \in {0, 1} /\ x.stage \in Nat
    <2>1. x.state # "idle" /\ x.stage <= Len(Stages)
      BY JobSpares, StagesFit DEF Called
    <2> QED BY <2>1, JobSpares, StagesFit DEF Called, RunShape
  <1>2. CASE c.own
    <2> DEFINE v == Advance(x, b, x.seen)
    <2>1. Advanced(x, v, b, x.seen) /\ v.failed = x.failed
      BY AdvanceMoves
    <2>2. z = [v EXCEPT !.failed = @ \cup {c}]
      BY <1>2 DEF Throw
    <2> HIDE DEF v, z
    <2>3. /\ DOMAIN z = DOMAIN v /\ z.failed = x.failed \cup {c}
          /\ z.state = v.state /\ z.stage = v.stage /\ z.at = v.at /\ z.seen = v.seen
      BY <2>1, <2>2 DEF Advanced, Elsewhere, Fields
    <2>4. Advanced(x, z, b, x.seen)
      BY <2>1, <2>3 DEF Advanced, Elsewhere
    <2> QED BY <1>2, <2>3, <2>4 DEF Thrown, z
  <1>3. /\ DOMAIN y = Fields /\ y.state = x.state /\ y.stage = x.stage
        /\ y.seen = x.seen /\ y.failed = x.failed \cup {c}
        /\ y.at = [x.at EXCEPT ![b] = over]
    <2> HIDE DEF over
    <2> QED BY <1>1 DEF Fields
  <1>4. /\ DOMAIN y.at = DOMAIN x.at /\ y.at[b] = over
        /\ \A a \in DOMAIN x.at \ {b} : y.at[a] = x.at[a]
    <2> HIDE DEF y, over
    <2> QED BY <1>1, <1>3
  <1>5. /\ ~c.own /\ x.state = "rejected" => z = y
        /\ ~c.own /\ x.state # "rejected" /\ caught = 0 =>
             z = [y EXCEPT !.state = "rejected"]
        /\ ~c.own /\ x.state # "rejected" /\ caught # 0 =>
             z = Enter(w, x.stage + caught)
    BY Zenon DEF Throw
  <1> HIDE DEF z, y
  <1>6. CASE ~c.own /\ x.state = "rejected"
    <2>1. z = y
      BY <1>5, <1>6
    <2>2. Ended(x, z, b)
      BY <1>3, <1>4, <1>6, <2>1 DEF Ended, Elsewhere
    <2> QED BY <1>3, <1>6, <2>1, <2>2 DEF Thrown, z
  <1>7. CASE ~c.own /\ x.state # "rejected" /\ caught = 0
    <2>1. z = [y EXCEPT !.state = "rejected"]
      BY <1>5, <1>7
    <2>2. /\ DOMAIN z = Fields /\ z.state = "rejected" /\ z.stage = x.stage
          /\ z.seen = x.seen /\ z.failed = x.failed \cup {c} /\ z.at = y.at
      BY <1>3, <2>1 DEF Fields
    <2>3. Ended(x, z, b)
      BY <1>4, <2>2 DEF Ended, Elsewhere
    <2> QED BY <1>7, <2>2, <2>3 DEF Thrown, z
  <1>8. CASE ~c.own /\ x.state # "rejected" /\ caught # 0
    <2>1. /\ DOMAIN w = Fields /\ w.state = "running" /\ w.seen = x.seen \cup {<<why, 0>>}
          /\ w.failed = x.failed \cup {c}
      <3>1. x.state = "running"
        BY <1>8 DEF Called
      <3> QED BY <1>3, <3>1 DEF Fields
    <2>2. z = Enter(w, x.stage + 1) /\ caught = 1 /\ x.stage + 1 \in Nat \ {0}
      BY <1>1, <1>5, <1>8
    <2> HIDE DEF w
    <2>3. Entered(z, x.stage + 1, w.seen) /\ z.failed = w.failed
      BY <2>1, <2>2, EnterMoves
    <2>4. x.state = "running"
      BY <1>8 DEF Called
    <2> QED BY <1>8, <2>1, <2>2, <2>3, <2>4 DEF Thrown, z
  <1> QED BY <1>2, <1>6, <1>7, <1>8

(* The steps of run r.                                                     *)
Only(r) ==
  /\ scenario' = scenario /\ DOMAIN run' = Run /\ DOMAIN effects' = Run
  /\ \A q \in Run \ {r} : run'[q] = run[q] /\ effects'[q] = effects[q]
  /\ failures' \in Nat /\ failures <= failures'

Did(c, r) ==
  effects'[r] = IF c.kind \in {"create", "restore", "delete", "put"}
                THEN effects[r] \cup {Resource(c, r)} ELSE effects[r]

Started(r) ==
  /\ run[r].state = "idle" /\ effects' = effects /\ aws' = aws /\ creating' = creating
  /\ run'[r].failed = {}
  /\ \E C \in SUBSET Conditions(job) : Entered(run'[r], 1, C)
Settled(r, b, c) ==
  /\ Called(run[r], b, c) /\ ~Refused(c, r) /\ Did(c, r) /\ Effect(c, r)
  /\ Advanced(run[r], run'[r], b, Answer(c, r))
  /\ run'[r].failed = run[r].failed
Threw(r, b, c) ==
  /\ Called(run[r], b, c) /\ c.kind # "stub" /\ Thrown(run[r], run'[r], b, c)
  /\ Refused(c, r) \/ failures' > 0
  /\ \/ Did(c, r) /\ Effect(c, r)
     \/ effects' = effects /\ aws' = aws /\ creating' = creating
  /\ Refused(c, r) => effects' = effects /\ aws' = aws /\ creating' = creating
Continued(r) ==
  /\ run[r].state = "running" /\ run[r].stage \in 1 .. Len(Stages)
  /\ \A a \in DOMAIN run[r].at :
       run[r].at[a] = Len(Stages[run[r].stage].branches[a]) + 1
  /\ effects' = effects /\ aws' = aws /\ creating' = creating
  /\ run'[r].failed = run[r].failed
  /\ \/ /\ Stages[run[r].stage].rethrow \cap run[r].seen # {}
        /\ run'[r].state = "rejected" /\ run'[r].stage = run[r].stage
        /\ run'[r].at = run[r].at /\ run'[r].seen = run[r].seen /\ DOMAIN run'[r] = Fields
     \/ /\ Stages[run[r].stage].rethrow \cap run[r].seen = {}
        /\ Entered(run'[r], run[r].stage + Stages[run[r].stage].next, run[r].seen)
Over(r) ==
  /\ run[r].state \in {"running", "rejected"}
  /\ effects' = effects /\ aws' = aws /\ creating' = creating
  /\ \/ /\ run[r].state = "running" /\ run[r].stage > Len(Stages)
        /\ run'[r].state = "resolved"
     \/ run'[r].state = "killed" /\ failures' > 0
  /\ run'[r].stage = run[r].stage /\ run'[r].at = run[r].at
  /\ run'[r].seen = run[r].seen /\ run'[r].failed = run[r].failed
  /\ DOMAIN run'[r] = Fields

LEMMA EffectDoes ==
  ASSUME Shape, NEW r \in Run, NEW c, Effect(c, r)
  PROVE  /\ DOMAIN effects' = Run /\ Did(c, r)
         /\ \A q \in Run \ {r} : effects'[q] = effects[q]
  <1> DEFINE R == Resource(c, r)
             more == effects[r] \cup {R}
  <1>1. effects' = IF c.kind \in {"create", "restore", "delete", "put"}
                   THEN [effects EXCEPT ![r] = more] ELSE effects
    BY DEF Effect
  <1> HIDE DEF more
  <1>2. DOMAIN effects = Run
    BY DEF Shape
  <1>3. /\ DOMAIN effects' = Run /\ \A q \in Run \ {r} : effects'[q] = effects[q]
        /\ effects'[r] = IF c.kind \in {"create", "restore", "delete", "put"}
                         THEN more ELSE effects[r]
    BY <1>1, <1>2
  <1> QED BY <1>3 DEF Did, more

LEMMA WaitingIsCalled ==
  ASSUME Shape, NEW r \in Run, NEW b \in Waiting(r)
  PROVE  Called(run[r], b, Awaited(r, b))
  <1> DEFINE x == run[r]
  <1>1. /\ x.state \in {"running", "rejected"} /\ ~AtEnd(x)
        /\ b \in DOMAIN x.at /\ ~BranchOver(x, b)
    BY DEF Waiting
  <1>2. /\ x.stage \in Nat \ {0} /\ ~(x.stage > Len(Stages)) /\ RunShape(x)
        /\ Len(Stages) \in Nat
    BY <1>1, JobSpares, StagesFit DEF Shape, RunShape, AtEnd
  <1> HIDE DEF x
  <1>3. x.stage \in 1 .. Len(Stages) /\ x.stage <= Len(Stages)
    BY <1>2
  <1>4. DOMAIN x.at = DOMAIN Stages[x.stage].branches /\ Placed(x, b)
    BY <1>1, <1>2, <1>3 DEF RunShape
  <1> DEFINE branch == Stages[x.stage].branches[b]
  <1>5. Len(branch) \in Nat /\ DOMAIN branch = 1 .. Len(branch)
    BY <1>1, <1>3, <1>4, JobSpares, StagesFit DEF Shape
  <1>6. ~(x.at[b] > Len(branch)) /\ x.at[b] \in 1 .. Len(branch) + 1
        /\ (x.at[b] <= Len(branch) => branch[x.at[b]].needs \subseteq x.seen)
    BY <1>1, <1>4 DEF BranchOver, Placed
  <1>7. Awaited(r, b) = branch[x.at[b]]
    BY DEF Awaited, x
  <1> HIDE DEF branch
  <1>8. x.at[b] \in DOMAIN branch /\ branch[x.at[b]].needs \subseteq x.seen
    BY <1>5, <1>6
  <1> QED BY <1>1, <1>3, <1>4, <1>7, <1>8 DEF Called, branch, x

LEMMA RunChanges ==
  ASSUME Shape, NEW r \in Run, NEW y, run' = [run EXCEPT ![r] = y]
  PROVE  DOMAIN run' = Run /\ run'[r] = y /\ \A q \in Run \ {r} : run'[q] = run[q]
  BY DEF Shape

LEMMA StartStep ==
  ASSUME Shape, NEW r \in Run, Start(r)
  PROVE  Only(r) /\ Started(r)
  <1>1. PICK C \in SUBSET Conditions(job) :
          run' = [run EXCEPT ![r] = Enter([Idle EXCEPT !.state = "running", !.seen = C], 1)]
    BY DEF Start
  <1> DEFINE x == [Idle EXCEPT !.state = "running", !.seen = C]
  <1>2. DOMAIN x = Fields /\ x.state = "running" /\ x.seen = C /\ x.failed = {}
    BY DEF Idle, Fields
  <1> HIDE DEF x
  <1>3. Entered(Enter(x, 1), 1, C) /\ Enter(x, 1).failed = {}
    BY <1>2, EnterMoves DEF Shape
  <1>4. /\ run'[r] = Enter(x, 1) /\ DOMAIN run' = Run
        /\ \A q \in Run \ {r} : run'[q] = run[q]
    BY <1>1, RunChanges DEF x
  <1>5. /\ run[r].state = "idle" /\ scenario' = scenario /\ effects' = effects
        /\ aws' = aws /\ creating' = creating /\ failures' = failures
        /\ DOMAIN effects = Run /\ failures \in Nat
    BY Zenon DEF Start, Shape
  <1> QED BY <1>3, <1>4, <1>5 DEF Only, Started

LEMMA SettleStep ==
  ASSUME Shape, NEW r \in Run, Settle(r)
  PROVE  Only(r) /\ \E b, c : Settled(r, b, c)
  <1>1. PICK b \in Waiting(r) :
          /\ ~Refused(Awaited(r, b), r)
          /\ Effect(Awaited(r, b), r) /\ scenario' = scenario /\ failures' = failures
          /\ run' = [run EXCEPT ![r] = Advance(@, b, Answer(Awaited(r, b), r))]
    BY Zenon DEF Settle
  <1> DEFINE c == Awaited(r, b)
             y == Advance(run[r], b, Answer(c, r))
  <1>2. Called(run[r], b, c)
    BY WaitingIsCalled
  <1>3. Advanced(run[r], y, b, Answer(c, r)) /\ y.failed = run[r].failed
    <2> DEFINE seen == Answer(c, r)
    <2> HIDE DEF c, seen
    <2> QED BY <1>2, AdvanceMoves DEF Shape, seen
  <1> HIDE DEF c
  <1>4. /\ run'[r] = y /\ DOMAIN run' = Run
        /\ \A q \in Run \ {r} : run'[q] = run[q]
    <2>1. run' = [run EXCEPT ![r] = y]
      BY <1>1 DEF c
    <2> HIDE DEF y
    <2> QED BY <2>1, RunChanges
  <1>5. DOMAIN effects' = Run /\ Did(c, r) /\ \A q \in Run \ {r} : effects'[q] = effects[q]
    BY <1>1, EffectDoes DEF c
  <1>6. Settled(r, b, c)
    BY <1>1, <1>2, <1>3, <1>4, <1>5 DEF Settled, c
  <1>7. failures \in Nat
    BY DEF Shape
  <1> QED BY <1>1, <1>4, <1>5, <1>6, <1>7 DEF Only

LEMMA RefuseStep ==
  ASSUME Shape, NEW r \in Run, Refuse(r)
  PROVE  Only(r) /\ \E b, c : Threw(r, b, c)
  <1>1. PICK b \in Waiting(r) :
          /\ Refused(Awaited(r, b), r)
          /\ run' = [run EXCEPT ![r] = Throw(@, b, Awaited(r, b),
                       IF Awaited(r, b).kind = "create" THEN "refused" ELSE "failed")]
          /\ UNCHANGED <<scenario, aws, creating, effects, failures>>
    BY Zenon DEF Refuse
  <1> DEFINE c == Awaited(r, b)
             why == IF c.kind = "create" THEN "refused" ELSE "failed"
             y == Throw(run[r], b, c, why)
  <1>2. Called(run[r], b, c)
    BY WaitingIsCalled
  <1>3. Thrown(run[r], y, b, c)
    <2>1. why \in {"failed", "refused"}
      OBVIOUS
    <2> HIDE DEF c, why
    <2> QED BY <1>2, <2>1, ThrowMoves DEF Shape
  <1> HIDE DEF c
  <1>4. /\ run'[r] = y /\ DOMAIN run' = Run
        /\ \A q \in Run \ {r} : run'[q] = run[q]
    <2>1. run' = [run EXCEPT ![r] = y]
      BY <1>1 DEF c
    <2> HIDE DEF y
    <2> QED BY <2>1, RunChanges
  <1> HIDE DEF y
  <1>6. c.kind # "stub"
    BY <1>1 DEF Refused, c
  <1>5. Threw(r, b, c)
    BY <1>1, <1>2, <1>3, <1>4, <1>6 DEF Threw, c
  <1> QED BY <1>1, <1>4, <1>5 DEF Only, Shape

LEMMA FailStep ==
  ASSUME Shape, NEW r \in Run, Fail(r)
  PROVE  Only(r) /\ \E b, c : Threw(r, b, c)
  <1>1. PICK b \in Waiting(r) :
          /\ Awaited(r, b).kind \notin {"stub", "require"} /\ ~Refused(Awaited(r, b), r)
          /\ \/ Effect(Awaited(r, b), r)
             \/ UNCHANGED <<aws, creating, effects>>
          /\ run' = [run EXCEPT ![r] = Throw(@, b, Awaited(r, b), "failed")]
          /\ failures' = failures + 1 /\ scenario' = scenario
    BY Zenon DEF Fail
  <1> DEFINE c == Awaited(r, b)
             y == Throw(run[r], b, c, "failed")
  <1>2. Called(run[r], b, c)
    BY WaitingIsCalled
  <1>3. Thrown(run[r], y, b, c)
    <2> HIDE DEF c
    <2> QED BY <1>2, ThrowMoves DEF Shape
  <1> HIDE DEF c
  <1>4. /\ run'[r] = y /\ DOMAIN run' = Run
        /\ \A q \in Run \ {r} : run'[q] = run[q]
    <2>1. run' = [run EXCEPT ![r] = y]
      BY <1>1 DEF c
    <2> HIDE DEF y
    <2> QED BY <2>1, RunChanges
  <1> HIDE DEF y
  <1>5. failures' > 0 /\ failures' \in Nat /\ failures <= failures'
    BY <1>1 DEF Shape
  <1>6. \/ /\ DOMAIN effects' = Run /\ Did(c, r) /\ Effect(c, r)
           /\ \A q \in Run \ {r} : effects'[q] = effects[q]
        \/ UNCHANGED <<aws, creating, effects>> /\ DOMAIN effects' = Run
    BY <1>1, EffectDoes DEF c, Shape
  <1>8. c.kind # "stub"
    BY <1>1 DEF c
  <1>7. Threw(r, b, c)
    BY <1>1, <1>8, <1>2, <1>3, <1>4, <1>5, <1>6 DEF Threw, c
  <1> QED BY <1>1, <1>4, <1>5, <1>6, <1>7 DEF Only

LEMMA ContinueStep ==
  ASSUME Shape, NEW r \in Run, Continue(r)
  PROVE  Only(r) /\ Continued(r)
  <1> DEFINE x == run[r]
             s == Stages[x.stage]
  <1>1. /\ x.state = "running" /\ ~AtEnd(x) /\ StageOver(x)
        /\ run' = [run EXCEPT ![r] =
                     IF s.rethrow \cap x.seen # {} THEN [x EXCEPT !.state = "rejected"]
                     ELSE Enter(x, x.stage + s.next)]
        /\ UNCHANGED <<scenario, aws, creating, effects, failures>>
    BY DEF Continue
  <1>2. /\ RunShape(x) /\ DOMAIN x = Fields /\ x.stage \in Nat \ {0}
        /\ ~(x.stage > Len(Stages)) /\ Len(Stages) \in Nat /\ scenario \in Scenario
    BY <1>1, JobSpares, StagesFit DEF Shape, RunShape, AtEnd
  <1>3. x.stage \in 1 .. Len(Stages) /\ x.stage <= Len(Stages)
    BY <1>2
  <1>4. s.next \in Nat \ {0}
    BY <1>2, <1>3, JobSpares, StagesFit
  <1>5. ASSUME NEW a \in DOMAIN x.at
        PROVE  x.at[a] = Len(s.branches[a]) + 1
    <2>1. DOMAIN x.at = DOMAIN s.branches /\ Placed(x, a)
      BY <1>1, <1>2, <1>3, <1>5 DEF RunShape
    <2>2. x.at[a] > Len(s.branches[a]) /\ x.at[a] \in 1 .. Len(s.branches[a]) + 1
      BY <1>1, <1>5, <2>1 DEF StageOver, BranchOver, Placed
    <2>3. Len(s.branches[a]) \in Nat
      BY <1>2, <1>3, <1>5, <2>1, JobSpares, StagesFit
    <2> HIDE DEF s, x
    <2> QED BY <2>2, <2>3
  <1> DEFINE y == IF s.rethrow \cap x.seen # {} THEN [x EXCEPT !.state = "rejected"]
                  ELSE Enter(x, x.stage + s.next)
  <1>6. /\ run'[r] = y /\ DOMAIN run' = Run
        /\ \A q \in Run \ {r} : run'[q] = run[q]
    <2>1. run' = [run EXCEPT ![r] = y]
      BY <1>1
    <2> HIDE DEF y
    <2> QED BY <2>1, RunChanges
  <1>7. CASE s.rethrow \cap x.seen # {}
    <2>1. run'[r] = [x EXCEPT !.state = "rejected"]
      BY <1>6, <1>7
    <2> HIDE DEF x, s
    <2>2. /\ DOMAIN run'[r] = Fields /\ run'[r].state = "rejected"
          /\ run'[r].stage = x.stage /\ run'[r].at = x.at /\ run'[r].seen = x.seen
          /\ run'[r].failed = x.failed
      BY <1>2, <2>1 DEF Fields
    <2> QED BY <1>1, <1>3, <1>5, <1>6, <1>7, <2>2 DEF Only, Continued, Shape, x, s
  <1>8. CASE s.rethrow \cap x.seen = {}
    <2> HIDE DEF x, s
    <2>1. run'[r] = Enter(x, x.stage + s.next) /\ x.stage + s.next \in Nat \ {0}
      BY <1>2, <1>4, <1>6, <1>8
    <2>2. /\ Entered(run'[r], x.stage + s.next, x.seen)
          /\ run'[r].failed = x.failed
      BY <1>1, <1>2, <2>1, EnterMoves
    <2>3. Only(r)
      BY <1>1, <1>6 DEF Only, Shape
    <2>4. /\ x.state = "running" /\ x.stage \in 1 .. Len(Stages)
          /\ s.rethrow \cap x.seen = {}
          /\ effects' = effects /\ aws' = aws /\ creating' = creating
          /\ \A a \in DOMAIN x.at : x.at[a] = Len(s.branches[a]) + 1
      BY <1>1, <1>3, <1>5, <1>8
    <2>5. Continued(r)
      BY <2>2, <2>4 DEF Continued, x, s
    <2> QED BY <2>3, <2>5
  <1> QED BY <1>7, <1>8

LEMMA OverStep ==
  ASSUME Shape, NEW r \in Run, Resolve(r) \/ Kill(r)
  PROVE  Only(r) /\ Over(r)
  <1> DEFINE x == run[r]
  <1>1. /\ UNCHANGED <<scenario, aws, creating, effects>>
        /\ \/ /\ x.state = "running" /\ AtEnd(x)
              /\ run' = [run EXCEPT ![r].state = "resolved"]
           \/ /\ x.state \in {"running", "rejected"} /\ failures' = failures + 1
              /\ run' = [run EXCEPT ![r].state = "killed"]
        /\ failures' = failures \/ failures' = failures + 1
    BY Zenon DEF Resolve, Kill
  <1>2. DOMAIN x = Fields /\ failures \in Nat /\ DOMAIN effects = Run
    BY DEF Shape, RunShape
  <1>3. PICK s \in {"resolved", "killed"} :
          /\ run' = [run EXCEPT ![r] = [x EXCEPT !.state = s]]
          /\ s = "resolved" => x.state = "running" /\ AtEnd(x)
          /\ s = "killed" => x.state \in {"running", "rejected"} /\ failures' > 0
    BY <1>1, <1>2
  <1>4. /\ run'[r] = [x EXCEPT !.state = s] /\ DOMAIN run' = Run
        /\ \A q \in Run \ {r} : run'[q] = run[q]
    <2> DEFINE y == [x EXCEPT !.state = s]
    <2>1. run' = [run EXCEPT ![r] = y]
      BY <1>3
    <2> HIDE DEF y
    <2>2. /\ run'[r] = y /\ DOMAIN run' = Run
          /\ \A q \in Run \ {r} : run'[q] = run[q]
      BY <2>1, RunChanges
    <2> QED BY <2>2 DEF y
  <1> HIDE DEF x
  <1>5. /\ run'[r].state = s /\ run'[r].stage = x.stage /\ run'[r].at = x.at
        /\ run'[r].seen = x.seen /\ run'[r].failed = x.failed /\ DOMAIN run'[r] = Fields
    BY <1>2, <1>4 DEF Fields
  <1>6. failures' \in Nat /\ failures <= failures'
    BY <1>1, <1>2
  <1> QED BY <1>1, <1>2, <1>3, <1>4, <1>5, <1>6 DEF Only, Over, AtEnd, x

LEMMA EveryStep ==
  ASSUME Shape, [Next]_vars
  PROVE  \/ /\ scenario' = scenario /\ run' = run /\ effects' = effects /\ aws' = aws
            /\ failures' = failures /\ creating' \subseteq creating
         \/ \E r \in Run :
              /\ Only(r)
              /\ \/ Started(r) \/ Continued(r) \/ Over(r)
                 \/ \E b, c : Settled(r, b, c) \/ Threw(r, b, c)
  <1>1. CASE UNCHANGED vars
    BY <1>1 DEF vars
  <1>2. CASE Restored
    BY <1>2 DEF Restored
  <1>3. ASSUME NEW r \in Run, Start(r) \/ Steps(r) \/ Fail(r) \/ Kill(r)
        PROVE  /\ Only(r)
               /\ \/ Started(r) \/ Continued(r) \/ Over(r)
                  \/ \E b, c : Settled(r, b, c) \/ Threw(r, b, c)
    BY <1>3, StartStep, SettleStep, RefuseStep, ContinueStep, OverStep, FailStep DEF Steps
  <1> QED BY <1>1, <1>2, <1>3 DEF Next

-----------------------------------------------------------------------------
(* Every run is at calls of its script that it may make.                   *)

LEMMA EnteredShape ==
  ASSUME scenario \in Scenario, NEW y, NEW n \in Nat \ {0}, NEW seen, Entered(y, n, seen)
  PROVE  RunShape(y)
  <1>1. ASSUME n <= Len(Stages), NEW a \in DOMAIN y.at
        PROVE  Placed(y, a)
    <2> DEFINE branch == Stages[n].branches[a]
    <2>1. Follows(branch, 0, seen, y.at[a]) /\ y.stage = n /\ y.seen = seen
          /\ a \in DOMAIN Stages[n].branches
      BY <1>1 DEF Entered
    <2> HIDE DEF branch
    <2>2. y.at[a] \in 1 .. Len(branch) + 1
          /\ (y.at[a] <= Len(branch) => branch[y.at[a]].needs \subseteq seen)
      BY <2>1 DEF Follows
    <2> QED BY <2>1, <2>2 DEF Placed, branch
  <1> QED BY <1>1 DEF Entered, RunShape, States

LEMMA ElsewhereShape ==
  ASSUME scenario \in Scenario, NEW x, RunShape(x), NEW b, NEW c, Called(x, b, c),
         NEW y, Elsewhere(x, y, b), x.seen \subseteq y.seen, y.state \in States \ {"idle"},
         Placed(y, b)
  PROVE  RunShape(y)
  <1>1. /\ x.stage \in Nat \ {0} /\ x.stage <= Len(Stages)
        /\ DOMAIN x.at = DOMAIN Stages[x.stage].branches
        /\ \A a \in DOMAIN x.at : Placed(x, a)
    <2>1. x.state # "idle" /\ x.stage <= Len(Stages) /\ x.stage \in Nat \ {0}
      BY JobSpares, StagesFit DEF Called
    <2> QED BY <2>1 DEF RunShape
  <1>2. ASSUME NEW a \in DOMAIN x.at, a # b
        PROVE  Placed(y, a)
    <2> DEFINE branch == Stages[x.stage].branches[a]
    <2>1. y.at[a] = x.at[a] /\ y.stage = x.stage
      BY <1>2 DEF Elsewhere
    <2>2. x.at[a] \in 1 .. Len(branch) + 1
          /\ (x.at[a] <= Len(branch) => branch[x.at[a]].needs \subseteq x.seen)
      BY <1>1, <1>2 DEF Placed
    <2> QED BY <2>1, <2>2 DEF Placed
  <1> QED BY <1>1, <1>2 DEF RunShape, Elsewhere

LEMMA AdvancedShape ==
  ASSUME scenario \in Scenario, NEW x, RunShape(x), NEW b, NEW c, Called(x, b, c),
         NEW y, NEW seen, x.seen \subseteq seen, Advanced(x, y, b, seen)
  PROVE  RunShape(y)
  <1> DEFINE branch == Stages[x.stage].branches[b]
  <1>1. /\ Follows(branch, x.at[b], seen, y.at[b]) /\ y.stage = x.stage /\ y.seen = seen
        /\ x.at[b] \in 1 .. Len(branch) /\ Len(branch) \in Nat
        /\ y.state \in States \ {"idle"} /\ Elsewhere(x, y, b)
    <2>1. /\ x.at[b] \in 1 .. Len(branch) /\ Len(branch) \in Nat /\ x.state # "idle"
          /\ x.state \in {"running", "rejected"}
      BY Zenon, CalledAt DEF Called
    <2> QED BY <2>1 DEF Advanced, Elsewhere, States
  <1>2. Placed(y, b)
    <2> HIDE DEF branch
    <2>1. y.at[b] \in 1 .. Len(branch) + 1
          /\ (y.at[b] <= Len(branch) => branch[y.at[b]].needs \subseteq seen)
      BY <1>1 DEF Follows
    <2> QED BY <1>1, <2>1 DEF Placed, branch
  <1> QED BY <1>1, <1>2, ElsewhereShape

LEMMA EndedShape ==
  ASSUME scenario \in Scenario, NEW x, RunShape(x), NEW b, NEW c, Called(x, b, c),
         NEW y, Ended(x, y, b)
  PROVE  RunShape(y)
  <1> DEFINE branch == Stages[x.stage].branches[b]
  <1>1. /\ y.at[b] = Len(branch) + 1 /\ y.stage = x.stage /\ y.seen = x.seen
        /\ Len(branch) \in Nat
        /\ y.state \in States \ {"idle"} /\ Elsewhere(x, y, b)
    BY JobSpares, StagesFit DEF Ended, Elsewhere, Called, States
  <1>2. Placed(y, b)
    <2> HIDE DEF branch
    <2>1. y.at[b] \in 1 .. Len(branch) + 1 /\ ~(y.at[b] <= Len(branch))
      BY <1>1
    <2> QED BY <1>1, <2>1 DEF Placed, branch
  <1> QED BY <1>1, <1>2, ElsewhereShape

LEMMA ThrownShape ==
  ASSUME scenario \in Scenario, NEW x, RunShape(x), NEW b, NEW c, Called(x, b, c),
         NEW y, Thrown(x, y, b, c)
  PROVE  RunShape(y) /\ x.seen \subseteq y.seen /\ y.state # "idle"
  <1>1. CASE c.own /\ Advanced(x, y, b, x.seen)
    BY <1>1, AdvancedShape DEF Advanced, Called
  <1>2. CASE Ended(x, y, b)
    BY <1>2, EndedShape DEF Ended
  <1>3. CASE \E why : Entered(y, x.stage + 1, x.seen \cup {<<why, 0>>})
    <2>1. PICK why : Entered(y, x.stage + 1, x.seen \cup {<<why, 0>>})
      BY <1>3
    <2>2. x.stage + 1 \in Nat \ {0}
      BY CalledAt
    <2>3. RunShape(y)
      BY <2>1, <2>2, EnteredShape
    <2> QED BY <2>1, <2>3 DEF Entered
  <1> QED BY <1>1, <1>2, <1>3 DEF Thrown

LEMMA ShapeInit == Init => Shape
  BY ScenarioAssumption DEF Init, Shape, RunShape, Idle, Fields, States

LEMMA ShapeStep ==
  ASSUME Shape, [Next]_vars
  PROVE  Shape'
  <1>1. failures' \in Nat
    <2>1. ASSUME NEW r \in Run, Start(r) \/ Steps(r) \/ Fail(r) \/ Kill(r)
          PROVE  failures' = failures \/ failures' = failures + 1
      BY Zenon, <2>1 DEF Start, Steps, Settle, Refuse, Fail, Continue, Resolve, Kill
    <2>2. failures' = failures \/ failures' = failures + 1
      BY Zenon, <2>1 DEF Next, vars, Restored
    <2> QED BY <2>2 DEF Shape
  <1>2. CASE scenario' = scenario /\ run' = run /\ effects' = effects
    BY <1>1, <1>2 DEF Shape, RunShape, Placed, Stages, job
  <1>3. ASSUME NEW r \in Run, Only(r),
               \/ Started(r) \/ Continued(r) \/ Over(r)
               \/ \E b, c : Settled(r, b, c) \/ Threw(r, b, c)
        PROVE  Shape'
    <2> DEFINE x == run[r]
               y == run'[r]
    <2>1. scenario \in Scenario /\ RunShape(x)
      BY DEF Shape
    <2>2. RunShape(y) /\ y.state # "idle"
      <3>1. CASE Started(r)
        BY <2>1, <3>1, EnteredShape DEF Started, Entered
      <3>2. CASE Continued(r)
        <4>1. CASE Entered(y, x.stage + Stages[x.stage].next, x.seen)
          <5>1. x.stage + Stages[x.stage].next \in Nat \ {0}
            <6>1. x.stage \in Nat \ {0} /\ Stages[x.stage].next \in Nat \ {0}
              BY <2>1, <3>2, JobSpares, StagesFit DEF Continued
            <6> HIDE DEF x
            <6> QED BY <6>1
          <5> QED BY <2>1, <4>1, <5>1, EnteredShape DEF Entered
        <4>2. CASE ~Entered(y, x.stage + Stages[x.stage].next, x.seen)
          <5>1. /\ y.state = "rejected" /\ y.stage = x.stage /\ y.at = x.at
                /\ y.seen = x.seen /\ DOMAIN y = Fields /\ x.state = "running"
            BY <3>2, <4>2 DEF Continued
          <5> HIDE DEF x, y
          <5> QED BY <2>1, <5>1 DEF RunShape, Placed, States
        <4> QED BY <4>1, <4>2
      <3>3. CASE Over(r)
        <4>1. /\ y.state \in {"resolved", "killed"} /\ y.stage = x.stage /\ y.at = x.at
              /\ y.seen = x.seen /\ DOMAIN y = Fields /\ x.state \in {"running", "rejected"}
          BY <3>3 DEF Over
        <4> HIDE DEF x, y
        <4> QED BY <2>1, <4>1 DEF RunShape, Placed, States
      <3>4. ASSUME NEW b, NEW c, Settled(r, b, c)
            PROVE  RunShape(y) /\ y.state # "idle"
        <4>1. x.seen \subseteq Answer(c, r)
          BY DEF Answer
        <4>2. Called(x, b, c) /\ Advanced(x, y, b, Answer(c, r))
          BY <3>4 DEF Settled
        <4> HIDE DEF x, y
        <4>3. RunShape(y)
          BY <2>1, <4>1, <4>2, AdvancedShape
        <4> QED BY <4>2, <4>3 DEF Advanced, Called
      <3>5. ASSUME NEW b, NEW c, Threw(r, b, c)
            PROVE  RunShape(y) /\ y.state # "idle"
        BY <2>1, <3>5, ThrownShape DEF Threw
      <3> QED BY <1>3, <3>1, <3>2, <3>3, <3>4, <3>5
    <2>3. Stages' = Stages
      BY <1>3 DEF Only, Stages, job
    <2>4. \A q \in Run : (RunShape(run[q]))'
      <3> SUFFICES ASSUME NEW q \in Run
                   PROVE  (RunShape(run[q]))'
        OBVIOUS
      <3>1. RunShape(run'[q])
        BY <1>3, <2>2 DEF Only, Shape
      <3> QED BY <2>3, <3>1 DEF RunShape, Placed
    <2>5. \A q \in Run : run'[q].state = "idle" => run'[q] = Idle /\ effects'[q] = {}
      BY <1>3, <2>2 DEF Only, Shape
    <2> QED BY <1>1, <1>3, <2>4, <2>5 DEF Shape, Only
  <1> QED BY <1>2, <1>3, EveryStep

-----------------------------------------------------------------------------
(* The daily backup.                                                       *)

Backup == job = "performDailyBackup"
Success == Put("success metric")
Failure == Put("failure metric")
(* The effects of publishing success and failure, and of a backup.         *)
SuccessSaid == <<"success metric", 0>>
FailureSaid == <<"failure metric", 0>>
BackedUp(i) == <<"backup", i>>

(* What is true of a run x of the daily backup whose calls had effects E.  *)
MetricsOf(x, E) ==
  /\ SuccessSaid \in E => \A i \in Item : BackedUp(i) \in E
  /\ SuccessSaid \in E /\ FailureSaid \in E => Success \in x.failed
  /\ x.state = "rejected" => FailureSaid \in E \/ Failure \in x.failed
  /\ x.stage = 1 =>
       /\ x.state # "rejected" /\ FailureSaid \notin E
       /\ \A i \in Item : i < x.at[1] => BackedUp(i) \in E
       /\ SuccessSaid \in E => x.at[1] = Count + 2
  /\ x.stage = 2 =>
       /\ SuccessSaid \in E => Success \in x.failed
       /\ x.at[1] = 2 /\ x.state = "running" => FailureSaid \in E
  /\ x.stage = 3 => FailureSaid \in E

MetricsInv == Backup => \A r \in Run : MetricsOf(run[r], effects[r])

LEMMA Single ==
  ASSUME NEW v
  PROVE  DOMAIN <<v>> = {1} /\ <<v>>[1] = v /\ Len(<<v>>) = 1
  OBVIOUS

LEMMA DailyBackupScript ==
  /\ Len(PerformDailyBackup) = 3
  /\ LET s == PerformDailyBackup[1]
     IN /\ s.next = 3 /\ s.catch = 1 /\ s.rethrow = {} /\ DOMAIN s.branches = {1}
        /\ Len(s.branches[1]) = Count + 1
        /\ \A i \in Item : s.branches[1][i] = CreateBackup(i)
        /\ s.branches[1][Count + 1] = Success
  /\ LET s == PerformDailyBackup[2]
     IN /\ s.next = 1 /\ s.catch = 0 /\ s.rethrow = {} /\ DOMAIN s.branches = {1}
        /\ Len(s.branches[1]) = 1 /\ s.branches[1][1] = Failure
  /\ PerformDailyBackup[3].next = 1 /\ DOMAIN PerformDailyBackup[3].branches = {}
  <1> DEFINE b == Append(BackupAllTables, Success)
             one == Try(b, 3, 1)
             two == Do(<<Failure>>)
             three == Rethrow({"failed", "refused"})
  <1>1. PerformDailyBackup = <<one, two, three>>
    BY DEF PerformDailyBackup, Success, Failure
  <1>2. /\ one.next = 3 /\ one.catch = 1 /\ one.branches = <<b>> /\ one.rethrow = {}
        /\ two.next = 1 /\ two.catch = 0 /\ two.branches = << <<Failure>> >>
        /\ two.rethrow = {} /\ three.next = 1 /\ three.branches = <<>>
    <2> HIDE DEF b
    <2> QED BY DEF Try, Do, Rethrow, Stage
  <1>3. /\ Len(b) = Count + 1 /\ b[Count + 1] = Success
        /\ \A i \in Item : b[i] = CreateBackup(i)
    <2> DEFINE loop == [i \in Item |-> CreateBackup(i)]
               C == {CreateBackup(i) : i \in Item}
    <2> DEFINE p == Success
               D == C \cup {p}
    <2>1. loop \in [1 .. Count -> D] /\ Count \in Nat /\ p \in D
      BY Items
    <2>2. \A i \in Item : loop[i] = CreateBackup(i)
      OBVIOUS
    <2>3. b = Append(loop, p)
      BY DEF BackupAllTables
    <2> HIDE DEF loop, C, D, p, b
    <2>4. loop \in Seq(D) /\ Len(loop) = Count
      BY <2>1
    <2>5. /\ Len(b) = Count + 1 /\ b[Count + 1] = p
          /\ \A i \in 1 .. Count : b[i] = loop[i]
      BY <2>1, <2>3, <2>4
    <2> QED BY <2>2, <2>5, Items DEF p
  <1> HIDE DEF b, one, two, three
  <1>4. /\ Len(PerformDailyBackup) = 3 /\ PerformDailyBackup[1] = one
        /\ PerformDailyBackup[2] = two /\ PerformDailyBackup[3] = three
    BY <1>1
  <1>5. /\ DOMAIN one.branches = {1} /\ one.branches[1] = b
        /\ DOMAIN two.branches = {1} /\ two.branches[1] = <<Failure>>
    BY <1>2, Single
  <1>7. DOMAIN three.branches = {}
    <2>1. DOMAIN <<>> = {}
      OBVIOUS
    <2> QED BY Zenon, <1>2, <2>1
  <1>6. two.branches[1][1] = Failure /\ Len(two.branches[1]) = 1
    BY <1>5, Single
  <1> QED BY <1>2, <1>3, <1>4, <1>5, <1>6, <1>7

LEMMA MetricsNeedNothing == Success.needs = {} /\ Failure.needs = {}
  BY DEF Success, Failure, Put, Call

LEMMA CreateBackupIs ==
  ASSUME NEW i
  PROVE  /\ CreateBackup(i).kind = "put" /\ CreateBackup(i).of = "backup"
         /\ CreateBackup(i).item = i /\ CreateBackup(i).needs = {}
         /\ CreateBackup(i).own = FALSE
  BY DEF CreateBackup, For, Put, Call

(* Without needs, the next call is the one that follows.                   *)
LEMMA NextFollows ==
  ASSUME NEW C, NEW b \in Seq(C), NEW n \in 0 .. Len(b), NEW seen, NEW m,
         Follows(b, n, seen, m), n < Len(b) => b[n + 1].needs = {}
  PROVE  m = n + 1
  <1>1. n \in Nat /\ Len(b) \in Nat /\ m \in n + 1 .. Len(b) + 1
    BY DEF Follows
  <1>2. ASSUME m # n + 1
        PROVE  FALSE
    <2>1. n + 1 \in n + 1 .. m - 1 /\ n < Len(b)
      BY <1>1, <1>2
    <2>2. ~(b[n + 1].needs \subseteq seen)
      BY <2>1 DEF Follows
    <2> QED BY <2>1, <2>2
  <1> QED BY <1>2

(* Stage n has one branch, of calls that are made whatever was listed: each *)
(* is followed by the next.                                                *)
NeedsNothing(n) ==
  /\ n <= Len(Stages) /\ DOMAIN Stages[n].branches = {1}
  /\ \E C : Stages[n].branches[1] \in Seq(C)
  /\ \A k \in 1 .. Len(Stages[n].branches[1]) : Stages[n].branches[1][k].needs = {}

LEMMA AdvancesByOne ==
  ASSUME NEW x, NEW c, Called(x, 1, c), NeedsNothing(x.stage),
         NEW y, NEW seen, Advanced(x, y, 1, seen)
  PROVE  y.at[1] = x.at[1] + 1
  <1> DEFINE branch == Stages[x.stage].branches[1]
  <1>2. /\ Follows(branch, x.at[1], seen, y.at[1])
        /\ x.at[1] \in DOMAIN branch
    BY DEF Advanced, Called
  <1>3. /\ \A k \in 1 .. Len(branch) : branch[k].needs = {}
        /\ \E C : branch \in Seq(C)
    BY DEF NeedsNothing
  <1> HIDE DEF branch
  <1>4. PICK C : branch \in Seq(C)
    BY <1>3
  <1> DEFINE k == x.at[1]
  <1>5. k \in 0 .. Len(branch) /\ (k < Len(branch) => k + 1 \in 1 .. Len(branch))
    <2> HIDE DEF k
    <2> QED BY <1>2, <1>4 DEF k
  <1> HIDE DEF k
  <1> QED BY <1>2, <1>3, <1>4, <1>5, NextFollows DEF k

LEMMA EntersAtOne ==
  ASSUME NEW n, NeedsNothing(n), NEW y, NEW seen, Entered(y, n, seen)
  PROVE  y.at[1] = 1
  <1> DEFINE branch == Stages[n].branches[1]
  <1>1. /\ \A k \in 1 .. Len(branch) : branch[k].needs = {}
        /\ \E C : branch \in Seq(C)
    BY DEF NeedsNothing
  <1>2. Follows(branch, 0, seen, y.at[1])
    BY DEF Entered, NeedsNothing
  <1> HIDE DEF branch
  <1>3. PICK C : branch \in Seq(C)
    BY <1>1
  <1>4. 0 \in 0 .. Len(branch) /\ (0 < Len(branch) => 0 + 1 \in 1 .. Len(branch))
    BY <1>3
  <1>5. y.at[1] = 0 + 1
    BY <1>1, <1>2, <1>3, <1>4, NextFollows
  <1> QED BY <1>5

(* The calls of the daily backup, in terms of the stage they are made in.  *)
LEMMA DailyBackupCall ==
  ASSUME Shape, Backup, NEW x, NEW b, NEW c, Called(x, b, c)
  PROVE  /\ b = 1 /\ x.stage \in {1, 2}
         /\ \/ /\ x.stage = 1 /\ x.at[1] \in Item
               /\ c = CreateBackup(x.at[1])
            \/ /\ x.stage = 1 /\ x.at[1] = Count + 1
               /\ c = Success
            \/ /\ x.stage = 2 /\ x.at[1] = 1
               /\ c = Failure
  <1>1. Stages = PerformDailyBackup
    BY JobsAreScripts DEF Stages, Backup
  <1>2. PICK n, k :
          /\ n \in 1 .. Len(PerformDailyBackup)
          /\ x.stage = n /\ x.at[b] = k
          /\ b \in DOMAIN PerformDailyBackup[n].branches
          /\ k \in DOMAIN PerformDailyBackup[n].branches[b]
          /\ c = PerformDailyBackup[n].branches[b][k]
    BY <1>1 DEF Called
  <1>3. n \in {1, 2, 3}
    BY <1>2, DailyBackupScript
  <1>4. n \in {1, 2} /\ b = 1
    BY <1>2, <1>3, DailyBackupScript
  <1>5. k \in 1 .. Len(PerformDailyBackup[n].branches[1])
    BY <1>1, <1>2, <1>4, JobSpares, StagesFit DEF Shape
  <1>6. CASE n = 1
    <2>1. k \in 1 .. Count + 1
      BY <1>5, <1>6, DailyBackupScript
    <2>2. k \in Item \/ k = Count + 1
      BY <2>1, Items
    <2>3. CASE k \in Item
      <3>1. c = CreateBackup(k)
        BY <1>2, <1>4, <1>6, <2>3, DailyBackupScript
      <3> QED BY <1>2, <1>4, <1>6, <2>3, <3>1
    <2>4. CASE k = Count + 1
      <3>1. c = Success
        BY <1>2, <1>4, <1>6, <2>4, DailyBackupScript
      <3> QED BY <1>2, <1>4, <1>6, <2>4, <3>1
    <2> QED BY <2>2, <2>3, <2>4
  <1>7. CASE n = 2
    <2>1. k = 1
      BY <1>5, <1>7, DailyBackupScript
    <2>2. c = Failure
      BY <1>2, <1>4, <1>7, <2>1, DailyBackupScript
    <2> QED BY <1>2, <1>4, <1>7, <2>1, <2>2
  <1> QED BY <1>4, <1>6, <1>7

LEMMA DailyBackupNeedsNothing ==
  ASSUME Shape, Backup, NEW n \in {1, 2}
  PROVE  NeedsNothing(n)
  <1>1. Stages = PerformDailyBackup
    BY JobsAreScripts DEF Stages, Backup
  <1>2. n \in 1 .. Len(Stages) /\ 1 \in DOMAIN Stages[n].branches
        /\ DOMAIN Stages[n].branches = {1} /\ Len(Stages) = 3
    BY <1>1, DailyBackupScript
  <1>3. \E C : Stages[n].branches[1] \in Seq(C)
    <2>1. Spares(Foreign(job), Stages)
      BY JobSpares DEF Shape
    <2> QED BY <1>2, <2>1, BranchOf
  <1>4. ASSUME NEW k \in 1 .. Len(Stages[n].branches[1])
        PROVE  Stages[n].branches[1][k].needs = {}
    <2>1. CASE n = 1
      <3>1. k \in 1 .. Count + 1
        BY <1>1, <1>4, <2>1, DailyBackupScript
      <3>2. k \in Item \/ k = Count + 1
        BY <3>1, Items
      <3>3. \/ Stages[n].branches[1][k] = CreateBackup(k)
            \/ Stages[n].branches[1][k] = Success
        BY <1>1, <2>1, <3>2, DailyBackupScript
      <3> QED BY <3>3, CreateBackupIs, MetricsNeedNothing
    <2>2. CASE n = 2
      <3>1. k = 1
        BY <1>1, <1>4, <2>2, DailyBackupScript
      <3>2. Stages[n].branches[1][k] = Failure
        BY <1>1, <2>2, <3>1, DailyBackupScript
      <3> QED BY <3>2, MetricsNeedNothing
    <2> QED BY <2>1, <2>2
  <1> QED BY <1>2, <1>3, <1>4 DEF NeedsNothing

(* The effect of a call of the daily backup, which has no try of its own.  *)
LEMMA DailyBackupEffects ==
  /\ ~Success.own /\ ~Failure.own /\ Success # Failure
  /\ SuccessSaid # FailureSaid
  /\ \A r : Resource(Success, r) = SuccessSaid /\ Resource(Failure, r) = FailureSaid
  /\ \A i : /\ BackedUp(i) # SuccessSaid /\ BackedUp(i) # FailureSaid
           /\ ~CreateBackup(i).own
           /\ \A r : Resource(CreateBackup(i), r) = BackedUp(i)
  /\ Success.kind = "put" /\ Failure.kind = "put"
  /\ \A i : CreateBackup(i).kind = "put"
  BY DEF Success, Failure, SuccessSaid, FailureSaid, BackedUp, CreateBackup, For,
         Put, Call, Resource

LEMMA DailyBackupDid ==
  ASSUME Shape, Backup, NEW x, NEW b, NEW c, Called(x, b, c), NEW r, Did(c, r)
  PROVE  effects'[r] = effects[r] \cup {Resource(c, r)}
  <1>1. c.kind = "put"
    BY DailyBackupCall, DailyBackupEffects
  <1> QED BY <1>1 DEF Did

LEMMA MetricsSettled ==
  ASSUME Shape, Backup, NEW x, NEW y, NEW E, NEW F, NEW b, NEW c, NEW seen, NEW r,
         MetricsOf(x, E), Called(x, b, c), Advanced(x, y, b, seen),
         y.failed = x.failed, F = E \cup {Resource(c, r)}
  PROVE  MetricsOf(y, F)
  <1>1. /\ y.at[1] = x.at[1] + 1 /\ y.stage = x.stage /\ y.state = x.state
    BY DailyBackupCall, DailyBackupNeedsNothing, AdvancesByOne DEF Advanced, Elsewhere
  <1>2. PICK k : k = x.at[1]
    OBVIOUS
  <1>3. ASSUME x.stage = 1, k \in Item, c = CreateBackup(k)
        PROVE  MetricsOf(y, F)
    <2>1. F = E \cup {BackedUp(k)} /\ k \in 1 .. Count /\ Count \in Nat
      BY <1>3, DailyBackupEffects, Items
    <2>2. SuccessSaid \notin F /\ FailureSaid \notin F
      BY <1>2, <1>3, <2>1, DailyBackupEffects DEF MetricsOf
    <2>3. ASSUME NEW i \in Item, i < k + 1
          PROVE  BackedUp(i) \in F
      <3>1. i < k \/ i = k
        BY <2>1, <2>3, Items
      <3> QED BY <1>2, <1>3, <2>1, <2>3, <3>1 DEF MetricsOf
    <2> QED BY <1>1, <1>2, <1>3, <2>2, <2>3 DEF MetricsOf
  <1>4. ASSUME x.stage = 1, k = Count + 1, c = Success
        PROVE  MetricsOf(y, F)
    <2>1. F = E \cup {SuccessSaid} /\ Count \in Nat
      BY <1>4, DailyBackupEffects, Items
    <2>2. FailureSaid \notin F
      BY <1>4, <2>1, DailyBackupEffects DEF MetricsOf
    <2>3. \A i \in Item : BackedUp(i) \in F
      <3>1. \A i \in Item : i < Count + 1
        BY <2>1, Items
      <3> QED BY <1>2, <1>4, <2>1, <3>1 DEF MetricsOf
    <2> QED BY <1>1, <1>2, <1>4, <2>1, <2>2, <2>3 DEF MetricsOf
  <1>5. ASSUME x.stage = 2, c = Failure
        PROVE  MetricsOf(y, F)
    <2>1. F = E \cup {FailureSaid}
      BY <1>5, DailyBackupEffects
    <2> QED BY <1>1, <1>5, <2>1, DailyBackupEffects DEF MetricsOf
  <1> QED BY <1>2, <1>3, <1>4, <1>5, DailyBackupCall

LEMMA MetricsThrew ==
  ASSUME Shape, Backup, NEW x, NEW y, NEW E, NEW F, NEW b, NEW c, NEW r,
         MetricsOf(x, E), Called(x, b, c), Thrown(x, y, b, c),
         F = E \/ F = E \cup {Resource(c, r)}
  PROVE  MetricsOf(y, F)
  <1>1. Stages = PerformDailyBackup
    BY JobsAreScripts DEF Stages, Backup
  <1>2. /\ y.failed = x.failed \cup {c} /\ ~c.own
    BY DailyBackupCall, DailyBackupEffects DEF Thrown
  <1>3. CASE x.stage = 1
    <2>1. x.state # "rejected" /\ Stages[x.stage].catch = 1
      BY <1>1, <1>3, DailyBackupScript DEF MetricsOf
    <2>0. Stages[x.stage].catch # 0
      BY <2>1
    <2>2. PICK seen : Entered(y, x.stage + 1, seen)
      BY Zenon, <1>2, <2>0, <2>1 DEF Thrown
    <2>3. Entered(y, 2, seen)
      BY <1>3, <2>2
    <2>4. y.at[1] = 1 /\ y.stage = 2 /\ y.state = "running"
      BY <2>3, DailyBackupNeedsNothing, EntersAtOne DEF Entered
    <2>5. SuccessSaid \notin E
      <3>1. Count \in Nat /\ (x.at[1] \in Item => x.at[1] \in 1 .. Count)
        BY Items
      <3>2. x.at[1] \in Item \/ x.at[1] = Count + 1
        BY <1>3, DailyBackupCall
      <3>3. x.at[1] # Count + 2
        BY <3>1, <3>2
      <3> QED BY <1>3, <3>3 DEF MetricsOf
    <2>6. /\ FailureSaid \notin F
          /\ SuccessSaid \in F => c = Success
          /\ c = Success => \A i \in Item : BackedUp(i) \in F
      <3>1. ASSUME c = CreateBackup(x.at[1])
            PROVE  FailureSaid \notin F /\ SuccessSaid \notin F /\ c # Success
        <4>1. Resource(c, r) = BackedUp(x.at[1]) /\ Resource(Success, r) = SuccessSaid
          BY <3>1, DailyBackupEffects
        <4>2. BackedUp(x.at[1]) # FailureSaid /\ BackedUp(x.at[1]) # SuccessSaid
          BY DailyBackupEffects
        <4> QED BY <1>3, <2>5, <4>1, <4>2 DEF MetricsOf
      <3>2. ASSUME x.at[1] = Count + 1, c = Success
            PROVE  FailureSaid \notin F /\ \A i \in Item : BackedUp(i) \in F
        <4>1. \A i \in Item : i < Count + 1
          BY Items
        <4>2. Resource(c, r) # FailureSaid
          BY <3>2, DailyBackupEffects
        <4> QED BY <1>3, <3>2, <4>1, <4>2 DEF MetricsOf
      <3> QED BY <1>3, <3>1, <3>2, DailyBackupCall
    <2> QED BY <1>2, <2>4, <2>6 DEF MetricsOf
  <1>4. CASE x.stage = 2
    <2>1. Stages[x.stage].catch = 0 /\ c = Failure /\ x.at[1] = 1
      BY <1>1, <1>4, DailyBackupScript, DailyBackupCall
    <2>2. Ended(x, y, b)
      BY <1>2, <2>1 DEF Thrown
    <2>3. y.stage = 2 /\ y.state = "rejected"
      BY <1>4, <2>2 DEF Ended, Elsewhere
    <2>4. F \subseteq E \cup {FailureSaid} /\ E \subseteq F
      BY <2>1, DailyBackupEffects
    <2> QED BY <1>2, <1>4, <2>1, <2>3, <2>4, DailyBackupEffects DEF MetricsOf
  <1> QED BY <1>3, <1>4, DailyBackupCall

LEMMA MetricsElse ==
  ASSUME Shape, Backup, NEW r \in Run, MetricsOf(run[r], effects[r]),
         Started(r) \/ Continued(r) \/ Over(r)
  PROVE  MetricsOf(run'[r], effects'[r])
  <1>1. Stages = PerformDailyBackup
    BY JobsAreScripts DEF Stages, Backup
  <1>2. effects'[r] = effects[r]
    BY DEF Started, Continued, Over
  <1>3. CASE Started(r)
    <2>1. effects[r] = {} /\ run'[r].failed = {}
      BY <1>3 DEF Started, Shape
    <2>2. PICK seen : Entered(run'[r], 1, seen)
      BY <1>3 DEF Started
    <2>3. run'[r].at[1] = 1 /\ run'[r].stage = 1 /\ run'[r].state = "running"
      BY <2>2, DailyBackupNeedsNothing, EntersAtOne DEF Entered
    <2>4. \A i \in Item : ~(i < 1)
      BY Items
    <2> QED BY <1>2, <2>1, <2>3, <2>4 DEF MetricsOf
  <1>4. CASE Over(r)
    <2>1. /\ run'[r].state \in {"resolved", "killed"} /\ run'[r].stage = run[r].stage
          /\ run'[r].at = run[r].at /\ run'[r].failed = run[r].failed
      BY <1>4 DEF Over
    <2> QED BY <1>2, <2>1 DEF MetricsOf
  <1>5. ASSUME Continued(r), Stages[run[r].stage].rethrow \cap run[r].seen = {}
        PROVE  MetricsOf(run'[r], effects'[r])
    <2>1. PICK n : n = run[r].stage
      OBVIOUS
    <2>2. Entered(run'[r], n + Stages[n].next, run[r].seen) /\ n \in 1 .. Len(Stages)
          /\ run'[r].failed = run[r].failed /\ run[r].state = "running"
      BY <1>5, <2>1 DEF Continued
    <2>3. n \in {1, 2, 3}
      BY <1>1, <2>2, DailyBackupScript
    <2>4. CASE n = 2
      <3>1. run'[r].stage = 3 /\ run'[r].state = "running"
        BY <1>1, <2>2, <2>4, DailyBackupScript DEF Entered
      <3>2. run[r].at[1] = 2
        <4>1. DOMAIN Stages[n].branches = {1} /\ Len(Stages[n].branches[1]) = 1
          BY <1>1, <2>4, DailyBackupScript
        <4>2. RunShape(run[r]) /\ n <= Len(Stages)
          BY <1>1, <2>4, DailyBackupScript DEF Shape
        <4>3. DOMAIN run[r].at = {1}
          BY <2>1, <2>2, <4>1, <4>2 DEF RunShape
        <4>4. \A a \in DOMAIN run[r].at : run[r].at[a] = Len(Stages[n].branches[a]) + 1
          BY Zenon, <1>5, <2>1 DEF Continued
        <4>5. 1 \in DOMAIN run[r].at
          BY <4>3
        <4>6. run[r].at[1] = Len(Stages[n].branches[1]) + 1
          BY Zenon, <4>4, <4>5
        <4> QED BY <4>1, <4>6
      <3> QED BY <1>2, <2>1, <2>2, <2>4, <3>1, <3>2 DEF MetricsOf
    <2>5. CASE n \in {1, 3}
      <3>1. run'[r].stage = 4 /\ run'[r].state = "running"
        BY <1>1, <2>2, <2>5, DailyBackupScript DEF Entered
      <3> QED BY <1>2, <2>2, <3>1 DEF MetricsOf
    <2> QED BY <2>3, <2>4, <2>5
  <1>6. ASSUME Continued(r), Stages[run[r].stage].rethrow \cap run[r].seen # {}
        PROVE  MetricsOf(run'[r], effects'[r])
    <2>1. /\ run'[r].state = "rejected" /\ run'[r].stage = run[r].stage
          /\ run[r].stage \in 1 .. Len(Stages) /\ run'[r].failed = run[r].failed
      BY <1>6 DEF Continued
    <2>2. run[r].stage = 3
      BY <1>1, <1>6, <2>1, DailyBackupScript
    <2> QED BY <1>2, <2>1, <2>2 DEF MetricsOf
  <1> QED BY <1>3, <1>4, <1>5, <1>6

LEMMA MetricsStep ==
  ASSUME Shape, MetricsInv, [Next]_vars
  PROVE  MetricsInv'
  <1> SUFFICES ASSUME Backup', NEW r \in Run
               PROVE  MetricsOf(run'[r], effects'[r])
    BY DEF MetricsInv, MetricsOf
  <1>1. scenario' = scenario
    BY EveryStep DEF Only
  <1>2. Backup /\ MetricsOf(run[r], effects[r])
    BY <1>1 DEF Backup, job, MetricsInv
  <1>3. CASE run'[r] = run[r] /\ effects'[r] = effects[r]
    BY <1>2, <1>3
  <1>4. ASSUME NEW b, NEW c, Settled(r, b, c)
        PROVE  MetricsOf(run'[r], effects'[r])
    <2>1. /\ Called(run[r], b, c) /\ Did(c, r)
          /\ run'[r].failed = run[r].failed
          /\ \E seen : Advanced(run[r], run'[r], b, seen)
      BY <1>4 DEF Settled
    <2>2. effects'[r] = effects[r] \cup {Resource(c, r)}
      BY <1>2, <2>1, DailyBackupDid
    <2> QED BY <1>2, <2>1, <2>2, MetricsSettled
  <1>5. ASSUME NEW b, NEW c, Threw(r, b, c)
        PROVE  MetricsOf(run'[r], effects'[r])
    <2>1. /\ Called(run[r], b, c) /\ Thrown(run[r], run'[r], b, c)
          /\ Did(c, r) \/ effects' = effects
      BY <1>5 DEF Threw
    <2>2. \/ effects'[r] = effects[r] \cup {Resource(c, r)}
          \/ effects'[r] = effects[r]
      BY <1>2, <2>1, DailyBackupDid
    <2> QED BY <1>2, <2>1, <2>2, MetricsThrew
  <1>6. \/ run'[r] = run[r] /\ effects'[r] = effects[r]
        \/ Started(r) \/ Continued(r) \/ Over(r)
        \/ \E b, c : Settled(r, b, c) \/ Threw(r, b, c)
    BY EveryStep DEF Only
  <1> QED BY <1>2, <1>3, <1>4, <1>5, <1>6, MetricsElse

LEMMA MetricsInit ==
  ASSUME Init
  PROVE  MetricsInv
  <1>1. \A r \in Run : run[r] = Idle /\ effects[r] = {}
    BY DEF Init
  <1> QED BY <1>1 DEF MetricsInv, MetricsOf, Idle

(* What the daily backup publishes is what it did.                         *)
THEOREM MetricsTell == Spec => []MetricsTellTheOutcome
  <1>1. Init => Shape /\ MetricsInv
    BY ShapeInit, MetricsInit
  <1>2. Shape /\ MetricsInv /\ [Next]_vars => (Shape /\ MetricsInv)'
    BY ShapeStep, MetricsStep
  <1>3. MetricsInv => MetricsTellTheOutcome
    BY DEF MetricsInv, MetricsOf, MetricsTellTheOutcome, Backup, Success, Failure,
           SuccessSaid, FailureSaid, BackedUp
  <1> QED BY <1>1, <1>2, <1>3, PTL DEF Spec
-----------------------------------------------------------------------------
(* Failing over.                                                           *)

Failover == job = "initiateFailover"
Traffic == Put("traffic")
TablesNeeded == Here(Require("table"))
FunctionsNeeded == Here(Require("function"))
Moved == <<"traffic", 0>>
TablesSeen(seen) == \E s \in seen : s[1] = "table" /\ s[2] = 1
FunctionsSeen(seen) == \E s \in seen : s[1] = "function" /\ s[2] = 1

(* What is true of a run x that fails over, whose calls had effects E.     *)
TrafficOf(x, E) ==
  /\ Moved \in E => TablesSeen(x.seen) /\ FunctionsSeen(x.seen)
  /\ Moved \in E /\ (x.state = "rejected" \/ x.stage \in {2, 3}) => Traffic \in x.failed
  /\ x.stage = 1 =>
       /\ x.state # "rejected"
       /\ x.at[1] >= 4 => TablesSeen(x.seen)
       /\ x.at[1] >= 5 => FunctionsSeen(x.seen)
       /\ Moved \in E => x.at[1] >= 6

TrafficInv ==
  \A r \in Run : IF Failover THEN TrafficOf(run[r], effects[r]) ELSE Moved \notin effects[r]

LEMMA SixOf ==
  ASSUME NEW a, NEW b, NEW c, NEW d, NEW e, NEW f
  PROVE  /\ Len(<<a, b, c, d, e, f>>) = 6
         /\ <<a, b, c, d, e, f>>[1] = a /\ <<a, b, c, d, e, f>>[2] = b
         /\ <<a, b, c, d, e, f>>[3] = c /\ <<a, b, c, d, e, f>>[4] = d
         /\ <<a, b, c, d, e, f>>[5] = e /\ <<a, b, c, d, e, f>>[6] = f
  OBVIOUS

(* A call that neither moves traffic nor depends on what was listed.       *)
LeavesTraffic(c) ==
  c.needs = {} /\ ~c.own /\ \A r : Resource(c, r) # Moved

LEMMA FailoverScript ==
  /\ Len(InitiateFailover) = 3
  /\ LET s == InitiateFailover[1]
     IN /\ s.next = 3 /\ s.catch = 1 /\ s.rethrow = {} /\ DOMAIN s.branches = {1}
        /\ Len(s.branches[1]) = 6
        /\ s.branches[1][3] = TablesNeeded /\ s.branches[1][4] = FunctionsNeeded
        /\ s.branches[1][5] = Traffic /\ s.branches[1][6].kind = "stub"
        /\ \A k \in {1, 2, 3, 4, 6} : LeavesTraffic(s.branches[1][k])
  /\ LET s == InitiateFailover[2]
     IN /\ s.next = 1 /\ s.catch = 0 /\ s.rethrow = {} /\ DOMAIN s.branches = {1}
        /\ Len(s.branches[1]) = 1 /\ LeavesTraffic(s.branches[1][1])
  /\ InitiateFailover[3].next = 1 /\ DOMAIN InitiateFailover[3].branches = {}
  <1> DEFINE b == <<Here(List("table")), Here(List("function")), TablesNeeded,
                    FunctionsNeeded, Traffic, Stub("verifyFailover")>>
             one == Try(b, 3, 1)
             two == Do(<<Stub("rollback")>>)
             three == Rethrow({"failed", "refused"})
  <1>1. InitiateFailover = <<one, two, three>>
    BY DEF InitiateFailover, TablesNeeded, FunctionsNeeded, Traffic
  <1>2. /\ one.next = 3 /\ one.catch = 1 /\ one.branches = <<b>> /\ one.rethrow = {}
        /\ two.next = 1 /\ two.catch = 0 /\ two.branches = << <<Stub("rollback")>> >>
        /\ two.rethrow = {} /\ three.next = 1 /\ three.branches = <<>>
    <2> HIDE DEF b
    <2> QED BY DEF Try, Do, Rethrow, Stage
  <1>3. /\ Len(b) = 6 /\ b[1] = Here(List("table")) /\ b[2] = Here(List("function"))
        /\ b[3] = TablesNeeded /\ b[4] = FunctionsNeeded /\ b[5] = Traffic
        /\ b[6] = Stub("verifyFailover")
    BY SixOf
  <1>4. /\ LeavesTraffic(Here(List("table"))) /\ LeavesTraffic(Here(List("function")))
        /\ LeavesTraffic(TablesNeeded) /\ LeavesTraffic(FunctionsNeeded)
        /\ LeavesTraffic(Stub("verifyFailover")) /\ LeavesTraffic(Stub("rollback"))
        /\ Stub("verifyFailover").kind = "stub"
    BY DEF LeavesTraffic, List, TablesNeeded, FunctionsNeeded, Here, For, Require, Stub, Call,
           Resource, Moved
  <1> HIDE DEF b, one, two, three
  <1>5. /\ Len(InitiateFailover) = 3 /\ InitiateFailover[1] = one
        /\ InitiateFailover[2] = two /\ InitiateFailover[3] = three
    BY <1>1
  <1>6. /\ DOMAIN one.branches = {1} /\ one.branches[1] = b
        /\ DOMAIN two.branches = {1} /\ two.branches[1] = <<Stub("rollback")>>
    BY <1>2, Single
  <1>7. DOMAIN three.branches = {}
    <2>1. DOMAIN <<>> = {}
      OBVIOUS
    <2> QED BY Zenon, <1>2, <2>1
  <1>8. two.branches[1][1] = Stub("rollback") /\ Len(two.branches[1]) = 1
    BY <1>6, Single
  <1>9. \A k \in {1, 2, 3, 4, 6} : LeavesTraffic(b[k])
    BY <1>3, <1>4
  <1> QED BY <1>2, <1>3, <1>4, <1>5, <1>6, <1>7, <1>8, <1>9

LEMMA TrafficIs ==
  /\ Traffic.needs = {} /\ ~Traffic.own
  /\ TablesNeeded.kind = "require" /\ TablesNeeded.of = "table" /\ TablesNeeded.item = 1
  /\ FunctionsNeeded.kind = "require" /\ FunctionsNeeded.of = "function"
  /\ FunctionsNeeded.item = 1
  BY DEF Traffic, TablesNeeded, FunctionsNeeded, Here, For, Require, Put, Call

(* The calls of a failover, in terms of the stage they are made in.        *)
LEMMA FailoverCall ==
  ASSUME Shape, Failover, NEW x, NEW b, NEW c, Called(x, b, c)
  PROVE  /\ b = 1 /\ x.stage \in {1, 2} /\ ~c.own
         /\ c = Traffic \/ \A r : Resource(c, r) # Moved
         /\ x.stage = 1 => /\ x.at[1] \in 1 .. 6
                           /\ x.at[1] = 3 => c = TablesNeeded
                           /\ x.at[1] = 4 => c = FunctionsNeeded
                           /\ x.at[1] = 5 <=> c = Traffic
                           /\ x.at[1] = 6 => c.kind = "stub"
                           /\ x.at[1] # 5 => \A r : Resource(c, r) # Moved
         /\ x.stage = 2 => \A r : Resource(c, r) # Moved
  <1>1. Stages = InitiateFailover
    BY JobsAreScripts DEF Stages, Failover
  <1>2. PICK n, k :
          /\ n \in 1 .. Len(InitiateFailover)
          /\ x.stage = n /\ x.at[b] = k
          /\ b \in DOMAIN InitiateFailover[n].branches
          /\ k \in DOMAIN InitiateFailover[n].branches[b]
          /\ c = InitiateFailover[n].branches[b][k]
    BY <1>1 DEF Called
  <1>3. n \in {1, 2, 3}
    BY <1>2, FailoverScript
  <1>4. n \in {1, 2} /\ b = 1
    BY <1>2, <1>3, FailoverScript
  <1>5. k \in 1 .. Len(InitiateFailover[n].branches[1])
    BY <1>1, <1>2, <1>4, JobSpares, StagesFit DEF Shape
  <1>0. \A r : Resource(Traffic, r) = Moved
    BY DEF Resource, Traffic, Moved, Put, Call
  <1>6. CASE n = 1
    <2>1. k \in 1 .. 6
      BY <1>5, <1>6, FailoverScript
    <2>2. CASE k = 5
      <3>1. c = Traffic
        BY <1>2, <1>4, <1>6, <2>2, FailoverScript
      <3> QED BY <1>2, <1>4, <1>6, <2>1, <2>2, <3>1, TrafficIs
    <2>3. CASE k # 5
      <3>1. k \in {1, 2, 3, 4, 6}
        BY <2>1, <2>3
      <3>2. LeavesTraffic(c)
        BY <1>2, <1>4, <1>6, <3>1, FailoverScript
      <3>3. k = 3 => c = TablesNeeded
        BY <1>2, <1>4, <1>6, FailoverScript
      <3>4. k = 4 => c = FunctionsNeeded
        BY <1>2, <1>4, <1>6, FailoverScript
      <3>5. c # Traffic
        BY <1>0, <3>2 DEF LeavesTraffic
      <3>6. k = 6 => c.kind = "stub"
        BY <1>2, <1>4, <1>6, FailoverScript
      <3> QED BY <1>2, <1>4, <1>6, <2>1, <2>3, <3>2, <3>3, <3>4, <3>5, <3>6 DEF LeavesTraffic
    <2> QED BY <2>2, <2>3
  <1>7. CASE n = 2
    <2>1. k = 1
      BY <1>5, <1>7, FailoverScript
    <2>2. LeavesTraffic(c)
      BY <1>2, <1>4, <1>7, <2>1, FailoverScript
    <2> QED BY <1>2, <1>4, <1>7, <2>1, <2>2 DEF LeavesTraffic
  <1> QED BY <1>4, <1>6, <1>7

LEMMA FailoverNeedsNothing ==
  ASSUME Shape, Failover, NEW n \in {1, 2}
  PROVE  NeedsNothing(n)
  <1>1. Stages = InitiateFailover
    BY JobsAreScripts DEF Stages, Failover
  <1>2. n \in 1 .. Len(Stages) /\ 1 \in DOMAIN Stages[n].branches
        /\ DOMAIN Stages[n].branches = {1} /\ Len(Stages) = 3
    BY <1>1, FailoverScript
  <1>3. \E C : Stages[n].branches[1] \in Seq(C)
    <2>1. Spares(Foreign(job), Stages)
      BY JobSpares DEF Shape
    <2> QED BY <1>2, <2>1, BranchOf
  <1>4. ASSUME NEW k \in 1 .. Len(Stages[n].branches[1])
        PROVE  Stages[n].branches[1][k].needs = {}
    <2>1. CASE n = 1
      <3>1. k \in {1, 2, 3, 4, 6} \/ k = 5
        BY <1>1, <1>4, <2>1, FailoverScript
      <3>2. LeavesTraffic(Stages[n].branches[1][k]) \/ Stages[n].branches[1][k] = Traffic
        BY <1>1, <2>1, <3>1, FailoverScript
      <3> QED BY <3>2, TrafficIs DEF LeavesTraffic
    <2>2. CASE n = 2
      <3>1. k = 1
        BY <1>1, <1>4, <2>2, FailoverScript
      <3>2. LeavesTraffic(Stages[n].branches[1][k])
        BY <1>1, <2>2, <3>1, FailoverScript
      <3> QED BY <3>2 DEF LeavesTraffic
    <2> QED BY <2>1, <2>2
  <1> QED BY <1>2, <1>3, <1>4 DEF NeedsNothing

LEMMA TrafficSettled ==
  ASSUME Shape, Failover, NEW x, NEW y, NEW E, NEW F, NEW b, NEW c, NEW seen, NEW r,
         TrafficOf(x, E), Called(x, b, c), Advanced(x, y, b, seen), x.seen \subseteq seen,
         y.failed = x.failed, Moved \in F => Moved \in E \/ Resource(c, r) = Moved,
         c = TablesNeeded => TablesSeen(x.seen),
         c = FunctionsNeeded => FunctionsSeen(x.seen)
  PROVE  TrafficOf(y, F)
  <1>1. /\ y.at[1] = x.at[1] + 1 /\ y.stage = x.stage /\ y.state = x.state
        /\ y.seen = seen
    BY FailoverCall, FailoverNeedsNothing, AdvancesByOne DEF Advanced, Elsewhere
  <1>2. /\ TablesSeen(x.seen) => TablesSeen(y.seen)
        /\ FunctionsSeen(x.seen) => FunctionsSeen(y.seen)
    BY <1>1 DEF TablesSeen, FunctionsSeen
  <1>3. PICK k : k = x.at[1]
    OBVIOUS
  <1>4. CASE x.stage = 1
    <2>1. /\ k \in 1 .. 6
          /\ k = 3 => c = TablesNeeded
          /\ k = 4 => c = FunctionsNeeded
          /\ Resource(c, r) = Moved => k = 5
      BY <1>3, <1>4, FailoverCall
    <2>2. /\ k + 1 >= 4 => TablesSeen(x.seen)
          /\ k + 1 >= 5 => FunctionsSeen(x.seen)
      BY <1>3, <1>4, <2>1 DEF TrafficOf
    <2>3. Moved \in F => k + 1 >= 6
      BY <1>3, <1>4, <2>1 DEF TrafficOf
    <2> QED BY <1>1, <1>2, <1>3, <1>4, <2>1, <2>2, <2>3 DEF TrafficOf
  <1>5. CASE x.stage = 2
    <2>1. Moved \in F => Moved \in E
      BY <1>5, FailoverCall
    <2> QED BY <1>1, <1>2, <1>5, <2>1 DEF TrafficOf
  <1> QED BY <1>4, <1>5, FailoverCall

LEMMA TrafficThrew ==
  ASSUME Shape, Failover, NEW x, NEW y, NEW E, NEW F, NEW b, NEW c, NEW r,
         TrafficOf(x, E), Called(x, b, c), c.kind # "stub", Thrown(x, y, b, c),
         Moved \in F => Moved \in E \/ Resource(c, r) = Moved
  PROVE  TrafficOf(y, F)
  <1>1. Stages = InitiateFailover
    BY JobsAreScripts DEF Stages, Failover
  <1>2. /\ y.failed = x.failed \cup {c} /\ ~c.own
    BY FailoverCall DEF Thrown
  <1>3. CASE x.stage = 1
    <2>1. /\ x.state # "rejected" /\ Stages[x.stage].catch = 1
          /\ Stages[x.stage].catch # 0
      BY <1>1, <1>3, FailoverScript DEF TrafficOf
    <2>2. PICK why : Entered(y, x.stage + 1, x.seen \cup {<<why, 0>>})
      BY Zenon, <1>2, <2>1 DEF Thrown
    <2>3. y.stage = 2 /\ y.state = "running" /\ x.seen \subseteq y.seen
      BY <1>3, <2>2 DEF Entered
    <2>4. PICK k : k = x.at[1]
      OBVIOUS
    <2>5. /\ k \in 1 .. 6 /\ k # 6
          /\ Resource(c, r) = Moved => k = 5
          /\ k = 5 => c = Traffic
      BY <1>3, <2>4, FailoverCall
    <2>6. Moved \in F => k = 5
      BY <1>3, <2>4, <2>5 DEF TrafficOf
    <2>7. Moved \in F => TablesSeen(x.seen) /\ FunctionsSeen(x.seen)
      BY <1>3, <2>4, <2>6 DEF TrafficOf
    <2>8. Moved \in F => TablesSeen(y.seen) /\ FunctionsSeen(y.seen)
      BY <2>3, <2>7 DEF TablesSeen, FunctionsSeen
    <2> QED BY <1>2, <2>3, <2>5, <2>6, <2>8 DEF TrafficOf
  <1>4. CASE x.stage = 2
    <2>1. Stages[x.stage].catch = 0 /\ (Moved \in F => Moved \in E)
      BY <1>1, <1>4, FailoverScript, FailoverCall
    <2>2. Ended(x, y, b)
      BY <1>2, <2>1 DEF Thrown
    <2>3. y.stage = 2 /\ y.seen = x.seen
      BY <1>4, <2>2 DEF Ended, Elsewhere
    <2> QED BY <1>2, <1>4, <2>1, <2>3 DEF TrafficOf
  <1> QED BY <1>3, <1>4, FailoverCall

LEMMA TrafficElse ==
  ASSUME Shape, Failover, NEW r \in Run, TrafficOf(run[r], effects[r]),
         Started(r) \/ Continued(r) \/ Over(r)
  PROVE  TrafficOf(run'[r], effects'[r])
  <1>1. Stages = InitiateFailover
    BY JobsAreScripts DEF Stages, Failover
  <1>2. effects'[r] = effects[r]
    BY DEF Started, Continued, Over
  <1>3. CASE Started(r)
    <2>1. effects[r] = {}
      BY <1>3 DEF Started, Shape
    <2>2. PICK seen : Entered(run'[r], 1, seen)
      BY <1>3 DEF Started
    <2>3. run'[r].at[1] = 1 /\ run'[r].stage = 1 /\ run'[r].state = "running"
      BY <2>2, FailoverNeedsNothing, EntersAtOne DEF Entered
    <2> QED BY <1>2, <2>1, <2>3 DEF TrafficOf
  <1>4. CASE Over(r)
    <2>1. /\ run'[r].state \in {"resolved", "killed"} /\ run'[r].stage = run[r].stage
          /\ run'[r].at = run[r].at /\ run'[r].failed = run[r].failed
          /\ run'[r].seen = run[r].seen
      BY <1>4 DEF Over
    <2> QED BY <1>2, <2>1 DEF TrafficOf
  <1>5. ASSUME Continued(r), Stages[run[r].stage].rethrow \cap run[r].seen = {}
        PROVE  TrafficOf(run'[r], effects'[r])
    <2>1. PICK n : n = run[r].stage
      OBVIOUS
    <2>2. Entered(run'[r], n + Stages[n].next, run[r].seen) /\ n \in 1 .. Len(Stages)
          /\ run'[r].failed = run[r].failed
      BY <1>5, <2>1 DEF Continued
    <2>3. n \in {1, 2, 3}
      BY <1>1, <2>2, FailoverScript
    <2>4. run'[r].stage = n + Stages[n].next /\ run'[r].state = "running"
          /\ run'[r].seen = run[r].seen
      BY <2>2 DEF Entered
    <2>5. CASE n = 2
      <3>1. run'[r].stage = 3
        BY <1>1, <2>4, <2>5, FailoverScript
      <3> QED BY <1>2, <2>1, <2>2, <2>4, <2>5, <3>1 DEF TrafficOf
    <2>6. CASE n \in {1, 3}
      <3>1. run'[r].stage = 4
        BY <1>1, <2>4, <2>6, FailoverScript
      <3> QED BY <1>2, <2>2, <2>4, <3>1 DEF TrafficOf
    <2> QED BY <2>3, <2>5, <2>6
  <1>6. ASSUME Continued(r), Stages[run[r].stage].rethrow \cap run[r].seen # {}
        PROVE  TrafficOf(run'[r], effects'[r])
    <2>1. /\ run'[r].state = "rejected" /\ run'[r].stage = run[r].stage
          /\ run[r].stage \in 1 .. Len(Stages) /\ run'[r].failed = run[r].failed
          /\ run'[r].seen = run[r].seen
      BY <1>6 DEF Continued
    <2>2. run[r].stage = 3
      BY <1>1, <1>6, <2>1, FailoverScript
    <2> QED BY <1>2, <2>1, <2>2 DEF TrafficOf
  <1> QED BY <1>3, <1>4, <1>5, <1>6

(* No other job moves traffic, and only verifyBackups copies.              *)
LEMMA CalledIsSpared ==
  ASSUME Shape, NEW x, NEW b, NEW c, Called(x, b, c)
  PROVE  c.of \notin Foreign(job).of
  <1>1. PICK n, k :
          /\ n \in 1 .. Len(Stages)
          /\ b \in DOMAIN Stages[n].branches /\ k \in DOMAIN Stages[n].branches[b]
          /\ c = Stages[n].branches[b][k]
    BY DEF Called
  <1>2. Spares(Foreign(job), Stages)
    BY JobSpares DEF Shape
  <1>3. Spared(Foreign(job), c)
    BY <1>1, <1>2, CallOf
  <1> QED BY <1>3 DEF Spared

LEMMA MovesNoTraffic ==
  ASSUME Shape, ~Failover, NEW x, NEW b, NEW c, Called(x, b, c), NEW r
  PROVE  Resource(c, r) # Moved
  <1>1. "traffic" \in Foreign(job).of
    BY ForeignIs DEF Failover
  <1>2. c.of # "traffic"
    BY <1>1, CalledIsSpared
  <1> QED BY <1>2 DEF Resource, Moved

LEMMA TrafficStep ==
  ASSUME Shape, TrafficInv, [Next]_vars
  PROVE  TrafficInv'
  <1>1. scenario' = scenario
    BY EveryStep DEF Only
  <1>2. Failover' <=> Failover
    BY <1>1 DEF Failover, job
  <1> SUFFICES ASSUME NEW r \in Run
               PROVE  IF Failover THEN TrafficOf(run'[r], effects'[r])
                      ELSE Moved \notin effects'[r]
    BY <1>2 DEF TrafficInv, TrafficOf, Moved, TablesSeen, FunctionsSeen
  <1>3. ASSUME NEW b, NEW c, Did(c, r) \/ effects' = effects, Moved \in effects'[r]
        PROVE  Moved \in effects[r] \/ Resource(c, r) = Moved
    BY <1>3 DEF Did
  <1>4. \/ run'[r] = run[r] /\ effects'[r] = effects[r]
        \/ Started(r) \/ Continued(r) \/ Over(r)
        \/ \E b, c : Settled(r, b, c) \/ Threw(r, b, c)
    BY EveryStep DEF Only
  <1>5. CASE ~Failover
    <2>1. Moved \notin effects[r]
      BY <1>5 DEF TrafficInv
    <2>2. ASSUME NEW b, NEW c, Settled(r, b, c) \/ Threw(r, b, c)
          PROVE  Moved \notin effects'[r]
      <3>1. Called(run[r], b, c) /\ (Did(c, r) \/ effects' = effects)
        BY <2>2 DEF Settled, Threw
      <3> QED BY <1>3, <1>5, <2>1, <3>1, MovesNoTraffic
    <2>3. CASE Started(r) \/ Continued(r) \/ Over(r)
      <3>1. effects' = effects
        BY Zenon, <2>3 DEF Started, Continued, Over
      <3> QED BY <1>5, <2>1, <3>1
    <2> QED BY <1>4, <1>5, <2>1, <2>2, <2>3
  <1>6. CASE Failover
    <2>1. TrafficOf(run[r], effects[r])
      BY <1>6 DEF TrafficInv
    <2>2. ASSUME NEW b, NEW c, Settled(r, b, c)
          PROVE  TrafficOf(run'[r], effects'[r])
      <3>1. /\ Called(run[r], b, c) /\ Did(c, r) /\ ~Refused(c, r)
            /\ run'[r].failed = run[r].failed
            /\ Advanced(run[r], run'[r], b, Answer(c, r))
        BY <2>2 DEF Settled
      <3>2. run[r].seen \subseteq Answer(c, r)
        BY DEF Answer
      <3>3. c.kind = "require" =>
              \E s \in run[r].seen : s[1] = c.of /\ c.item \in {0, s[2]}
        BY <3>1 DEF Refused
      <3>4. /\ c = TablesNeeded => TablesSeen(run[r].seen)
            /\ c = FunctionsNeeded => FunctionsSeen(run[r].seen)
        BY <3>3, TrafficIs DEF TablesSeen, FunctionsSeen
      <3>5. Moved \in effects'[r] => Moved \in effects[r] \/ Resource(c, r) = Moved
        BY <1>3, <3>1
      <3> QED
        BY Zenon, <1>6, <2>1, <3>1, <3>2, <3>4, <3>5, TrafficSettled
    <2>3. ASSUME NEW b, NEW c, Threw(r, b, c)
          PROVE  TrafficOf(run'[r], effects'[r])
      <3>1. /\ Called(run[r], b, c) /\ c.kind # "stub" /\ Thrown(run[r], run'[r], b, c)
            /\ Did(c, r) \/ effects' = effects
        BY <2>3 DEF Threw
      <3>2. Moved \in effects'[r] => Moved \in effects[r] \/ Resource(c, r) = Moved
        BY <1>3, <3>1
      <3> QED
        BY Zenon, <1>6, <2>1, <3>1, <3>2, TrafficThrew
    <2> QED BY <1>4, <1>6, <2>1, <2>2, <2>3, TrafficElse
  <1> QED BY <1>5, <1>6

LEMMA TrafficInit ==
  ASSUME Init
  PROVE  TrafficInv
  <1>1. \A r \in Run : run[r] = Idle /\ effects[r] = {}
    BY DEF Init
  <1> QED BY <1>1 DEF TrafficInv, TrafficOf, Idle

(* Traffic is switched only by a run that found tables and functions in the *)
(* region of its clients, and a failover that rejects has moved it only     *)
(* unawares.                                                               *)
THEOREM TrafficMoves == Spec => []TrafficMovesOnlyWithReason
  <1>1. Init => Shape /\ TrafficInv
    BY ShapeInit, TrafficInit
  <1>2. Shape /\ TrafficInv /\ [Next]_vars => (Shape /\ TrafficInv)'
    BY ShapeStep, TrafficStep
  <1>3. TrafficInv => TrafficMovesOnlyWithReason
    BY DEF TrafficInv, TrafficOf, TrafficMovesOnlyWithReason, Moved, Traffic,
           TablesSeen, FunctionsSeen
  <1> QED BY <1>1, <1>2, <1>3, PTL DEF Spec
-----------------------------------------------------------------------------
(* Verifying backups.  Table i has three stages: its backup is listed, the *)
(* backup is restored into a copy and compared, the copy is deleted.       *)

Verifying == job = "verifyBackups"
ListStage(i) == 3 * (i - 1) + 1
CopyStage(i) == 3 * (i - 1) + 2
DeleteStage(i) == 3 * (i - 1) + 3
CopyOf(i, r) == <<"copy", i, r>>
BackupOf(i) == <<"table backup", i>>
Deletion(i) == Swallowed(Copy("delete", i))

LEMMA StagesOfItems ==
  /\ \A i \in Item : /\ ListStage(i) \in Nat /\ CopyStage(i) = ListStage(i) + 1
                     /\ DeleteStage(i) = CopyStage(i) + 1
                     /\ ListStage(i + 1) = DeleteStage(i) + 1
                     /\ ListStage(i) <= 3 * Count /\ DeleteStage(i) <= 3 * Count
                     /\ CopyStage(i) <= 3 * Count
  /\ ListStage(Count + 1) = 3 * Count + 1 /\ ListStage(1) = 1
  /\ \A i \in Item, j \in Item \cup {Count + 1} :
       /\ ListStage(j) # CopyStage(i) /\ ListStage(j) # DeleteStage(i)
  /\ \A i, j \in Item :
       /\ CopyStage(i) # DeleteStage(j)
       /\ CopyStage(i) = CopyStage(j) => i = j
       /\ DeleteStage(i) = DeleteStage(j) => i = j
  /\ \A n \in 1 .. 3 * Count :
       \E i \in Item : n \in {ListStage(i), CopyStage(i), DeleteStage(i)}
  /\ \A i \in Item : i + 1 \in Item \cup {Count + 1}
  <1> USE DEF ListStage, CopyStage, DeleteStage
  <1>1. ASSUME NEW n \in 1 .. 3 * Count
        PROVE  \E i \in Item : n \in {ListStage(i), CopyStage(i), DeleteStage(i)}
    <2> DEFINE i == ((n - 1) \div 3) + 1
    <2>1. i \in Item /\ n \in {3 * (i - 1) + 1, 3 * (i - 1) + 2, 3 * (i - 1) + 3}
      BY Items
    <2> QED BY <2>1
  <1> QED BY <1>1, Items

LEMMA CopiesDiffer ==
  ASSUME NEW i, NEW j, NEW r, NEW q
  PROVE  /\ CopyOf(i, r) = CopyOf(j, q) => i = j /\ r = q
         /\ Deletion(i).own /\ Deletion(i).kind = "delete"
         /\ Resource(Deletion(i), r) = CopyOf(i, r)
         /\ Resource(Copy("restore", i), r) = CopyOf(i, r)
         /\ Deletion(i).needs = {BackupOf(i)}
  BY DEF CopyOf, Deletion, Swallowed, Copy, Had, Listed, Call, Resource, BackupOf

Changing == {"create", "restore", "delete"}
Refusable == {"create", "delete", "scan", "require", "broken"}

(* The stages of a table.                                                  *)
LEMMA TableScript ==
  ASSUME NEW i
  PROVE  /\ LET s == VerifyTable(i)[1]
            IN /\ s.next = 1 /\ s.catch = 0 /\ s.rethrow = {} /\ DOMAIN s.branches = {1}
               /\ Len(s.branches[1]) = 1
               /\ s.branches[1][1].kind \notin Changing \cup Refusable
               /\ ~s.branches[1][1].own /\ s.branches[1][1].needs = {}
         /\ LET s == VerifyTable(i)[2]
            IN /\ s.next = 1 /\ s.catch = 1 /\ s.rethrow = {} /\ DOMAIN s.branches = {1}
               /\ Len(s.branches[1]) = 3
               /\ \A k \in 1 .. 3 :
                    /\ ~s.branches[1][k].own /\ BackupOf(i) \in s.branches[1][k].needs
                    /\ \/ s.branches[1][k] = Copy("restore", i)
                       \/ s.branches[1][k].kind \notin Changing
         /\ LET s == VerifyTable(i)[3]
            IN /\ s.next = 1 /\ s.catch = 0 /\ s.rethrow = {} /\ DOMAIN s.branches = {1}
               /\ Len(s.branches[1]) = 1 /\ s.branches[1][1] = Deletion(i)
  <1> DEFINE list == For(List("table backup"), i)
             read == Had(Read("table"), i)
             scan == Copy("scan", i)
             b == <<Copy("restore", i), read, scan>>
             one == Do(<<list>>)
             two == Try(b, 1, 1)
             three == Do(<<Deletion(i)>>)
  <1>1. VerifyTable(i) = <<one, two, three>>
    BY DEF VerifyTable, Deletion
  <1>2. /\ one.next = 1 /\ one.catch = 0 /\ one.rethrow = {} /\ one.branches = << <<list>> >>
        /\ two.next = 1 /\ two.catch = 1 /\ two.rethrow = {} /\ two.branches = <<b>>
        /\ three.next = 1 /\ three.catch = 0 /\ three.rethrow = {}
        /\ three.branches = << <<Deletion(i)>> >>
    <2> HIDE DEF b, list
    <2> QED BY DEF Try, Do, Stage
  <1>3. /\ list.kind \notin Changing \cup Refusable /\ ~list.own /\ list.needs = {}
        /\ read.kind \notin Changing /\ ~read.own /\ BackupOf(i) \in read.needs
        /\ scan.kind \notin Changing /\ ~scan.own /\ BackupOf(i) \in scan.needs
        /\ ~Copy("restore", i).own /\ BackupOf(i) \in Copy("restore", i).needs
    BY DEF For, List, Had, Read, Copy, Listed, Call, BackupOf, Changing, Refusable
  <1>4. Len(b) = 3 /\ b[1] = Copy("restore", i) /\ b[2] = read /\ b[3] = scan
    <2> HIDE DEF read, scan
    <2> QED OBVIOUS
  <1> HIDE DEF b, list, read, scan, one, two, three
  <1>5. VerifyTable(i)[1] = one /\ VerifyTable(i)[2] = two /\ VerifyTable(i)[3] = three
    BY <1>1
  <1>6. /\ DOMAIN one.branches = {1} /\ one.branches[1] = <<list>>
        /\ DOMAIN two.branches = {1} /\ two.branches[1] = b
        /\ DOMAIN three.branches = {1} /\ three.branches[1] = <<Deletion(i)>>
    BY <1>2, Single
  <1>7. /\ Len(one.branches[1]) = 1 /\ one.branches[1][1] = list
        /\ Len(three.branches[1]) = 1 /\ three.branches[1][1] = Deletion(i)
    BY <1>6, Single
  <1>8. \A k \in 1 .. 3 :
          /\ ~b[k].own /\ BackupOf(i) \in b[k].needs
          /\ b[k] = Copy("restore", i) \/ b[k].kind \notin Changing
    BY <1>3, <1>4
  <1> QED BY <1>2, <1>3, <1>4, <1>5, <1>6, <1>7, <1>8

LEMMA VerifyScript ==
  /\ Len(VerifyBackups) = 3 * Count + 1
  /\ \A i \in Item : /\ VerifyBackups[ListStage(i)] = VerifyTable(i)[1]
                     /\ VerifyBackups[CopyStage(i)] = VerifyTable(i)[2]
                     /\ VerifyBackups[DeleteStage(i)] = VerifyTable(i)[3]
  /\ LET s == VerifyBackups[3 * Count + 1]
     IN /\ s.next = 1 /\ s.catch = 0 /\ s.rethrow = {} /\ DOMAIN s.branches = {1}
        /\ Len(s.branches[1]) = 1
        /\ s.branches[1][1].kind \notin Changing \cup Refusable
        /\ ~s.branches[1][1].own /\ s.branches[1][1].needs = {}
  <1> DEFINE tables == [i \in Item |-> VerifyTable(i)]
             C == {VerifyTable(i)[m] : i \in Item, m \in 1 .. 3}
             report == Put("verification report")
             last == Do(<<report>>)
             E == Each(3, tables)
             D == C \cup {last}
  <1>0. \A i \in Item, m \in 1 .. 3 : VerifyTable(i)[m] \in C
    OBVIOUS
  <1>2. VerifyBackups = E \o <<last>>
    BY DEF VerifyBackups
  <1>3. \A i \in Item : tables[i] = VerifyTable(i)
    OBVIOUS
  <1>4. last \in D
    OBVIOUS
  <1>1. \A i \in Item, m \in 1 .. 3 : tables[i][m] \in D
    <2>1. \A i \in Item, m \in 1 .. 3 : tables[i][m] \in C
      <3> HIDE DEF tables, C
      <3> QED BY <1>0, <1>3
    <2> HIDE DEF tables, C, last
    <2> QED BY <2>1
  <1>5. /\ last.next = 1 /\ last.catch = 0 /\ last.rethrow = {}
        /\ last.branches = << <<report>> >>
    BY DEF Do, Stage
  <1>6. report.kind \notin Changing \cup Refusable /\ ~report.own /\ report.needs = {}
    BY DEF Put, Call, Changing, Refusable
  <1> HIDE DEF tables, D, last, report, E
  <1>7. E \in Seq(D) /\ Len(E) = 3 * Count /\ 3 * Count \in Nat
    BY <1>1, EachItem DEF E
  <1>8. <<last>> \in Seq(D) /\ Len(<<last>>) = 1 /\ <<last>>[1] = last
    BY <1>4
  <1>9. /\ Len(VerifyBackups) = 3 * Count + 1 /\ VerifyBackups[3 * Count + 1] = last
        /\ \A n \in 1 .. 3 * Count : VerifyBackups[n] = E[n]
    BY <1>2, <1>7, <1>8
  <1>10. ASSUME NEW i \in Item
         PROVE  /\ VerifyBackups[ListStage(i)] = VerifyTable(i)[1]
                /\ VerifyBackups[CopyStage(i)] = VerifyTable(i)[2]
                /\ VerifyBackups[DeleteStage(i)] = VerifyTable(i)[3]
    <2>1. ASSUME NEW m \in 1 .. 3
          PROVE  VerifyBackups[3 * (i - 1) + m] = VerifyTable(i)[m]
      <3> DEFINE n == 3 * (i - 1) + m
      <3>1. n \in 1 .. 3 * Count /\ ((n - 1) \div 3) + 1 = i /\ ((n - 1) % 3) + 1 = m
        BY Items
      <3> HIDE DEF n
      <3>2. E[n] = tables[((n - 1) \div 3) + 1][((n - 1) % 3) + 1]
        BY <3>1, EachItem DEF E
      <3>3. VerifyBackups[n] = E[n]
        BY <1>9, <3>1
      <3> QED BY <1>3, <3>1, <3>2, <3>3 DEF n
    <2> QED BY <2>1 DEF ListStage, CopyStage, DeleteStage
  <1>11. DOMAIN last.branches = {1} /\ last.branches[1] = <<report>>
    BY <1>5, Single
  <1>12. Len(last.branches[1]) = 1 /\ last.branches[1][1] = report
    BY <1>11, Single
  <1> QED BY <1>5, <1>6, <1>9, <1>10, <1>11, <1>12
(* The calls of verifyBackups, in terms of the stage they are made in.     *)
LEMMA VerifyCall ==
  ASSUME Shape, Verifying, NEW x, NEW b, NEW c, Called(x, b, c)
  PROVE  /\ b = 1
         /\ \/ /\ \E i \in Item \cup {Count + 1} : x.stage = ListStage(i)
               /\ c.kind \notin Changing /\ ~c.own /\ Stages[x.stage].catch = 0
            \/ \E i \in Item :
                 /\ x.stage = CopyStage(i) /\ BackupOf(i) \in x.seen /\ ~c.own
                 /\ c = Copy("restore", i) \/ c.kind \notin Changing
                 /\ Stages[x.stage].catch = 1
            \/ \E i \in Item :
                 /\ x.stage = DeleteStage(i) /\ x.at[1] = 1 /\ c = Deletion(i)
  <1>1. Stages = VerifyBackups
    BY JobsAreScripts DEF Stages, Verifying
  <1>2. PICK n, k :
          /\ n \in 1 .. Len(VerifyBackups)
          /\ x.stage = n /\ x.at[b] = k
          /\ b \in DOMAIN VerifyBackups[n].branches
          /\ k \in DOMAIN VerifyBackups[n].branches[b]
          /\ c = VerifyBackups[n].branches[b][k] /\ c.needs \subseteq x.seen
    BY <1>1 DEF Called
  <1>3. n = 3 * Count + 1 \/ \E i \in Item : n \in {ListStage(i), CopyStage(i), DeleteStage(i)}
    <2>1. n \in 1 .. 3 * Count + 1 /\ 3 * Count \in Nat
      BY <1>2, VerifyScript, Items
    <2>2. n = 3 * Count + 1 \/ n \in 1 .. 3 * Count
      BY <2>1
    <2> QED BY <2>2, StagesOfItems
  <1>4. ASSUME DOMAIN VerifyBackups[n].branches = {1}
        PROVE  b = 1 /\ k \in 1 .. Len(VerifyBackups[n].branches[1])
    <2>1. b = 1
      BY <1>2, <1>4
    <2> QED BY <1>1, <1>2, <2>1, JobSpares, StagesFit DEF Shape
  <1>5. CASE n = 3 * Count + 1
    <2>1. DOMAIN VerifyBackups[n].branches = {1} /\ Len(VerifyBackups[n].branches[1]) = 1
      BY <1>5, VerifyScript
    <2>2. b = 1 /\ k = 1
      BY <1>4, <2>1
    <2>3. c.kind \notin Changing /\ ~c.own /\ VerifyBackups[n].catch = 0
      BY <1>2, <1>5, <2>2, VerifyScript
    <2>4. n = ListStage(Count + 1)
      BY <1>5, StagesOfItems
    <2> QED BY <1>1, <1>2, <2>2, <2>3, <2>4
  <1>6. ASSUME NEW i \in Item, n = ListStage(i)
        PROVE  /\ b = 1 /\ x.stage = ListStage(i) /\ c.kind \notin Changing /\ ~c.own
               /\ Stages[x.stage].catch = 0
    <2>1. VerifyBackups[n] = VerifyTable(i)[1]
      BY <1>6, VerifyScript
    <2>2. DOMAIN VerifyBackups[n].branches = {1} /\ Len(VerifyBackups[n].branches[1]) = 1
      BY <2>1, TableScript
    <2>3. b = 1 /\ k = 1
      BY <1>4, <2>2
    <2>4. c = VerifyTable(i)[1].branches[1][1]
      BY <1>2, <2>1, <2>3
    <2>5. c.kind \notin Changing /\ ~c.own /\ VerifyBackups[n].catch = 0
      <3>1. /\ VerifyTable(i)[1].catch = 0
            /\ VerifyTable(i)[1].branches[1][1].kind \notin Changing
            /\ ~VerifyTable(i)[1].branches[1][1].own
        BY Zenon, TableScript
      <3> QED BY Zenon, <2>1, <2>4, <3>1
    <2> QED BY <1>1, <1>2, <1>6, <2>3, <2>5
  <1>7. ASSUME NEW i \in Item, n = CopyStage(i)
        PROVE  /\ b = 1 /\ x.stage = CopyStage(i) /\ BackupOf(i) \in x.seen /\ ~c.own
               /\ c = Copy("restore", i) \/ c.kind \notin Changing
               /\ Stages[x.stage].catch = 1
    <2>1. VerifyBackups[n] = VerifyTable(i)[2]
      BY <1>7, VerifyScript
    <2>2. DOMAIN VerifyBackups[n].branches = {1} /\ Len(VerifyBackups[n].branches[1]) = 3
      BY <2>1, TableScript
    <2>3. b = 1 /\ k \in 1 .. 3
      BY <1>4, <2>2
    <2>4. c = VerifyTable(i)[2].branches[1][k]
      BY <1>2, <2>1, <2>3
    <2>5. /\ ~c.own /\ BackupOf(i) \in c.needs
          /\ c = Copy("restore", i) \/ c.kind \notin Changing
          /\ VerifyBackups[n].catch = 1
      <3>1. /\ VerifyTable(i)[2].catch = 1
            /\ \A l \in 1 .. 3 :
                 LET d == VerifyTable(i)[2].branches[1][l]
                 IN /\ ~d.own /\ BackupOf(i) \in d.needs
                    /\ d = Copy("restore", i) \/ d.kind \notin Changing
        BY Zenon, TableScript
      <3> QED BY Zenon, <2>1, <2>3, <2>4, <3>1
    <2> QED BY <1>1, <1>2, <1>7, <2>3, <2>5
  <1>8. ASSUME NEW i \in Item, n = DeleteStage(i)
        PROVE  b = 1 /\ x.stage = DeleteStage(i) /\ x.at[1] = 1 /\ c = Deletion(i)
    <2>1. VerifyBackups[n] = VerifyTable(i)[3]
      BY <1>8, VerifyScript
    <2>2. DOMAIN VerifyBackups[n].branches = {1} /\ Len(VerifyBackups[n].branches[1]) = 1
      BY <2>1, TableScript
    <2>3. b = 1 /\ k = 1
      BY <1>4, <2>2
    <2>4. c = Deletion(i)
      <3>1. c = VerifyTable(i)[3].branches[1][1]
        BY <1>2, <2>1, <2>3
      <3> QED BY <3>1, TableScript
    <2> QED BY <1>2, <1>8, <2>3, <2>4
  <1> QED BY <1>3, <1>5, <1>6, <1>7, <1>8

(* Every stage is followed by the next, and throws nothing again.          *)
LEMMA VerifyContinues ==
  ASSUME Shape, Verifying, NEW n \in 1 .. Len(Stages)
  PROVE  /\ Stages[n].next = 1 /\ Stages[n].rethrow = {}
         /\ n = ListStage(Count + 1) \/ \E i \in Item : n \in {ListStage(i), CopyStage(i), DeleteStage(i)}
  <1>1. Stages = VerifyBackups
    BY JobsAreScripts DEF Stages, Verifying
  <1>2. n = 3 * Count + 1 \/ \E i \in Item : n \in {ListStage(i), CopyStage(i), DeleteStage(i)}
    <2>1. n \in 1 .. 3 * Count + 1 /\ 3 * Count \in Nat
      BY <1>1, VerifyScript, Items
    <2>2. n = 3 * Count + 1 \/ n \in 1 .. 3 * Count
      BY <2>1
    <2> QED BY <2>2, StagesOfItems
  <1>3. CASE n = 3 * Count + 1
    BY <1>1, <1>3, VerifyScript, StagesOfItems
  <1>4. ASSUME NEW i \in Item, n \in {ListStage(i), CopyStage(i), DeleteStage(i)}
        PROVE  Stages[n].next = 1 /\ Stages[n].rethrow = {}
    <2>1. \E m \in 1 .. 3 : Stages[n] = VerifyTable(i)[m]
      BY <1>1, <1>4, VerifyScript
    <2>2. \A m \in 1 .. 3 : VerifyTable(i)[m].next = 1 /\ VerifyTable(i)[m].rethrow = {}
      BY TableScript
    <2> QED BY <2>1, <2>2
  <1> QED BY <1>2, <1>3, <1>4

(* A run that has seen a backup begins the last stage by deleting the copy. *)
LEMMA EntersDeletion ==
  ASSUME Shape, Verifying, NEW i \in Item, NEW y, NEW seen,
         Entered(y, DeleteStage(i), seen), BackupOf(i) \in seen
  PROVE  y.at[1] = 1
  <1>1. Stages = VerifyBackups
    BY JobsAreScripts DEF Stages, Verifying
  <1>2. PICK n : n = DeleteStage(i)
    OBVIOUS
  <1>3. n <= Len(Stages)
    <2>1. n <= 3 * Count /\ Len(Stages) = 3 * Count + 1 /\ 3 * Count \in Nat /\ n \in Int
      BY <1>1, <1>2, VerifyScript, StagesOfItems, Items
    <2> QED BY <2>1
  <1>4. Stages[n] = VerifyTable(i)[3]
    BY <1>1, <1>2, VerifyScript
  <1>5. /\ DOMAIN Stages[n].branches = {1} /\ Len(Stages[n].branches[1]) = 1
        /\ Stages[n].branches[1][1] = Deletion(i)
    BY <1>4, TableScript
  <1>6. Follows(Stages[n].branches[1], 0, seen, y.at[1])
    BY <1>2, <1>3, <1>5 DEF Entered
  <1>7. Deletion(i).needs \subseteq seen
    BY CopiesDiffer
  <1> DEFINE m == y.at[1]
             branch == Stages[n].branches[1]
  <1> HIDE DEF m, branch
  <1>8. m \in 0 + 1 .. Len(branch) + 1 /\ (\A k \in 0 + 1 .. m - 1 : ~(branch[k].needs \subseteq seen))
        /\ Len(branch) = 1 /\ branch[1] = Deletion(i)
    BY <1>5, <1>6 DEF Follows, m, branch
  <1>9. m \in {1, 2}
    BY <1>8
  <1>10. m # 2
    BY <1>7, <1>8
  <1> QED BY <1>9, <1>10 DEF m
(* Copy i of run r may exist: the run has still to delete it, or has tried *)
(* to and could not, or was killed.                                        *)
Excused(x, i, r) ==
  \/ \E c \in x.failed : c.kind = "delete" /\ Resource(c, r) = CopyOf(i, r)
  \/ x.state = "killed"
  \/ /\ x.state = "running" /\ BackupOf(i) \in x.seen
     /\ x.stage = CopyStage(i) \/ (x.stage = DeleteStage(i) /\ x.at[1] = 1)

(* Only a listing, or the report, rejects the run.                         *)
RejectsListing(x) ==
  x.state = "rejected" => \E i \in Item \cup {Count + 1} : x.stage = ListStage(i)

CopyInv ==
  \A r \in Run : /\ Verifying => RejectsListing(run[r])
                 /\ \A i \in Item : CopyOf(i, r) \in aws =>
                      Verifying /\ Excused(run[r], i, r)

(* What a call adds to AWS, and takes from it.                             *)
LEMMA CopiesMade ==
  ASSUME NEW c, NEW q, Effect(c, q) \/ aws' = aws, NEW i, NEW r,
         CopyOf(i, r) \in aws'
  PROVE  \/ CopyOf(i, r) \in aws
         \/ c.kind \in Changing \ {"delete"} /\ Resource(c, q) = CopyOf(i, r)
  BY DEF Effect, Changing

LEMMA CopyGone ==
  ASSUME NEW c, NEW q, Effect(c, q), c.kind = "delete", NEW i, NEW r,
         CopyOf(i, r) \in aws'
  PROVE  Resource(c, q) # CopyOf(i, r)
  BY DEF Effect

(* A run copies nothing in the name of another.                            *)
LEMMA CopiesOwned ==
  ASSUME NEW c, NEW q, NEW i, NEW r, Resource(c, q) = CopyOf(i, r)
  PROVE  c.of = "copy" /\ q = r
  BY DEF Resource, CopyOf

LEMMA CopiesNothing ==
  ASSUME Shape, ~Verifying, NEW x, NEW b, NEW c, Called(x, b, c)
  PROVE  c.of # "copy"
  <1>1. "copy" \in Foreign(job).of
    BY ForeignIs DEF Verifying
  <1> QED BY <1>1, CalledIsSpared

LEMMA StillExcused ==
  ASSUME NEW x, NEW y, NEW i, NEW r, Excused(x, i, r), x.failed \subseteq y.failed,
         x.seen \subseteq y.seen, y.state = x.state,
         x.stage = CopyStage(i) => y.stage = CopyStage(i),
         x.stage = DeleteStage(i) => y.stage = DeleteStage(i) /\ y.at[1] = x.at[1]
  PROVE  Excused(y, i, r)
  BY DEF Excused

LEMMA CopySettled ==
  ASSUME Shape, Verifying, NEW r \in Run, NEW b, NEW c, Settled(r, b, c),
         RejectsListing(run[r]), NEW i \in Item,
         CopyOf(i, r) \in aws => Excused(run[r], i, r), CopyOf(i, r) \in aws'
  PROVE  Excused(run'[r], i, r)
  <1> DEFINE x == run[r]
             y == run'[r]
  <1>1. /\ Called(x, b, c) /\ y.failed = x.failed /\ Effect(c, r)
        /\ y.stage = x.stage /\ y.state = x.state /\ y.seen = Answer(c, r)
    BY DEF Settled, Advanced, Elsewhere
  <1>2. x.seen \subseteq y.seen
    BY <1>1 DEF Answer
  <1>3. x.state \in {"running", "rejected"}
    BY <1>1 DEF Called
  <1>4. \/ CopyOf(i, r) \in aws
        \/ c.kind \in Changing \ {"delete"} /\ Resource(c, r) = CopyOf(i, r)
    BY <1>1, CopiesMade
  <1>5. RejectsListing(x) /\ (CopyOf(i, r) \in aws => Excused(x, i, r))
    OBVIOUS
  <1> HIDE DEF x, y
  <1>6. ASSUME NEW j \in Item \cup {Count + 1}, x.stage = ListStage(j),
               c.kind \notin Changing
        PROVE  Excused(y, i, r)
    <2>1. Excused(x, i, r)
      BY <1>4, <1>5, <1>6
    <2>2. x.stage # CopyStage(i) /\ x.stage # DeleteStage(i)
      BY <1>6, StagesOfItems
    <2> QED BY <1>1, <1>2, <2>1, <2>2, StillExcused
  <1>7. ASSUME NEW j \in Item, x.stage = CopyStage(j), BackupOf(j) \in x.seen,
               c = Copy("restore", j) \/ c.kind \notin Changing
        PROVE  Excused(y, i, r)
    <2>1. x.stage # DeleteStage(i)
      BY <1>7, StagesOfItems
    <2>2. CASE CopyOf(i, r) \in aws
      BY <1>1, <1>2, <1>5, <2>1, <2>2, StillExcused
    <2>3. CASE CopyOf(i, r) \notin aws
      <3>1. c = Copy("restore", j) /\ Resource(c, r) = CopyOf(i, r)
        BY <1>4, <1>7, <2>3
      <3>0. Resource(Copy("restore", j), r) = CopyOf(j, r)
        BY CopiesDiffer
      <3>2. i = j
        BY <3>0, <3>1, CopiesDiffer
      <3>3. x.state = "running"
        BY <1>3, <1>5, <1>7, StagesOfItems DEF RejectsListing
      <3> QED BY <1>1, <1>2, <1>7, <3>2, <3>3 DEF Excused
    <2> QED BY <2>2, <2>3
  <1>8. ASSUME NEW j \in Item, x.stage = DeleteStage(j), c = Deletion(j)
        PROVE  Excused(y, i, r)
    <2>1. Resource(c, r) = CopyOf(j, r) /\ c.kind = "delete"
      BY <1>8, CopiesDiffer
    <2>2. i # j
      BY <1>1, <2>1, CopyGone
    <2>3. CopyOf(i, r) \in aws
      BY <1>4, <2>1
    <2>4. x.stage # CopyStage(i) /\ x.stage # DeleteStage(i)
      BY <1>8, <2>2, StagesOfItems
    <2> QED BY <1>1, <1>2, <1>5, <2>3, <2>4, StillExcused
  <1>9. Excused(y, i, r)
    BY <1>1, <1>6, <1>7, <1>8, VerifyCall
  <1> QED BY <1>9 DEF y

LEMMA CopyThrew ==
  ASSUME Shape, Verifying, NEW r \in Run, NEW b, NEW c, Threw(r, b, c),
         RejectsListing(run[r])
  PROVE  /\ RejectsListing(run'[r])
         /\ \A i \in Item : /\ CopyOf(i, r) \in aws => Excused(run[r], i, r)
                            /\ CopyOf(i, r) \in aws'
                            => Excused(run'[r], i, r)
  <1> DEFINE x == run[r]
             y == run'[r]
  <1>1. /\ Called(x, b, c) /\ Thrown(x, y, b, c) /\ y.failed = x.failed \cup {c}
        /\ Effect(c, r) \/ aws' = aws
    BY DEF Threw, Thrown
  <1>2. x.state \in {"running", "rejected"} /\ RejectsListing(x)
    BY <1>1 DEF Called
  <1>3. ASSUME NEW i \in Item, CopyOf(i, r) \in aws'
        PROVE  \/ CopyOf(i, r) \in aws
               \/ c.kind \in Changing \ {"delete"} /\ Resource(c, r) = CopyOf(i, r)
    BY <1>1, <1>3, CopiesMade
  <1> DEFINE Goal == /\ RejectsListing(y)
                     /\ \A i \in Item : /\ CopyOf(i, r) \in aws => Excused(x, i, r)
                                        /\ CopyOf(i, r) \in aws'
                                        => Excused(y, i, r)
  <1> HIDE DEF x, y
  <1>4. ASSUME NEW j \in Item \cup {Count + 1}, x.stage = ListStage(j),
               c.kind \notin Changing, ~c.own, Stages[x.stage].catch = 0
        PROVE  Goal
    <2>1. Ended(x, y, b)
      BY <1>1, <1>4 DEF Thrown
    <2>2. y.state = "rejected" /\ y.stage = x.stage
      BY <2>1 DEF Ended, Elsewhere
    <2>3. RejectsListing(y)
      BY <1>4, <2>2 DEF RejectsListing
    <2>4. ASSUME NEW i \in Item, CopyOf(i, r) \in aws => Excused(x, i, r), CopyOf(i, r) \in aws'
          PROVE  Excused(y, i, r)
      <3>1. Excused(x, i, r)
        BY <1>3, <1>4, <2>4
      <3>2. x.stage # CopyStage(i) /\ x.stage # DeleteStage(i)
        BY <1>4, StagesOfItems
      <3> QED BY <1>1, <1>2, <3>1, <3>2 DEF Excused
    <2> QED BY <2>3, <2>4
  <1>5. ASSUME NEW j \in Item, x.stage = CopyStage(j), BackupOf(j) \in x.seen,
               ~c.own, c = Copy("restore", j) \/ c.kind \notin Changing,
               Stages[x.stage].catch = 1
        PROVE  Goal
    <2>1. x.state # "rejected" /\ Stages[x.stage].catch # 0
      BY <1>2, <1>5, StagesOfItems DEF RejectsListing
    <2>2. PICK why : Entered(y, x.stage + 1, x.seen \cup {<<why, 0>>})
      BY Zenon, <1>1, <1>5, <2>1 DEF Thrown
    <2>3. x.stage + 1 = DeleteStage(j)
      BY <1>5, StagesOfItems
    <2>4. PICK seen : /\ Entered(y, DeleteStage(j), seen) /\ BackupOf(j) \in seen
                      /\ x.seen \subseteq seen
      BY <1>5, <2>2, <2>3
    <2>5. y.at[1] = 1
      BY <2>4, EntersDeletion
    <2>6. y.state = "running" /\ y.stage = DeleteStage(j) /\ y.seen = seen
      BY <2>4 DEF Entered
    <2>7. RejectsListing(y)
      BY <2>6 DEF RejectsListing
    <2>8. ASSUME NEW i \in Item, CopyOf(i, r) \in aws => Excused(x, i, r), CopyOf(i, r) \in aws'
          PROVE  Excused(y, i, r)
      <3>1. CASE i = j
        BY <2>4, <2>5, <2>6, <3>1 DEF Excused
      <3>2. CASE i # j
        <4>1. Resource(Copy("restore", j), r) # CopyOf(i, r)
          <5>1. Resource(Copy("restore", j), r) = CopyOf(j, r)
            BY CopiesDiffer
          <5>2. CopyOf(j, r) # CopyOf(i, r)
            <6>1. CopyOf(j, r) = CopyOf(i, r) => j = i
              BY CopiesDiffer
            <6> QED BY <3>2, <6>1
          <5> QED BY <5>1, <5>2
        <4>2. Excused(x, i, r)
          BY <1>3, <1>5, <2>8, <4>1
        <4>3. x.stage # CopyStage(i) /\ x.stage # DeleteStage(i)
          BY <1>5, <3>2, StagesOfItems
        <4> QED BY <1>1, <1>2, <4>2, <4>3 DEF Excused
      <3> QED BY <3>1, <3>2
    <2> QED BY <2>7, <2>8
  <1>6. ASSUME NEW j \in Item, x.stage = DeleteStage(j), c = Deletion(j)
        PROVE  Goal
    <2>1. Resource(c, r) = CopyOf(j, r) /\ c.kind = "delete" /\ c.own
      BY <1>6, CopiesDiffer
    <2>2. y.state = x.state /\ y.stage = x.stage /\ y.seen = x.seen
      BY <1>1, <2>1 DEF Thrown, Advanced, Elsewhere
    <2>3. RejectsListing(y)
      BY <1>2, <2>2 DEF RejectsListing
    <2>4. ASSUME NEW i \in Item, CopyOf(i, r) \in aws => Excused(x, i, r), CopyOf(i, r) \in aws'
          PROVE  Excused(y, i, r)
      <3>1. CASE i = j
        BY <1>1, <2>1, <3>1 DEF Excused
      <3>2. CASE i # j
        <4>1. Excused(x, i, r)
          BY <1>3, <2>1, <2>4
        <4>2. x.stage # CopyStage(i) /\ x.stage # DeleteStage(i)
          BY <1>6, <3>2, StagesOfItems
        <4> QED BY <1>1, <2>2, <4>1, <4>2 DEF Excused
      <3> QED BY <3>1, <3>2
    <2> QED BY <2>3, <2>4
  <1>7. Goal
    BY <1>1, <1>4, <1>5, <1>6, VerifyCall
  <1> QED BY <1>7 DEF x, y

LEMMA CopyElse ==
  ASSUME Shape, Verifying, NEW r \in Run, Started(r) \/ Continued(r) \/ Over(r),
         RejectsListing(run[r])
  PROVE  /\ RejectsListing(run'[r])
         /\ \A i \in Item : Excused(run[r], i, r) => Excused(run'[r], i, r)
  <1>1. CASE Started(r)
    <2>1. run[r] = Idle /\ run'[r].state = "running"
      BY <1>1 DEF Started, Shape, Entered
    <2>2. \A i \in Item : ~Excused(run[r], i, r)
      BY <2>1 DEF Excused, Idle
    <2> QED BY <2>1, <2>2 DEF RejectsListing
  <1>2. CASE Over(r)
    <2>1. /\ run'[r].stage = run[r].stage /\ run'[r].failed = run[r].failed
          /\ \/ run'[r].state = "killed"
             \/ /\ run'[r].state = "resolved" /\ run[r].state = "running"
                /\ run[r].stage > Len(Stages)
      BY Zenon, <1>2 DEF Over
    <2>2. ASSUME NEW i \in Item, Excused(run[r], i, r)
          PROVE  Excused(run'[r], i, r)
      <3>1. CASE run'[r].state = "killed"
        BY <3>1 DEF Excused
      <3>2. CASE run[r].stage > Len(Stages) /\ run[r].state = "running"
        <4>1. Len(Stages) = 3 * Count + 1
          BY JobsAreScripts, VerifyScript DEF Stages, Verifying
        <4>2. CopyStage(i) <= 3 * Count /\ DeleteStage(i) <= 3 * Count
          BY StagesOfItems
        <4>3. CopyStage(i) \in Int /\ DeleteStage(i) \in Int /\ 3 * Count \in Int
          <5>1. ListStage(i) \in Nat /\ CopyStage(i) = ListStage(i) + 1
                /\ DeleteStage(i) = CopyStage(i) + 1
            BY StagesOfItems
          <5>2. Count \in Nat
            BY Items
          <5> QED BY <5>1, <5>2
        <4>4. run[r].stage # CopyStage(i) /\ run[r].stage # DeleteStage(i)
          BY <3>2, <4>1, <4>2, <4>3
        <4> QED BY <2>1, <2>2, <3>2, <4>4 DEF Excused
      <3> QED BY <2>1, <3>1, <3>2
    <2>3. run'[r].state # "rejected"
      BY <2>1
    <2> QED BY <2>2, <2>3 DEF RejectsListing
  <1>3. CASE Continued(r)
    <2>1. PICK n : n = run[r].stage
      OBVIOUS
    <2>2. /\ n \in 1 .. Len(Stages) /\ run[r].state = "running"
          /\ run'[r].failed = run[r].failed
      BY <1>3, <2>1 DEF Continued
    <2>3. /\ Stages[n].next = 1 /\ Stages[n].rethrow = {}
          /\ \/ n = ListStage(Count + 1)
             \/ \E i \in Item : n \in {ListStage(i), CopyStage(i), DeleteStage(i)}
      BY <2>2, VerifyContinues
    <2>4. Entered(run'[r], n + 1, run[r].seen)
      BY Zenon, <1>3, <2>1, <2>3 DEF Continued
    <2>5. /\ run'[r].state = "running" /\ run'[r].stage = n + 1
          /\ run'[r].seen = run[r].seen
      BY <2>4 DEF Entered
    <2>6. ASSUME NEW i \in Item, Excused(run[r], i, r)
          PROVE  Excused(run'[r], i, r)
      <3>1. CASE n = CopyStage(i) /\ BackupOf(i) \in run[r].seen
        <4>1. n + 1 = DeleteStage(i)
          BY <3>1, StagesOfItems
        <4>2. run'[r].at[1] = 1
          BY <2>4, <3>1, <4>1, EntersDeletion
        <4> QED BY <2>5, <3>1, <4>1, <4>2 DEF Excused
      <3>2. CASE n = DeleteStage(i)
        <4>1. Stages = VerifyBackups
          BY JobsAreScripts DEF Stages, Verifying
        <4>2. Stages[n] = VerifyTable(i)[3]
          BY <3>2, <4>1, VerifyScript
        <4>3. DOMAIN Stages[n].branches = {1} /\ Len(Stages[n].branches[1]) = 1
          BY <4>2, TableScript
        <4>4. RunShape(run[r]) /\ n <= Len(Stages)
          BY <2>2, VerifyScript, Items, <4>1 DEF Shape
        <4>5. 1 \in DOMAIN run[r].at
          BY <2>1, <2>2, <4>3, <4>4 DEF RunShape
        <4>6. run[r].at[1] = Len(Stages[n].branches[1]) + 1
          BY Zenon, <1>3, <2>1, <4>5 DEF Continued
        <4>7. run[r].at[1] # 1 /\ n # CopyStage(i)
          BY <3>2, <4>3, <4>6, StagesOfItems
        <4> QED BY <2>1, <2>2, <2>6, <4>7 DEF Excused
      <3>3. CASE n # DeleteStage(i) /\ ~(n = CopyStage(i) /\ BackupOf(i) \in run[r].seen)
        BY <2>1, <2>2, <2>6, <3>3 DEF Excused
      <3> QED BY <3>1, <3>2, <3>3
    <2> QED BY <2>5, <2>6 DEF RejectsListing
  <1> QED BY <1>1, <1>2, <1>3

LEMMA CopyStep ==
  ASSUME Shape, CopyInv, [Next]_vars
  PROVE  CopyInv'
  <1>1. scenario' = scenario
    BY EveryStep DEF Only
  <1>2. Verifying' <=> Verifying
    BY <1>1 DEF Verifying, job
  <1> DEFINE Sound(r) == /\ Verifying => RejectsListing(run'[r])
                         /\ \A i \in Item : CopyOf(i, r) \in aws' =>
                              Verifying /\ Excused(run'[r], i, r)
  <1>3. CASE run' = run /\ aws' = aws
    BY <1>2, <1>3 DEF CopyInv, RejectsListing, Excused, CopyOf, ListStage, Resource,
       CopyStage, DeleteStage, BackupOf
  <1>4. ASSUME NEW q \in Run, Only(q),
               \/ Started(q) \/ Continued(q) \/ Over(q)
               \/ \E b, c : Settled(q, b, c) \/ Threw(q, b, c)
        PROVE  \A r \in Run : Sound(r)
    <2>1. \/ aws' = aws
          \/ \E b, c : Called(run[q], b, c) /\ Effect(c, q)
      BY Zenon, <1>4 DEF Started, Continued, Over, Settled, Threw
    <2>2. ASSUME NEW r \in Run, NEW i \in Item, CopyOf(i, r) \in aws', CopyOf(i, r) \notin aws
          PROVE  q = r /\ Verifying
      <3>1. PICK b, c : Called(run[q], b, c) /\ Effect(c, q)
        BY <2>1, <2>2
      <3>2. Resource(c, q) = CopyOf(i, r)
        BY <2>2, <3>1, CopiesMade
      <3> QED BY <3>1, <3>2, CopiesOwned, CopiesNothing
    <2>3. ASSUME NEW r \in Run
          PROVE  Sound(r)
      <3>1. /\ Verifying => RejectsListing(run[r])
            /\ \A i \in Item : CopyOf(i, r) \in aws => Verifying /\ Excused(run[r], i, r)
        BY DEF CopyInv
      <3>2. CASE r # q
        <4>1. run'[r] = run[r]
          BY <1>4, <3>2 DEF Only
        <4> QED BY <2>2, <3>1, <3>2, <4>1
      <3>3. CASE ~Verifying
        BY <2>2, <3>1, <3>3
      <3>4. CASE r = q /\ Verifying
        <4>1. ASSUME NEW b, NEW c, Settled(q, b, c)
              PROVE  Sound(q)
          <5>1. run'[q].state = run[q].state /\ run'[q].stage = run[q].stage
            BY <4>1 DEF Settled, Advanced, Elsewhere
          <5>2. RejectsListing(run'[q])
            BY <3>1, <3>4, <5>1 DEF RejectsListing
          <5> QED BY <3>1, <3>4, <4>1, <5>2, CopySettled
        <4>2. ASSUME NEW b, NEW c, Threw(q, b, c)
              PROVE  Sound(q)
          BY <3>1, <3>4, <4>2, CopyThrew
        <4>3. CASE Started(q) \/ Continued(q) \/ Over(q)
          <5>1. aws' = aws
            BY Zenon, <4>3 DEF Started, Continued, Over
          <5> QED BY <3>1, <3>4, <4>3, <5>1, CopyElse
        <4> HIDE DEF Sound
        <4> QED BY <1>4, <3>4, <4>1, <4>2, <4>3
      <3> QED BY <3>2, <3>3, <3>4
    <2> QED BY <2>3
  <1>5. \A r \in Run : Sound(r)
    <2>1. CASE run' = run /\ aws' = aws
      BY <2>1 DEF CopyInv
    <2> HIDE DEF Sound
    <2> QED BY <1>4, <2>1, EveryStep
  <1> QED BY <1>2, <1>5 DEF CopyInv, RejectsListing, Excused, CopyOf, ListStage, Resource,
             CopyStage, DeleteStage, BackupOf

LEMMA CopyInit ==
  ASSUME Init
  PROVE  CopyInv
  <1>1. ASSUME NEW i, NEW r, CopyOf(i, r) \in aws
        PROVE  FALSE
    <2>1. PICK c \in {d \in Calls(scenario.job) :
                       d.kind \in {"list", "delete"} /\ d.of # "copy"},
               k \in scenario.items : CopyOf(i, r) = <<c.of, k>>
      BY <1>1 DEF Init, Found
    <2>2. CopyOf(i, r)[1] = "copy"
      BY DEF CopyOf
    <2> QED BY <2>1, <2>2
  <1>2. \A r \in Run : run[r] = Idle
    BY DEF Init
  <1> QED BY <1>1, <1>2 DEF CopyInv, RejectsListing, Idle

(* A verification that is over leaves a copy behind only where it could    *)
(* not delete it, whatever failed before.                                  *)
THEOREM CopiesCleanedUp == Spec => []CopiesAreCleanedUp
  <1>1. Init => Shape /\ CopyInv
    BY ShapeInit, CopyInit
  <1>2. Shape /\ CopyInv /\ [Next]_vars => (Shape /\ CopyInv)'
    BY ShapeStep, CopyStep
  <1>3. CopyInv => CopiesAreCleanedUp
    BY DEF CopyInv, Excused, CopiesAreCleanedUp, CopyOf
  <1> QED BY <1>1, <1>2, <1>3, PTL DEF Spec
-----------------------------------------------------------------------------
(* Runs by themselves.  What a careful script creates is neither listed nor  *)
(* deleted by it, what it deletes it has listed, and no two of its calls    *)
(* create, restore or delete the same thing.                               *)

IsCall(S, n, b, k) ==
  n \in DOMAIN S /\ b \in DOMAIN S[n].branches /\ k \in DOMAIN S[n].branches[b]
CallAt(S, n, b, k) == S[n].branches[b][k]
(* A run is past the k-th call of branch b of stage n.                     *)
Passed(x, n, b, k) == n < x.stage \/ (n = x.stage /\ k < x.at[b])

LEMMA BranchIs ==
  ASSUME NEW X, NEW b, Branch(X, b)
  PROVE  /\ \E C : b \in Seq(C)
         /\ Len(b) \in Nat /\ DOMAIN b = 1 .. Len(b)
         /\ \A k \in 1 .. Len(b) : Spared(X, b[k])
  <1>1. PICK C : b \in Seq(C) /\ \A c \in C : Spared(X, c)
    BY DEF Branch
  <1> QED BY <1>1

Names == {"failed", "refused"}
CarefulCall(S, n, b, k) ==
  LET c == CallAt(S, n, b, k)
  IN /\ c.kind # "scan"
     /\ c.kind = "list" => c.of \notin Names
     /\ c.kind = "delete" => c.item # 0 /\ <<c.of, c.item>> \in c.needs
     /\ c.kind \in {"create", "delete"} => c.of # "copy"
Meets(c, d) ==
  \/ c.kind = "create" /\ d.kind \in {"list", "delete"} /\ d.of = c.of
  \/ c.kind \in {"create", "delete"} /\ d.kind \in Changing /\ d.of = c.of /\ d.item = c.item
Careful(S) ==
  /\ \A n \in DOMAIN S : S[n].rethrow \subseteq Markers
  /\ \A n, b, k : IsCall(S, n, b, k) => CarefulCall(S, n, b, k)
  /\ \A n, b, k, m, a, l :
       IsCall(S, n, b, k) /\ IsCall(S, m, a, l) /\ Meets(CallAt(S, n, b, k), CallAt(S, m, a, l)) =>
         n = m /\ b = a /\ k = l

(* A branch that creates, restores or deletes only what is in T, each thing *)
(* once.                                                                   *)
Makes(T, p) ==
  /\ \E C : p \in Seq(C)
  /\ \A k \in 1 .. Len(p) : p[k].kind \in Changing => p[k].of \in T
  /\ \A k, l \in 1 .. Len(p) :
       /\ p[k].kind \in Changing /\ p[l].kind \in Changing
       /\ p[k].of = p[l].of /\ p[k].item = p[l].item
       => k = l

LEMMA SparedAt ==
  ASSUME NEW X, NEW S, Spares(X, S), NEW n, NEW b, NEW k, IsCall(S, n, b, k)
  PROVE  /\ Spared(X, CallAt(S, n, b, k)) /\ n \in 1 .. Len(S)
         /\ b \in DOMAIN S[n].branches /\ k \in 1 .. Len(S[n].branches[b])
  <1>1. n \in 1 .. Len(S) /\ b \in DOMAIN S[n].branches /\ k \in DOMAIN S[n].branches[b]
    BY StagesFit DEF IsCall
  <1> QED BY <1>1, CallOf, BranchOf DEF CallAt

LEMMA RethrowOf ==
  ASSUME NEW X, NEW S, Spares(X, S)
  PROVE  \A n \in DOMAIN S : S[n].rethrow \subseteq Markers
  BY StagesFit, StageOf DEF StageFits

Calm == [Nothing EXCEPT !.kind = {"create", "delete", "scan"}, !.list = Names]
Creating(T) == [Nothing EXCEPT !.kind = {"delete", "restore", "scan"}, !.list = T \cup Names]
Still == [Nothing EXCEPT !.kind = Changing]

LEMMA CalmIs ==
  /\ Usual(Calm) /\ Harmless(Calm) /\ Calm.catch = {} /\ Calm.need = {}
  /\ Calm.kind = {"create", "delete", "scan"} /\ Calm.list = Names
  BY DEF Calm, Nothing, Usual, Harmless

LEMMA CreatingIs ==
  ASSUME NEW T
  PROVE  /\ Usual(Creating(T)) /\ Harmless(Creating(T)) /\ Creating(T).catch = {}
         /\ Creating(T).need = {} /\ Creating(T).of = {}
         /\ Creating(T).kind = {"delete", "restore", "scan"}
         /\ Creating(T).list = T \cup Names
  BY DEF Creating, Nothing, Usual, Harmless

LEMMA StillIs ==
  /\ Usual(Still) /\ Still.of = {} /\ Still.catch = {} /\ Still.need = {} /\ Still.list = {}
  /\ Still.kind = Changing
  BY DEF Still, Nothing, Usual, Changing

LEMMA CalmIsCareful ==
  ASSUME NEW S, Spares(Calm, S)
  PROVE  Careful(S)
  <1>1. ASSUME NEW n, NEW b, NEW k, IsCall(S, n, b, k)
        PROVE  /\ CallAt(S, n, b, k).kind \notin {"create", "delete", "scan"}
               /\ CallAt(S, n, b, k).kind = "list" => CallAt(S, n, b, k).of \notin Names
    BY <1>1, SparedAt, CalmIs DEF Spared
  <1>2. \A n \in DOMAIN S : S[n].rethrow \subseteq Markers
    BY RethrowOf
  <1> QED BY <1>1, <1>2 DEF Careful, CarefulCall, Meets

LEMMA MakesNothing ==
  ASSUME NEW X, Changing \subseteq X.kind, NEW p, Branch(X, p)
  PROVE  Makes({}, p)
  <1>1. (\E C : p \in Seq(C)) /\ \A k \in 1 .. Len(p) : Spared(X, p[k])
    BY BranchIs
  <1>2. \A k \in 1 .. Len(p) : p[k].kind \notin Changing
    BY <1>1 DEF Spared
  <1> QED BY <1>1, <1>2 DEF Makes

LEMMA MakesJoined ==
  ASSUME NEW P, NEW Q, P \cap Q = {}, NEW p, Makes(P, p), NEW q, Makes(Q, q)
  PROVE  Makes(P \cup Q, p \o q)
  <1>1. PICK C, D : p \in Seq(C) /\ q \in Seq(D)
    BY DEF Makes
  <1> DEFINE E == C \cup D
  <1>2. p \in Seq(E) /\ q \in Seq(E)
    BY <1>1
  <1> HIDE DEF E
  <1>3. p \o q \in Seq(E) /\ Len(p \o q) = Len(p) + Len(q) /\ Len(p) \in Nat /\ Len(q) \in Nat
    BY <1>2
  <1>4. ASSUME NEW k \in 1 .. Len(p \o q)
        PROVE  \/ k \in 1 .. Len(p) /\ (p \o q)[k] = p[k]
               \/ k - Len(p) \in 1 .. Len(q) /\ (p \o q)[k] = q[k - Len(p)]
    BY <1>2, <1>3
  <1> DEFINE r == p \o q
  <1>5. \A k \in 1 .. Len(r) : r[k].kind \in Changing =>
          \/ k \in 1 .. Len(p) /\ r[k] = p[k] /\ r[k].of \in P
          \/ k - Len(p) \in 1 .. Len(q) /\ r[k] = q[k - Len(p)] /\ r[k].of \in Q
    BY <1>4 DEF Makes
  <1>6. Len(r) \in Nat
    BY <1>3
  <1> HIDE DEF r
  <1>7. ASSUME NEW k \in 1 .. Len(r), NEW l \in 1 .. Len(r),
               r[k].kind \in Changing, r[l].kind \in Changing,
               r[k].of = r[l].of, r[k].item = r[l].item
        PROVE  k = l
    <2>1. CASE k \in 1 .. Len(p) /\ r[k] = p[k] /\ r[k].of \in P
      <3>1. l \in 1 .. Len(p) /\ r[l] = p[l]
        BY <1>5, <1>7, <2>1
      <3> QED BY <1>7, <2>1, <3>1 DEF Makes
    <2>2. CASE k - Len(p) \in 1 .. Len(q) /\ r[k] = q[k - Len(p)] /\ r[k].of \in Q
      <3>1. l - Len(p) \in 1 .. Len(q) /\ r[l] = q[l - Len(p)]
        BY <1>5, <1>7, <2>2
      <3>2. k - Len(p) = l - Len(p)
        BY <1>7, <2>2, <3>1 DEF Makes
      <3> QED BY <1>3, <1>6, <3>2
    <2> QED BY <1>5, <1>7, <2>1, <2>2
  <1> QED BY <1>3, <1>5, <1>7 DEF Makes, r

LEMMA MakesMore ==
  ASSUME NEW T, NEW p, Makes(T, p), NEW q, Branch(Still, q)
  PROVE  Makes(T, p \o q) /\ Makes(T, q \o p)
  <1>1. Makes({}, q)
    BY StillIs, MakesNothing
  <1>2. T \cap {} = {} /\ {} \cap T = {} /\ T \cup {} = T /\ {} \cup T = T
    OBVIOUS
  <1> QED BY <1>1, <1>2, MakesJoined

LEMMA MakesOne ==
  ASSUME NEW of
  PROVE  Makes({of}, <<Create(of)>>)
  <1> DEFINE c == Create(of)
             p == <<c>>
  <1>1. c.of = of
    BY DEF Create, Call
  <1> HIDE DEF c
  <1>2. p \in Seq({c}) /\ Len(p) = 1 /\ p[1] = c
    OBVIOUS
  <1> HIDE DEF p
  <1>3. Makes({of}, p)
    BY <1>1, <1>2 DEF Makes
  <1> QED BY <1>3 DEF p, c

PerItem(of, p) ==
  /\ \E C : p \in [Item -> C]
  /\ \A i \in Item : p[i].of = of /\ p[i].item = i

LEMMA MakesForItems ==
  ASSUME NEW of, NEW p, PerItem(of, p)
  PROVE  Makes({of}, p)
  <1>1. PICK C : p \in [1 .. Count -> C] /\ Count \in Nat /\ Item = 1 .. Count
    BY Items DEF PerItem
  <1>2. p \in Seq(C) /\ Len(p) = Count
    BY <1>1
  <1> QED BY <1>1, <1>2 DEF Makes, PerItem

(* The script creates only in its branch b of its stage s, only things of T. *)
LEMMA CreatorIsCareful ==
  ASSUME NEW T, "copy" \notin T, NEW S, Spares(Creating(T), S), NEW s, NEW q,
         \A n \in DOMAIN S : \A b \in DOMAIN S[n].branches :
           Makes(IF n = s /\ b = q THEN T ELSE {}, S[n].branches[b])
  PROVE  Careful(S)
  <1>1. ASSUME NEW n, NEW b, NEW k, IsCall(S, n, b, k)
        PROVE  LET c == CallAt(S, n, b, k)
               IN /\ c.kind \notin {"delete", "restore", "scan"}
                  /\ c.kind = "list" => c.of \notin T /\ c.of \notin Names
                  /\ c.kind = "create" => c.of \in T /\ n = s /\ b = q
    <2>1. /\ Spared(Creating(T), CallAt(S, n, b, k)) /\ n \in DOMAIN S
          /\ b \in DOMAIN S[n].branches /\ k \in 1 .. Len(S[n].branches[b])
      BY <1>1, SparedAt DEF IsCall
    <2>2. Makes(IF n = s /\ b = q THEN T ELSE {}, S[n].branches[b])
      BY <2>1
    <2>3. CallAt(S, n, b, k).kind = "create" =>
            CallAt(S, n, b, k).of \in IF n = s /\ b = q THEN T ELSE {}
      BY <2>1, <2>2 DEF Makes, CallAt, Changing
    <2> QED BY <2>1, <2>3, CreatingIs DEF Spared
  <1>2. ASSUME NEW n, NEW b, NEW k, NEW m, NEW a, NEW l,
               IsCall(S, n, b, k), IsCall(S, m, a, l),
               Meets(CallAt(S, n, b, k), CallAt(S, m, a, l))
        PROVE  n = m /\ b = a /\ k = l
    <2> DEFINE c == CallAt(S, n, b, k)
               d == CallAt(S, m, a, l)
    <2>1. c.kind = "create" /\ d.kind = "create" /\ c.of = d.of /\ c.item = d.item
      <3>1. /\ c.kind \notin {"delete", "restore", "scan"}
            /\ d.kind \notin {"delete", "restore", "scan"}
            /\ c.kind = "create" => c.of \in T
            /\ d.kind = "list" => d.of \notin T
        BY <1>1, <1>2
      <3> HIDE DEF c, d
      <3>2. Meets(c, d)
        BY <1>2 DEF c, d
      <3> QED BY <3>1, <3>2 DEF Meets, Changing
    <2>2. n = s /\ b = q /\ m = s /\ a = q
      BY <1>1, <1>2, <2>1
    <2>3. Makes(T, S[s].branches[q]) /\ k \in 1 .. Len(S[s].branches[q])
          /\ l \in 1 .. Len(S[s].branches[q])
      BY <1>2, <2>2, SparedAt DEF IsCall
    <2>4. k = l
      BY <2>1, <2>2, <2>3 DEF Makes, CallAt, Changing
    <2> QED BY <2>2, <2>4
  <1>3. ASSUME NEW n, NEW b, NEW k, IsCall(S, n, b, k)
        PROVE  CarefulCall(S, n, b, k)
    BY <1>1, <1>3 DEF CarefulCall
  <1>4. \A n \in DOMAIN S : S[n].rethrow \subseteq Markers
    BY RethrowOf
  <1> QED BY <1>2, <1>3, <1>4 DEF Careful

LEMMA OneBranchIsCareful ==
  ASSUME NEW T, "copy" \notin T, NEW p, Makes(T, p), Spares(Creating(T), <<Do(p)>>)
  PROVE  Careful(<<Do(p)>>)
  <1> DEFINE S == <<Do(p)>>
  <1>1. DOMAIN S = {1} /\ DOMAIN S[1].branches = {1} /\ S[1].branches[1] = p
    <2>1. Do(p).branches = <<p>>
      BY DEF Do, Stage
    <2>2. DOMAIN S = {1} /\ S[1] = Do(p)
      BY Single
    <2> QED BY <2>1, <2>2, Single
  <1> HIDE DEF S
  <1>2. \A n \in DOMAIN S : \A b \in DOMAIN S[n].branches :
           Makes(IF n = 1 /\ b = 1 THEN T ELSE {}, S[n].branches[b])
    BY <1>1
  <1>3. Spares(Creating(T), S)
    BY DEF S
  <1>4. Careful(S)
    BY <1>2, <1>3, CreatorIsCareful
  <1> QED BY <1>4 DEF S

LEMMA MakesAmong ==
  ASSUME NEW of, NEW p, NEW C, p \in Seq(C), NEW j \in 1 .. Len(p), p[j] = Create(of),
         \A k \in 1 .. Len(p) \ {j} : p[k].kind \notin Changing
  PROVE  Makes({of}, p)
  <1>1. Create(of).of = of
    BY DEF Create, Call
  <1>2. \A k \in 1 .. Len(p) : p[k].kind \in Changing => k = j
    OBVIOUS
  <1> QED BY <1>1, <1>2 DEF Makes

LEMMA MakesFirst ==
  ASSUME NEW of, NEW c, Spared(Still, c)
  PROVE  Makes({of}, <<Create(of), c>>)
  <1> DEFINE e == Create(of)
             p == <<e, c>>
             C == {c, e}
  <1>1. c.kind \notin Changing
    BY StillIs DEF Spared
  <1> HIDE DEF e
  <1>2. p \in Seq(C) /\ Len(p) = 2 /\ p[1] = e /\ p[2] = c /\ 1 \in 1 .. Len(p)
    OBVIOUS
  <1> HIDE DEF p, C
  <1>3. \A k \in 1 .. Len(p) \ {1} : p[k].kind \notin Changing
    <2>1. \A k \in 1 .. 2 : k = 1 \/ k = 2
      OBVIOUS
    <2> QED BY <1>1, <1>2, <2>1
  <1>4. Makes({of}, p)
    BY <1>2, <1>3, MakesAmong DEF e
  <1> QED BY <1>4 DEF p, e

(* Script by script.                                                       *)
LEMMA StillCalls ==
  ASSUME NEW of
  PROVE  Spared(Still, Read(of)) /\ Spared(Still, Put(of)) /\ Spared(Still, Stub(of))
         /\ Spared(Still, List(of)) /\ Spared(Still, Local(of))
         /\ Spared(Still, Broken(of))
  <1>1. "list" \notin Still.kind
    BY StillIs DEF Changing
  <1> QED BY <1>1, StillIs, PlainCalls

LEMMA StillLoops ==
  ASSUME NEW of, NEW type
  PROVE  /\ Branch(Still, [i \in Item |-> Listed(Put(of), type, i)])
         /\ Branch(Still, [i \in Item |-> Listed(Read(of), type, i)])
         /\ Branch(Still, [i \in Item |-> For(Put(of), i)])
  <1>1. /\ Branch(Still, [i \in Item |-> Listed(Put(of), type, i)])
        /\ Branch(Still, [i \in Item |-> Listed(Read(of), type, i)])
    <2>1. of \notin Still.of /\ type \notin Still.need
      BY StillIs
    <2> QED BY <2>1, StillIs, UsualLoops
  <1>2. Branch(Still, [i \in Item |-> For(Put(of), i)])
    BY StillCalls, Loops
  <1> QED BY <1>1, <1>2

LEMMA MakesLoop ==
  ASSUME NEW of
  PROVE  /\ Makes({of}, [i \in Item |-> For(Create(of), i)])
         /\ Makes({of}, [i \in Item |-> For(Swallowed(Create(of)), i)])
  <1> DEFINE p == [i \in Item |-> For(Create(of), i)]
             q == [i \in Item |-> For(Swallowed(Create(of)), i)]
  <1>1. \A i \in Item : p[i].of = of /\ p[i].item = i /\ q[i].of = of /\ q[i].item = i
    BY DEF For, Create, Call, Swallowed
  <1> DEFINE C == {p[i] : i \in Item}
             D == {q[i] : i \in Item}
  <1>2. p \in [Item -> C] /\ q \in [Item -> D]
    OBVIOUS
  <1> HIDE DEF p, q, C, D
  <1>3. PerItem(of, p) /\ PerItem(of, q)
    BY <1>1, <1>2 DEF PerItem
  <1> QED BY <1>3, MakesForItems DEF p, q

LEMMA MakesBoth ==
  ASSUME NEW v, NEW w, v # w, NEW c, Spared(Still, c)
  PROVE  Makes({v, w}, <<Create(v), Create(w), c>>)
  <1> DEFINE e == Create(v)
             f == Create(w)
             p == <<e, f, c>>
             C == {c, e, f}
  <1>1. c.kind \notin Changing /\ e.of = v /\ f.of = w
    BY StillIs DEF Spared, Create, Call
  <1> HIDE DEF e, f
  <1>2. p \in Seq(C) /\ Len(p) = 3 /\ p[1] = e /\ p[2] = f /\ p[3] = c
    OBVIOUS
  <1> HIDE DEF p, C
  <1>3. \A k \in 1 .. 3 : k = 1 \/ k = 2 \/ k = 3
    OBVIOUS
  <1>4. \A k \in 1 .. 3 : p[k].kind \in Changing =>
          (k = 1 /\ p[k].of = v) \/ (k = 2 /\ p[k].of = w)
    BY <1>1, <1>2, <1>3
  <1>5. Makes({v, w}, p)
    BY <1>2, <1>4 DEF Makes
  <1> QED BY <1>5 DEF p, e, f

LEMMA SetupBackupStrategyIsCareful == Careful(SetupBackupStrategy)
  <1> DEFINE v == "backup vault"
             w == "backup plan"
             p == <<Create("backup vault"), Create("backup plan"), List("table")>>
             q == [i \in Item |-> Listed(Read("table description"), "table", i)]
             r == <<List("database")>>
             s == [i \in Item |-> Listed(Put("table selection"), "table", i)]
             t == [i \in Item |-> Listed(Put("database selection"), "database", i)]
             u == <<Stub("configureRetentionRules"), Stub("setupCrossRegionCopy")>>
             T == {v, w}
             X == Creating(T)
  <1>1. v # w /\ v \notin {"table", "database", "copy"} /\ w \notin {"table", "database", "copy"}
    BY Zenon
  <1>2. p = <<Create(v), Create(w), List("table")>>
    BY Zenon
  <1>3. /\ Branch(Still, q) /\ Branch(Still, r) /\ Branch(Still, s) /\ Branch(Still, t)
        /\ Branch(Still, u)
    BY StillLoops, StillCalls, OneCall, TwoCalls
  <1>4. SetupBackupStrategy = <<Do(p \o q \o r \o s \o t \o u)>>
    BY DEF SetupBackupStrategy
  <1> HIDE DEF p, q, r, s, t, u, v, w
  <1>5. Makes(T, p)
    BY <1>1, <1>2, MakesBoth, StillCalls
  <1>6. "copy" \notin T /\ T \cap {"table", "database"} = {}
    BY <1>1
  <1> HIDE DEF T
  <1>7. Makes(T, p \o q \o r \o s \o t \o u)
    BY <1>3, <1>5, MakesMore
  <1>8. Spares(X, SetupBackupStrategy)
    <2>1. /\ Harmless(X) /\ "create" \notin X.kind /\ "list" \notin X.kind
          /\ X.list \cap {"table", "database"} = {}
      BY <1>6, CreatingIs DEF Names
    <2> HIDE DEF X
    <2> QED BY <2>1, SetupBackupStrategyFits
  <1> QED BY <1>4, <1>6, <1>7, <1>8, OneBranchIsCareful

LEMMA SetupFailoverIsCareful == Careful(SetupFailover)
  <1> DEFINE p == [i \in Item |-> For(Create("global table"), i)]
             q == <<Put("dns health check"), Broken("region health check")>>
             T == {"global table"}
             X == Creating(T)
  <1>1. "copy" \notin T
    OBVIOUS
  <1>2. Makes(T, p) /\ Branch(Still, q)
    BY MakesLoop, StillCalls, TwoCalls
  <1>3. SetupFailover = <<Do(p \o q)>>
    BY DEF SetupFailover
  <1> HIDE DEF p, q, T
  <1>4. Spares(X, SetupFailover)
    <2>1. Harmless(X) /\ "create" \notin X.kind
      BY CreatingIs
    <2> HIDE DEF X
    <2> QED BY <2>1, SetupFailoverFits
  <1>5. Makes(T, p \o q)
    BY <1>2, MakesMore
  <1> QED BY <1>1, <1>3, <1>4, <1>5, OneBranchIsCareful

LEMMA SetupReplicationIsCareful == Careful(SetupReplication)
  <1> DEFINE p == [i \in Item |-> For(Create("global table"), i)]
             q == <<If("KMS key", Broken("KMSMasterKeyId"))>>
             T == {"global table"}
             X == Creating(T)
  <1>1. "copy" \notin T
    OBVIOUS
  <1>2. Makes(T, p)
    BY MakesLoop
  <1>3. Branch(Still, q)
    <2>1. "KMS key" \notin Still.need
      BY Zenon, StillIs
    <2>2. Spared(Still, If("KMS key", Broken("KMSMasterKeyId")))
      BY <2>1, StillCalls, Variants
    <2> QED BY <2>2, OneCall
  <1>4. SetupReplication = <<Do(q \o p)>>
    BY DEF SetupReplication
  <1> HIDE DEF p, q, T
  <1>5. Spares(X, SetupReplication)
    <2>1. Harmless(X) /\ "create" \notin X.kind
      BY CreatingIs
    <2> HIDE DEF X
    <2> QED BY <2>1, SetupReplicationFits
  <1>6. Makes(T, q \o p)
    BY <1>2, <1>3, MakesMore
  <1> QED BY <1>1, <1>4, <1>5, <1>6, OneBranchIsCareful

LEMMA CreateTablesIsCareful == Careful(CreateTables)
  <1> DEFINE p == [i \in Item |-> For(Swallowed(Create("table")), i)]
             T == {"table"}
             X == Creating(T)
  <1>1. "copy" \notin T
    OBVIOUS
  <1>2. Makes(T, p)
    BY MakesLoop
  <1>3. CreateTables = <<Do(p)>>
    BY DEF CreateTables
  <1> HIDE DEF p, T
  <1>4. Spares(X, CreateTables)
    <2>1. Harmless(X) /\ "create" \notin X.kind
      BY CreatingIs
    <2> HIDE DEF X
    <2> QED BY <2>1, CreateTablesFits
  <1> QED BY <1>1, <1>2, <1>3, <1>4, OneBranchIsCareful

LEMMA SetupAutoScalingIsCareful == Careful(SetupAutoScaling)
  <1> DEFINE p == <<Create("scaling group"), Broken("scaling policy")>>
             T == {"scaling group"}
             X == Creating(T)
  <1>1. "copy" \notin T
    OBVIOUS
  <1>2. Makes(T, p)
    BY MakesFirst, StillCalls
  <1>3. SetupAutoScaling = <<Do(p)>>
    BY DEF SetupAutoScaling
  <1> HIDE DEF p, T
  <1>4. Spares(X, SetupAutoScaling)
    <2>1. Harmless(X) /\ "create" \notin X.kind
      BY CreatingIs
    <2> HIDE DEF X
    <2> QED BY <2>1, SetupAutoScalingFits
  <1> QED BY <1>1, <1>2, <1>3, <1>4, OneBranchIsCareful

LEMMA SetupContinuousTestsIsCareful == Careful(SetupContinuousTests)
  <1> DEFINE p == <<Create("test function"), Broken("putRule")>>
             T == {"test function"}
             X == Creating(T)
  <1>1. "copy" \notin T
    OBVIOUS
  <1>2. Makes(T, p)
    BY MakesFirst, StillCalls
  <1>3. SetupContinuousTests = <<Do(p)>>
    BY DEF SetupContinuousTests
  <1> HIDE DEF p, T
  <1>4. Spares(X, SetupContinuousTests)
    <2>1. Harmless(X) /\ "create" \notin X.kind
      BY CreatingIs
    <2> HIDE DEF X
    <2> QED BY <2>1, SetupContinuousTestsFits
  <1> QED BY <1>1, <1>2, <1>3, <1>4, OneBranchIsCareful

LEMMA DeployIsCareful == Careful(Deploy)
  <1> DEFINE S == Deploy
             c == <<Create("stack")>>
             d == <<Local("template")>>
             e == <<If("refused", Put("stack update"))>>
             T == {"stack"}
             X == Creating(T)
  <1>1. Makes(T, c) /\ Makes({}, d) /\ Makes({}, e) /\ Makes({}, <<>>)
    <2>1. Branch(Still, d)
      BY StillCalls, OneCall
    <2>2. Branch(Still, e)
      <3>1. "refused" \notin Still.need /\ Spared(Still, Put("stack update"))
        BY StillIs, StillCalls
      <3> QED BY <3>1, Variants, OneCall
    <2>3. Makes({}, <<>>)
      BY DEF Makes
    <2>4. Changing \subseteq Still.kind
      BY StillIs
    <2> QED BY <2>1, <2>2, <2>3, <2>4, MakesNothing, MakesOne
  <1>2. S = <<Do(d), Try(c, 3, 1), Do(e), Rethrow({"failed"})>>
    BY DEF Deploy
  <1>3. "copy" \notin T
    OBVIOUS
  <1> HIDE DEF c, d, e, T, S
  <1>4. /\ DOMAIN S = 1 .. 4 /\ S[1].branches = <<d>> /\ S[2].branches = <<c>>
        /\ S[3].branches = <<e>> /\ S[4].branches = <<>>
    BY <1>2 DEF Try, Do, Rethrow, Stage
  <1>5. ASSUME NEW n \in DOMAIN S, NEW b \in DOMAIN S[n].branches
        PROVE  Makes(IF n = 2 /\ b = 1 THEN T ELSE {}, S[n].branches[b])
    <2>1. n = 1 \/ n = 2 \/ n = 3 \/ n = 4
      BY <1>4
    <2>2. DOMAIN <<c>> = {1} /\ DOMAIN <<d>> = {1} /\ DOMAIN <<e>> = {1}
          /\ <<c>>[1] = c /\ <<d>>[1] = d /\ <<e>>[1] = e /\ DOMAIN <<>> = {}
      OBVIOUS
    <2> QED BY <1>1, <1>4, <2>1, <2>2
  <1>6. Spares(X, S)
    <2>1. /\ Harmless(X) /\ "create" \notin X.kind /\ 1 \notin X.catch
          /\ "refused" \notin X.need
      BY CreatingIs
    <2> HIDE DEF X
    <2> QED BY <2>1, DeployFits DEF S
  <1> DEFINE two == 2
             one == 1
  <1>7. \A n \in DOMAIN S : \A b \in DOMAIN S[n].branches :
           Makes(IF n = two /\ b = one THEN T ELSE {}, S[n].branches[b])
    BY <1>5
  <1> HIDE DEF one, two
  <1>8. Careful(S)
    BY <1>3, <1>6, <1>7, CreatorIsCareful
  <1> QED BY <1>8 DEF S

(* Deletes what it has listed.                                             *)
Told(p) ==
  \A k \in 1 .. Len(p) :
    p[k].kind = "delete" => p[k].item # 0 /\ <<p[k].of, p[k].item>> \in p[k].needs

LEMMA DeleteLoop ==
  ASSUME NEW type
  PROVE  Makes({type}, Loop(type, Delete)) /\ Told(Loop(type, Delete))
  <1> DEFINE a == <<List(type)>>
             q == [i \in Item |-> Listed(Delete(type), type, i)]
             p == a \o q
             C == {q[i] : i \in Item}
  <1>1. \A i \in Item : /\ q[i].of = type /\ q[i].item = i /\ q[i].kind = "delete"
                        /\ <<type, i>> \in q[i].needs
    BY DEF Listed, Delete, Call
  <1>2. q \in [Item -> C]
    OBVIOUS
  <1>3. q \in [1 .. Count -> C] /\ Count \in Nat /\ Item = 1 .. Count
    BY Items
  <1> HIDE DEF q, C
  <1>4. Makes({type}, q)
    <2>1. PerItem(type, q)
      BY <1>1, <1>2 DEF PerItem
    <2> QED BY <2>1, MakesForItems
  <1>5. Branch(Still, a)
    BY StillCalls, OneCall
  <1>6. Makes({type}, p)
    <2> HIDE DEF a
    <2> QED BY <1>4, <1>5, MakesMore
  <1>7. Told(p)
    <2>1. a[1].kind = "list" /\ a \in Seq({List(type)}) /\ Len(a) = 1
      BY DEF List, Call
    <2>2. q \in Seq(C) /\ Len(q) = Count
      BY <1>3
    <2> DEFINE D == C \cup {List(type)}
    <2>3. a \in Seq(D) /\ q \in Seq(D)
      BY <2>1, <2>2
    <2> HIDE DEF a, D
    <2>4. ASSUME NEW k \in 1 .. Len(p)
          PROVE  \/ p[k].kind = "list"
                 \/ k - 1 \in Item /\ p[k] = q[k - 1]
      <3>1. \/ k \in 1 .. Len(a) /\ p[k] = a[k]
            \/ k - Len(a) \in 1 .. Len(q) /\ p[k] = q[k - Len(a)]
        BY <2>3
      <3> HIDE DEF p
      <3> QED BY <1>3, <2>1, <2>2, <3>1
    <2> HIDE DEF p
    <2>5. ASSUME NEW k \in 1 .. Len(p), p[k].kind = "delete"
          PROVE  p[k].item # 0 /\ <<p[k].of, p[k].item>> \in p[k].needs
      <3>1. k - 1 \in Item /\ p[k] = q[k - 1]
        BY <2>4, <2>5
      <3>2. k - 1 # 0
        BY <3>1, Items
      <3> QED BY <1>1, <3>1, <3>2
    <2> QED BY <2>5 DEF Told
  <1> HIDE DEF p
  <1>8. Makes({type}, p) /\ Told(p)
    BY <1>6, <1>7
  <1> QED BY <1>8 DEF p, a, q, Loop

LEMMA ToldNothing ==
  ASSUME NEW p, Branch(Still, p)
  PROVE  Told(p) /\ Makes({}, p)
  <1>1. (\E C : p \in Seq(C)) /\ \A k \in 1 .. Len(p) : Spared(Still, p[k])
    BY BranchIs
  <1>2. \A k \in 1 .. Len(p) : p[k].kind # "delete"
    BY <1>1, StillIs DEF Spared, Changing
  <1> QED BY <1>2, StillIs, MakesNothing DEF Told

LEMMA PerformCleanupIsCareful == Careful(PerformCleanup)
  <1> DEFINE B == <<Loop("stopped instance", Put), Loop("snapshot", Delete),
                    Loop("volume", Delete), <<Broken("describeLogGroups")>>,
                    <<Stub("cleanupOldMetrics")>> >>
             S == <<All(B)>>
             T == [b \in 1 .. 5 |-> IF b = 2 THEN {"snapshot"}
                                    ELSE IF b = 3 THEN {"volume"} ELSE {}]
             X == [Nothing EXCEPT !.kind = {"create", "restore", "scan"}, !.list = Names,
                                  !.of = {"copy"}]
  <1>1. PerformCleanup = S
    BY DEF PerformCleanup
  <1>2. /\ X.kind = {"create", "restore", "scan"} /\ X.list = Names /\ X.of = {"copy"}
        /\ X.catch = {} /\ X.need = {}
    BY DEF Nothing
  <1>3. Spares(X, S)
    <2>1. /\ Harmless(X) /\ "list" \notin X.kind /\ "delete" \notin X.kind
          /\ X.list \cap {"stopped instance", "snapshot", "volume"} = {}
      <3>1. Names \cap {"stopped instance", "snapshot", "volume"} \subseteq {}
        <4>1. ASSUME NEW s \in Names
              PROVE  s \notin {"stopped instance", "snapshot", "volume"}
          <5>1. s = "failed" \/ s = "refused"
            BY DEF Names
          <5> QED BY Zenon, <5>1
        <4> HIDE DEF X
        <4> QED BY Zenon, <4>1
      <3> HIDE DEF X
      <3> QED BY <1>2, <3>1 DEF Harmless, Usual
    <2> HIDE DEF X
    <2> QED BY <1>1, <2>1, PerformCleanupFits
  <1>4. /\ Makes({}, Loop("stopped instance", Put)) /\ Told(Loop("stopped instance", Put))
        /\ Makes({}, <<Broken("describeLogGroups")>>) /\ Told(<<Broken("describeLogGroups")>>)
    <2>1. ASSUME NEW type
          PROVE  Makes({}, Loop(type, Put)) /\ Told(Loop(type, Put))
      <3> DEFINE a == <<List(type)>>
                 q == [i \in Item |-> Listed(Put(type), type, i)]
      <3>1. Branch(Still, a) /\ Branch(Still, q)
        BY StillCalls, StillLoops, OneCall
      <3> HIDE DEF a, q
      <3>2. Branch(Still, a \o q)
        BY <3>1, Joined
      <3>3. Makes({}, a \o q) /\ Told(a \o q)
        BY <3>2, ToldNothing
      <3> QED BY <3>3 DEF a, q, Loop
    <2>2. Branch(Still, <<Broken("describeLogGroups")>>)
      BY StillCalls, OneCall
    <2> QED BY <2>1, <2>2, ToldNothing
  <1>5. /\ Makes({"snapshot"}, Loop("snapshot", Delete)) /\ Told(Loop("snapshot", Delete))
        /\ Makes({"volume"}, Loop("volume", Delete)) /\ Told(Loop("volume", Delete))
    BY DeleteLoop
  <1>6. Makes({}, <<Stub("cleanupOldMetrics")>>) /\ Told(<<Stub("cleanupOldMetrics")>>)
    BY StillCalls, OneCall, ToldNothing
  <1>7. /\ DOMAIN S = {1} /\ S[1].branches = B /\ DOMAIN B = 1 .. 5
        /\ \A b \in 1 .. 5 : Makes(T[b], B[b]) /\ Told(B[b])
    <2>1. All(B).branches = B
      <3> HIDE DEF B
      <3> QED BY DEF All, Stage
    <2>2. DOMAIN S = {1} /\ S[1] = All(B)
      <3> HIDE DEF B
      <3> QED BY Single
    <2>3. \A b \in 1 .. 5 : b = 1 \/ b = 2 \/ b = 3 \/ b = 4 \/ b = 5
      OBVIOUS
    <2>4. T[1] = {} /\ T[2] = {"snapshot"} /\ T[3] = {"volume"} /\ T[4] = {} /\ T[5] = {}
      OBVIOUS
    <2> HIDE DEF T
    <2> DEFINE one == Loop("stopped instance", Put)
               two == Loop("snapshot", Delete)
               three == Loop("volume", Delete)
               four == <<Broken("describeLogGroups")>>
               five == <<Stub("cleanupOldMetrics")>>
    <2>5. B = <<one, two, three, four, five>>
      OBVIOUS
    <2>6. /\ Makes(T[1], one) /\ Told(one) /\ Makes(T[2], two) /\ Told(two)
          /\ Makes(T[3], three) /\ Told(three) /\ Makes(T[4], four) /\ Told(four)
          /\ Makes(T[5], five) /\ Told(five)
      BY <1>4, <1>5, <1>6, <2>4
    <2> HIDE DEF one, two, three, four, five, B
    <2>7. /\ DOMAIN B = 1 .. 5 /\ B[1] = one /\ B[2] = two /\ B[3] = three /\ B[4] = four
          /\ B[5] = five
      BY <2>5
    <2>8. \A b \in 1 .. 5 : Makes(T[b], B[b]) /\ Told(B[b])
      BY <2>3, <2>6, <2>7
    <2> QED BY <2>1, <2>2, <2>7, <2>8
  <1>8. \A b, a \in 1 .. 5 : \A t : t \in T[b] /\ t \in T[a] => b = a
    <2>1. \A b \in 1 .. 5 : \A t \in T[b] : (b = 2 /\ t = "snapshot") \/ (b = 3 /\ t = "volume")
      OBVIOUS
    <2>2. "snapshot" # "volume"
      OBVIOUS
    <2> HIDE DEF T
    <2> QED BY <2>1, <2>2
  <1> HIDE DEF B, S, T, X
  <1> DEFINE Cleans(c, n, b, k) ==
               /\ c.kind \notin {"create", "restore", "scan"} /\ c.of # "copy"
               /\ c.kind = "list" => c.of \notin Names
               /\ n = 1 /\ b \in 1 .. 5 /\ k \in 1 .. Len(B[b]) /\ c = B[b][k]
               /\ c.kind = "delete" => /\ c.item # 0 /\ <<c.of, c.item>> \in c.needs
                                       /\ c.of \in T[b]
  <1>9. ASSUME NEW n, NEW b, NEW k, IsCall(S, n, b, k)
        PROVE  Cleans(CallAt(S, n, b, k), n, b, k)
    <2>1. /\ Spared(X, CallAt(S, n, b, k)) /\ b \in DOMAIN S[n].branches
          /\ k \in 1 .. Len(S[n].branches[b]) /\ n \in DOMAIN S
      BY <1>3, <1>9, SparedAt DEF IsCall
    <2>2. n = 1 /\ b \in 1 .. 5 /\ k \in 1 .. Len(B[b]) /\ CallAt(S, n, b, k) = B[b][k]
      BY <1>7, <2>1 DEF CallAt
    <2>3. B[b][k].kind = "delete" => /\ B[b][k].item # 0
                                     /\ <<B[b][k].of, B[b][k].item>> \in B[b][k].needs
                                     /\ B[b][k].of \in T[b]
      BY <1>7, <2>2 DEF Makes, Told, Changing
    <2> QED BY <1>2, <2>1, <2>2, <2>3 DEF Spared
  <1> HIDE DEF Cleans
  <1>10. ASSUME NEW n, NEW b, NEW k, NEW m, NEW a, NEW l,
                IsCall(S, n, b, k), IsCall(S, m, a, l),
                Meets(CallAt(S, n, b, k), CallAt(S, m, a, l))
         PROVE  n = m /\ b = a /\ k = l
    <2> DEFINE c == CallAt(S, n, b, k)
               d == CallAt(S, m, a, l)
    <2>1. c.kind = "delete" /\ d.kind = "delete" /\ c.of = d.of /\ c.item = d.item
      <3>1. Cleans(c, n, b, k) /\ Cleans(d, m, a, l)
        BY <1>9, <1>10
      <3> HIDE DEF c, d
      <3>2. Meets(c, d)
        BY <1>10 DEF c, d
      <3> QED BY <3>1, <3>2 DEF Meets, Changing, Cleans
    <2>2. /\ n = 1 /\ m = 1 /\ b \in 1 .. 5 /\ a \in 1 .. 5 /\ k \in 1 .. Len(B[b])
          /\ l \in 1 .. Len(B[a]) /\ c = B[b][k] /\ d = B[a][l]
          /\ c.of \in T[b] /\ d.of \in T[a]
      <3>1. Cleans(c, n, b, k) /\ Cleans(d, m, a, l)
        BY <1>9, <1>10
      <3> HIDE DEF c, d
      <3> QED BY <2>1, <3>1 DEF Cleans
    <2>3. b = a
      BY <1>8, <2>1, <2>2
    <2>4. k = l
      <3> HIDE DEF c, d
      <3>1. Makes(T[b], B[b])
        BY <1>7, <2>2
      <3>2. /\ B[b][k].kind = "delete" /\ B[b][l].kind = "delete"
            /\ B[b][k].of = B[b][l].of /\ B[b][k].item = B[b][l].item
            /\ k \in 1 .. Len(B[b]) /\ l \in 1 .. Len(B[b])
        BY <2>1, <2>2, <2>3
      <3> QED BY <3>1, <3>2 DEF Makes, Changing
    <2> QED BY <2>2, <2>3, <2>4
  <1>11. ASSUME NEW n, NEW b, NEW k, IsCall(S, n, b, k)
         PROVE  CarefulCall(S, n, b, k)
    <2> DEFINE c == CallAt(S, n, b, k)
    <2>1. Cleans(c, n, b, k)
      BY <1>9, <1>11
    <2> QED BY <2>1 DEF CarefulCall, Cleans
  <1>12. \A n \in DOMAIN S : S[n].rethrow \subseteq Markers
    BY <1>3, RethrowOf
  <1>13. Careful(S)
    BY <1>10, <1>11, <1>12 DEF Careful
  <1> QED BY <1>1, <1>13

LEMMA NamesAreOthers ==
  /\ Harmless(Calm) /\ "list" \notin Calm.kind /\ 1 \notin Calm.catch
  /\ "restore" \notin Calm.kind
  /\ Calm.list \cap {"stack", "table", "instance", "database", "function"} = {}
  <1>1. ASSUME NEW s \in Names
        PROVE  s \notin {"stack", "table", "instance", "database", "function"}
    <2>1. s = "failed" \/ s = "refused"
      BY DEF Names
    <2> QED BY Zenon, <2>1
  <1>2. Calm.list \cap {"stack", "table", "instance", "database", "function"}
          \subseteq {}
    BY Zenon, <1>1, CalmIs
  <1> QED BY <1>2, CalmIs

LEMMA InitiateFailoverIsCareful == Careful(InitiateFailover)
  <1> DEFINE X == Calm
  <1>0. /\ Usual(X) /\ "list" \notin X.kind /\ "require" \notin X.kind /\ X.catch = {}
        /\ X.of = {} /\ X.list = Names /\ "table" \notin Names /\ "function" \notin Names
    BY CalmIs DEF Names, Calm, Nothing
  <1> HIDE DEF X
  <1>1. Branch(X, <<Here(List("table")), Here(List("function")),
          Here(Require("table")), Here(Require("function")),
          Put("traffic"), Stub("verifyFailover")>>)
    <2>1. /\ Spared(X, Here(List("table"))) /\ Spared(X, Here(List("function")))
          /\ Spared(X, Here(Require("table"))) /\ Spared(X, Here(Require("function")))
          /\ Spared(X, Put("traffic")) /\ Spared(X, Stub("verifyFailover"))
      BY <1>0, PlainCalls, Variants DEF Here, Require
    <2> QED BY <2>1, SixCalls
  <1>2. Branch(X, <<Stub("rollback")>>)
    BY <1>0, PlainCalls, OneCall
  <1>3. Spares(X, InitiateFailover)
    BY <1>0, <1>1, <1>2, DoFits, TryFits, RethrowFits, ThreeStages DEF InitiateFailover
  <1> QED BY <1>3, CalmIsCareful DEF X

LEMMA PlainAreCareful ==
  /\ Careful(RunSecurityScan) /\ Careful(AllocateCosts) /\ Careful(GenerateForecast)
  /\ Careful(PlanCapacity) /\ Careful(AnalyzeUsage) /\ Careful(PerformanceTest)
  /\ Careful(CreateDashboard) /\ Careful(CreateApiDashboard)
  /\ Careful(CreatePerformanceDashboard) /\ Careful(CreateHealthDashboard)
  /\ Careful(RunComplianceChecks) /\ Careful(RunDailyPerformanceTest)
  /\ Careful(RunWeeklyLoadTest) /\ Careful(ValidateRecovery) /\ Careful(PerformRecovery)
  /\ Careful(TrackChanges) /\ Careful(AnalyzeTrends) /\ Careful(CreateAlerts)
  /\ Careful(SetupPerformanceAlerts) /\ Careful(RunBackup) /\ Careful(AggregateMetrics)
  /\ Careful(VerifyReplication) /\ Careful(RunTests)
  /\ Careful(SetupLoadBalancer) /\ Careful(PerformSecurityScan)
  BY NamesAreOthers, CalmIsCareful, RunSecurityScanFits, AllocateCostsFits,
    GenerateForecastFits, PlanCapacityFits, AnalyzeUsageFits, PerformanceTestFits,
    CreateDashboardFits, CreateApiDashboardFits, CreatePerformanceDashboardFits,
    CreateHealthDashboardFits, RunComplianceChecksFits, RunDailyPerformanceTestFits,
    RunWeeklyLoadTestFits, ValidateRecoveryFits, PerformRecoveryFits, TrackChangesFits,
    AnalyzeTrendsFits, CreateAlertsFits, SetupPerformanceAlertsFits, RunBackupFits,
    AggregateMetricsFits, VerifyReplicationFits, RunTestsFits,
    SetupLoadBalancerFits, PerformSecurityScanFits

LEMMA ListingAreCareful ==
  /\ Careful(GenerateDocs) /\ Careful(AnalyzeCosts) /\ Careful(PerformMaintenance)
  /\ Careful(ApplyTags) /\ Careful(CollectInventory)
  /\ Careful(PerformDailyBackup) /\ Careful(PerformDrTest) /\ Careful(GenerateReport)
  <1>1. /\ Calm.list \cap {"stack"} = {} /\ Calm.list \cap {"table"} = {}
        /\ Calm.list \cap {"instance", "database", "table"} = {}
    BY Zenon, NamesAreOthers
  <1> QED BY <1>1, NamesAreOthers, CalmIsCareful, GenerateDocsFits, AnalyzeCostsFits,
    PerformMaintenanceFits, ApplyTagsFits, CollectInventoryFits,
    PerformDailyBackupFits, PerformDrTestFits, GenerateReportFits

(* All jobs but one are careful.                                           *)
LEMMA JobIsCareful ==
  ASSUME NEW j \in DOMAIN Script \ {"verifyBackups"}
  PROVE  Careful(Script[j])
  BY JobsAreScripts, PlainAreCareful, ListingAreCareful, InitiateFailoverIsCareful,
    SetupBackupStrategyIsCareful, SetupFailoverIsCareful, SetupReplicationIsCareful,
    CreateTablesIsCareful, SetupAutoScalingIsCareful, SetupContinuousTestsIsCareful,
    DeployIsCareful, PerformCleanupIsCareful

(* The other does not reject for a call that is refused.                   *)
ForgivingAt(S, n) ==
  /\ S[n].rethrow = {}
  /\ \A b, k : IsCall(S, n, b, k) /\ CallAt(S, n, b, k).kind \in Refusable =>
       CallAt(S, n, b, k).own \/ S[n].catch = 1
Forgiving(S) == \A n \in DOMAIN S : ForgivingAt(S, n)

LEMMA VerifyBackupsIsForgiving == Forgiving(VerifyBackups)
  <1> DEFINE S == VerifyBackups
  <1>1. ASSUME NEW n \in DOMAIN S
        PROVE  ForgivingAt(S, n)
    <2>0. Spares([Nothing EXCEPT !.of = {"traffic"}], S)
      BY VerifyBackupsFits
    <2>1. n \in 1 .. 3 * Count + 1 /\ 3 * Count \in Nat
      <3>1. DOMAIN S = 1 .. Len(S)
        BY <2>0, StagesFit
      <3> QED BY <3>1, VerifyScript, Items
    <2>2. /\ DOMAIN S[n].branches = 1 .. Len(S[n].branches)
          /\ \A b \in DOMAIN S[n].branches :
               DOMAIN S[n].branches[b] = 1 .. Len(S[n].branches[b])
      BY <2>0, StagesFit
    <2>3. CASE n = 3 * Count + 1
      <3>1. /\ S[n].rethrow = {} /\ DOMAIN S[n].branches = {1}
            /\ Len(S[n].branches[1]) = 1 /\ S[n].branches[1][1].kind \notin Refusable
        BY <2>3, VerifyScript
      <3> HIDE DEF S
      <3> QED BY <2>2, <3>1 DEF ForgivingAt, IsCall, CallAt
    <2>4. ASSUME n # 3 * Count + 1
          PROVE  \E i \in Item, m \in 1 .. 3 : S[n] = VerifyTable(i)[m]
      <3>1. PICK i \in Item : n \in {ListStage(i), CopyStage(i), DeleteStage(i)}
        BY <2>1, <2>4, StagesOfItems
      <3>2. S[n] \in {VerifyTable(i)[1], VerifyTable(i)[2], VerifyTable(i)[3]}
        BY <3>1, VerifyScript
      <3> QED BY <3>2
    <2>5. ASSUME NEW i \in Item, S[n] = VerifyTable(i)[1]
          PROVE  /\ S[n].rethrow = {} /\ DOMAIN S[n].branches = {1}
                 /\ Len(S[n].branches[1]) = 1 /\ S[n].branches[1][1].kind \notin Refusable
      BY <2>5, TableScript
    <2>6. ASSUME NEW i \in Item, S[n] = VerifyTable(i)[3]
          PROVE  /\ S[n].rethrow = {} /\ DOMAIN S[n].branches = {1}
                 /\ Len(S[n].branches[1]) = 1 /\ S[n].branches[1][1].own
      <3>1. Deletion(i).own
        BY DEF Deletion, Swallowed, Copy, Had, Listed, Call
      <3> QED BY <2>6, <3>1, TableScript
    <2>7. ASSUME NEW i \in Item, S[n] = VerifyTable(i)[2]
          PROVE  S[n].rethrow = {} /\ S[n].catch = 1
      BY <2>7, TableScript
    <2> HIDE DEF S
    <2>8. ASSUME NEW i \in Item, NEW m \in 1 .. 3, S[n] = VerifyTable(i)[m]
          PROVE  ForgivingAt(S, n)
      <3>1. CASE m = 1
        BY <2>2, <2>5, <2>8, <3>1 DEF ForgivingAt, IsCall, CallAt
      <3>2. CASE m = 2
        BY <2>7, <2>8, <3>2 DEF ForgivingAt
      <3>3. CASE m = 3
        BY <2>2, <2>6, <2>8, <3>3 DEF ForgivingAt, IsCall, CallAt
      <3> QED BY <3>1, <3>2, <3>3
    <2> QED BY <2>3, <2>4, <2>8
  <1> QED BY <1>1 DEF Forgiving

LEMMA JobIsForgiving == Forgiving(Script["verifyBackups"])
  BY JobsAreScripts, VerifyBackupsIsForgiving

-----------------------------------------------------------------------------
(* A run by itself.  While no call has failed and no other run has begun,  *)
(* what a careful job will create is not there, what it will delete is     *)
(* there and ready, and so AWS refuses it nothing.                         *)

Alone(r) == failures = 0 /\ \A q \in Run \ {r} : run[q].state = "idle"
Ahead(x, n, b, k) == x.state = "idle" \/ ~Passed(x, n, b, k)
Reasoned(x) ==
  /\ \A c \in x.failed : c.kind \in {"require", "broken"}
  /\ x.state = "rejected" \/ x.seen \cap Markers # {} => x.failed # {}
Ready(c, x, r, A) ==
  /\ c.kind = "create" => Resource(c, r) \notin A
  /\ c.kind = "delete" /\ Resource(c, r) \in x.seen => Resource(c, r) \in A
Free(S, x, r, A, C) ==
  \A n, b, k : IsCall(S, n, b, k) =>
    /\ CallAt(S, n, b, k).kind = "delete" => Resource(CallAt(S, n, b, k), r) \notin C
    /\ Ahead(x, n, b, k) => Ready(CallAt(S, n, b, k), x, r, A)
Forgives == job = "verifyBackups"
LoneOf(x, r, A, C) ==
  IF Forgives THEN x.state # "rejected" ELSE Reasoned(x) /\ Free(Stages, x, r, A, C)
LoneInv == \A r \in Run : Alone(r) => LoneOf(run[r], r, aws, creating)

LEMMA CarefulStages ==
  ASSUME scenario \in Scenario
  PROVE  IF Forgives THEN Forgiving(Stages) ELSE Careful(Stages)
  BY JobSpares, JobIsCareful, JobIsForgiving DEF Forgives, Stages

LEMMA CarefulCallIs ==
  ASSUME NEW S, Careful(S), NEW n, NEW b, NEW k, IsCall(S, n, b, k), NEW r
  PROVE  LET c == CallAt(S, n, b, k)
         IN /\ c.kind # "scan"
            /\ c.kind = "list" => c.of \notin Names
            /\ c.kind = "delete" => c.item # 0 /\ Resource(c, r) \in c.needs
            /\ c.kind \in {"create", "delete"} =>
                 c.of # "copy" /\ Resource(c, r) = <<c.of, c.item>>
  <1> DEFINE c == CallAt(S, n, b, k)
  <1>1. CarefulCall(S, n, b, k)
    BY DEF Careful
  <1>2. /\ c.kind # "scan" /\ (c.kind = "list" => c.of \notin Names)
        /\ c.kind = "delete" => c.item # 0 /\ <<c.of, c.item>> \in c.needs
        /\ c.kind \in {"create", "delete"} => c.of # "copy"
    BY <1>1 DEF CarefulCall
  <1> HIDE DEF c
  <1>3. /\ c.kind # "scan" /\ (c.kind = "list" => c.of \notin Names)
        /\ c.kind = "delete" => c.item # 0 /\ Resource(c, r) \in c.needs
        /\ c.kind \in {"create", "delete"} => c.of # "copy" /\ Resource(c, r) = <<c.of, c.item>>
    BY <1>2 DEF Resource
  <1> QED BY <1>3 DEF c

(* Two calls of a careful script touch different things.                   *)
LEMMA CarefulCallsDiffer ==
  ASSUME NEW S, Careful(S), NEW r, NEW n, NEW b, NEW k, NEW m, NEW a, NEW l,
         IsCall(S, n, b, k), IsCall(S, m, a, l), ~(n = m /\ b = a /\ k = l),
         CallAt(S, n, b, k).kind \in {"create", "delete"},
         CallAt(S, m, a, l).kind \in Changing
  PROVE  Resource(CallAt(S, n, b, k), r) # Resource(CallAt(S, m, a, l), r)
  <1> DEFINE c == CallAt(S, n, b, k)
             d == CallAt(S, m, a, l)
  <1>1. ~Meets(c, d) /\ c.of # "copy" /\ Resource(c, r) = <<c.of, c.item>>
        /\ c.kind \in {"create", "delete"} /\ d.kind \in Changing
    <2>1. ~Meets(c, d)
      BY DEF Careful
    <2> QED BY <2>1, CarefulCallIs
  <1> HIDE DEF c, d
  <1>2. ~(d.of = c.of /\ d.item = c.item)
    BY <1>1 DEF Meets
  <1>3. Resource(d, r) = <<d.of, d.item>> \/ Resource(d, r) = <<"copy", d.item, r>>
    BY DEF Resource
  <1>4. Resource(c, r) # Resource(d, r)
    BY <1>1, <1>2, <1>3
  <1> QED BY <1>4 DEF c, d

LEMMA CalledIsCall ==
  ASSUME scenario \in Scenario, NEW x, NEW b, NEW c, Called(x, b, c)
  PROVE  /\ IsCall(Stages, x.stage, b, x.at[b]) /\ CallAt(Stages, x.stage, b, x.at[b]) = c
         /\ Ahead(x, x.stage, b, x.at[b])
         /\ x.stage \in Nat \ {0} /\ x.at[b] \in Nat /\ x.stage <= Len(Stages)
         /\ Len(Stages[x.stage].branches[b]) \in Nat
         /\ x.at[b] <= Len(Stages[x.stage].branches[b])
  <1>1. x.stage \in DOMAIN Stages
    BY JobSpares, StagesFit DEF Called
  <1>2. /\ x.stage \in Nat \ {0} /\ x.at[b] \in Nat /\ x.stage <= Len(Stages)
        /\ Len(Stages[x.stage].branches[b]) \in Nat
        /\ x.at[b] <= Len(Stages[x.stage].branches[b])
    BY CalledAt
  <1>3. Ahead(x, x.stage, b, x.at[b])
    BY <1>2 DEF Ahead, Passed
  <1> QED BY <1>1, <1>2, <1>3 DEF Called, IsCall, CallAt

(* Calls that a run has passed stay passed.                                *)
Onward(x, y) ==
  \A n, b, k : IsCall(Stages, n, b, k) /\ Passed(x, n, b, k) => Passed(y, n, b, k)

LEMMA BranchGoesOn ==
  ASSUME scenario \in Scenario, NEW x, RunShape(x), NEW a, NEW c, Called(x, a, c),
         NEW y, Elsewhere(x, y, a), y.at[a] \in Nat, x.at[a] < y.at[a]
  PROVE  Onward(x, y) /\ Passed(y, x.stage, a, x.at[a])
  <1>1. /\ y.stage = x.stage /\ x.stage \in Nat \ {0} /\ x.at[a] \in Nat
        /\ (\A p \in DOMAIN x.at \ {a} : y.at[p] = x.at[p])
        /\ DOMAIN x.at = DOMAIN Stages[x.stage].branches
    <2>1. x.state # "idle" /\ x.stage <= Len(Stages)
      BY CalledAt, CalledIsCall
    <2> QED BY <2>1, CalledIsCall DEF Elsewhere, RunShape
  <1>2. ASSUME NEW n, NEW b, NEW k, IsCall(Stages, n, b, k), Passed(x, n, b, k)
        PROVE  Passed(y, n, b, k)
    <2>1. n \in 1 .. Len(Stages) /\ b \in DOMAIN Stages[n].branches /\ Len(Stages) \in Nat
          /\ k \in 1 .. Len(Stages[n].branches[b]) /\ Len(Stages[n].branches[b]) \in Nat
      BY <1>2, JobSpares, StagesFit DEF IsCall
    <2>2. CASE n < x.stage
      BY <1>1, <2>2 DEF Passed
    <2>3. CASE ~(n < x.stage)
      <3>1. n = x.stage /\ k < x.at[b]
        BY <1>2, <2>3 DEF Passed
      <3>2. CASE b = a
        <4>1. k < y.at[a]
          BY <1>1, <2>1, <3>1, <3>2
        <4> QED BY <1>1, <3>1, <3>2, <4>1 DEF Passed
      <3>3. CASE b # a
        BY <1>1, <2>1, <3>1, <3>3 DEF Passed
      <3> QED BY <3>2, <3>3
    <2> QED BY <2>2, <2>3
  <1>3. Passed(y, x.stage, a, x.at[a])
    BY <1>1 DEF Passed
  <1> QED BY <1>2, <1>3 DEF Onward

LEMMA AdvancesOnward ==
  ASSUME scenario \in Scenario, NEW x, RunShape(x), NEW a, NEW c, Called(x, a, c),
         NEW y, NEW seen, Advanced(x, y, a, seen) \/ Ended(x, y, a)
  PROVE  Onward(x, y) /\ Passed(y, x.stage, a, x.at[a])
  <1>1. /\ x.at[a] \in Nat /\ Len(Stages[x.stage].branches[a]) \in Nat
        /\ x.at[a] <= Len(Stages[x.stage].branches[a])
    BY CalledIsCall
  <1>2. Elsewhere(x, y, a) /\ y.at[a] \in x.at[a] + 1 .. Len(Stages[x.stage].branches[a]) + 1
    <2>1. CASE Advanced(x, y, a, seen)
      BY <2>1 DEF Advanced, Follows
    <2>2. CASE Ended(x, y, a)
      <3>1. Elsewhere(x, y, a) /\ y.at[a] = Len(Stages[x.stage].branches[a]) + 1
        BY <2>2 DEF Ended
      <3> QED BY <1>1, <3>1
    <2> QED BY <2>1, <2>2
  <1>3. y.at[a] \in Nat /\ x.at[a] < y.at[a]
    BY <1>1, <1>2
  <1> QED BY <1>2, <1>3, BranchGoesOn

LEMMA EntersOnward ==
  ASSUME scenario \in Scenario, NEW x, x.stage \in Nat, NEW m \in Nat, x.stage < m,
         NEW y, y.stage = m
  PROVE  Onward(x, y)
  <1>1. ASSUME NEW n, NEW b, NEW k, IsCall(Stages, n, b, k), Passed(x, n, b, k)
        PROVE  Passed(y, n, b, k)
    <2>1. n \in Nat
      BY <1>1, JobSpares, StagesFit DEF IsCall
    <2>2. n <= x.stage
      BY <1>1, <2>1 DEF Passed
    <2> QED BY <2>1, <2>2 DEF Passed
  <1> QED BY <1>1 DEF Onward

(* Nothing has changed in AWS, and no list was answered.                   *)
LEMMA FreeLater ==
  ASSUME NEW x, NEW y, NEW r, NEW A, NEW C, NEW D, D \subseteq C,
         Careful(Stages), Free(Stages, x, r, A, C),
         x.state = "idle" \/ Onward(x, y), y.state # "idle",
         \A s \in y.seen : s \in x.seen \/ s[2] = 0
  PROVE  Free(Stages, y, r, A, D)
  <1>1. ASSUME NEW n, NEW b, NEW k, IsCall(Stages, n, b, k), Ahead(y, n, b, k)
        PROVE  Ready(CallAt(Stages, n, b, k), y, r, A)
    <2> DEFINE c == CallAt(Stages, n, b, k)
    <2>1. Ahead(x, n, b, k)
      BY <1>1 DEF Ahead, Onward
    <2>2. Ready(c, x, r, A)
      BY <1>1, <2>1 DEF Free
    <2>3. c.kind = "delete" => c.item # 0 /\ Resource(c, r) = <<c.of, c.item>>
      BY <1>1, CarefulCallIs
    <2> HIDE DEF c
    <2>4. c.kind = "delete" /\ Resource(c, r) \in y.seen => Resource(c, r) \in x.seen
      BY <2>3
    <2>5. Ready(c, y, r, A)
      BY <2>2, <2>4 DEF Ready
    <2> QED BY <2>5 DEF c
  <1> QED BY <1>1 DEF Free

(* What is answered, or refused.                                           *)
LEMMA FreeSettled ==
  ASSUME Shape, NEW r \in Run, NEW a, NEW d, Settled(r, a, d), Careful(Stages),
         Free(Stages, run[r], r, aws, creating)
  PROVE  Free(Stages, run'[r], r, aws', creating')
  <1> DEFINE x == run[r]
             y == run'[r]
             R == Resource(d, r)
  <1>1. /\ Called(x, a, d) /\ Advanced(x, y, a, Answer(d, r)) /\ RunShape(x)
        /\ scenario \in Scenario /\ Effect(d, r)
    BY DEF Settled, Shape
  <1>2. /\ IsCall(Stages, x.stage, a, x.at[a]) /\ CallAt(Stages, x.stage, a, x.at[a]) = d
        /\ Onward(x, y) /\ Passed(y, x.stage, a, x.at[a])
    BY <1>1, CalledIsCall, AdvancesOnward
  <1>3. /\ aws' = CASE d.kind \in {"create", "restore"} -> aws \cup {R}
                    [] d.kind = "delete" -> aws \ {R}
                    [] OTHER -> aws
        /\ creating' = IF d.kind = "restore" THEN creating \cup {R} ELSE creating
    BY <1>1 DEF Effect
  <1>4. y.seen = Answer(d, r) /\ y.state \in {"running", "rejected"}
    BY <1>1 DEF Advanced, Called
  <1> DEFINE seen == y.seen
  <1>5. \A s \in seen : s \in x.seen \/ (d.kind = "list" /\ s \in aws)
    BY <1>4 DEF Answer
  <1> HIDE DEF x, y, R, seen
  <1>6. ASSUME NEW n, NEW b, NEW k, IsCall(Stages, n, b, k)
        PROVE  /\ CallAt(Stages, n, b, k).kind = "delete" =>
                    Resource(CallAt(Stages, n, b, k), r) \notin creating'
               /\ Ahead(y, n, b, k) => Ready(CallAt(Stages, n, b, k), y, r, aws')
    <2> DEFINE c == CallAt(Stages, n, b, k)
               Q == Resource(c, r)
               here == n = x.stage /\ b = a /\ k = x.at[a]
    <2>1. here => c = d
      BY <1>2
    <2>2. ~here /\ c.kind \in {"create", "delete"} /\ d.kind \in Changing => Q # R
      BY <1>2, <1>6, CarefulCallsDiffer DEF R
    <2>3. (c.kind = "delete" => Q \notin creating) /\ (Ahead(x, n, b, k) => Ready(c, x, r, aws))
      BY <1>6 DEF Free, x
    <2>4. Ahead(y, n, b, k) => Ahead(x, n, b, k) /\ ~here
      BY <1>2, <1>4, <1>6 DEF Ahead, Onward
    <2> HIDE DEF c, here
    <2>5. c.kind = "delete" => Q \notin creating'
      BY <1>3, <2>1, <2>2, <2>3 DEF Changing
    <2>6. ASSUME Ahead(y, n, b, k)
          PROVE  Ready(c, y, r, aws')
      <3>1. Ready(c, x, r, aws) /\ ~here
        BY <2>3, <2>4, <2>6
      <3> HIDE DEF Q
      <3>2. /\ c.kind = "create" => Q \notin aws
            /\ c.kind = "delete" /\ Q \in x.seen => Q \in aws
        BY <3>1 DEF Ready, Q
      <3>3. c.kind = "create" => Q \notin aws'
        BY <1>3, <2>2, <3>1, <3>2 DEF Changing
      <3>4. c.kind = "delete" /\ Q \in seen => Q \in aws'
        BY <1>3, <1>5, <2>2, <3>1, <3>2 DEF Changing
      <3> QED BY <3>3, <3>4 DEF Ready, Q, seen
    <2> QED BY <2>5, <2>6 DEF c
  <1>7. Free(Stages, y, r, aws', creating')
    BY <1>6 DEF Free
  <1> QED BY <1>7 DEF y

LEMMA RefusesNothing ==
  ASSUME Shape, NEW r \in Run, NEW a, NEW d, Called(run[r], a, d), Refused(d, r),
         Careful(Stages), Free(Stages, run[r], r, aws, creating)
  PROVE  d.kind \in {"require", "broken"}
  <1> DEFINE x == run[r]
             Q == Resource(d, r)
  <1>1. /\ IsCall(Stages, x.stage, a, x.at[a]) /\ CallAt(Stages, x.stage, a, x.at[a]) = d
        /\ Ahead(x, x.stage, a, x.at[a]) /\ d.needs \subseteq x.seen
    BY CalledIsCall DEF Called, Shape
  <1>2. d.kind # "scan" /\ (d.kind = "delete" => Q \in d.needs)
    BY <1>1, CarefulCallIs
  <1>3. (d.kind = "delete" => Q \notin creating) /\ Ready(d, x, r, aws)
    BY <1>1 DEF Free
  <1>4. \/ d.kind = "create" /\ Q \in aws
        \/ d.kind = "delete" /\ Q \notin aws \ creating
        \/ d.kind \in {"require", "broken"}
    BY <1>2 DEF Refused
  <1> HIDE DEF x, Q
  <1>5. /\ d.kind = "create" => Q \notin aws
        /\ d.kind = "delete" /\ Q \in x.seen => Q \in aws
    BY <1>3 DEF Ready, Q
  <1> QED BY <1>1, <1>2, <1>3, <1>4, <1>5

LEMMA LoneSettled ==
  ASSUME Shape, NEW r \in Run, NEW a, NEW d, Settled(r, a, d),
         LoneOf(run[r], r, aws, creating)
  PROVE  LoneOf(run'[r], r, aws', creating')
  <1> DEFINE x == run[r]
             y == run'[r]
  <1>1. /\ Called(x, a, d) /\ y.state = x.state /\ y.failed = x.failed
        /\ y.seen = Answer(d, r) /\ scenario \in Scenario
    BY DEF Settled, Shape, Advanced
  <1>2. CASE Forgives
    BY <1>1, <1>2 DEF LoneOf
  <1>3. CASE ~Forgives
    <2>1. Careful(Stages) /\ Reasoned(x) /\ Free(Stages, x, r, aws, creating)
      BY <1>1, <1>3, CarefulStages DEF LoneOf
    <2>2. d.kind = "list" => d.of \notin Names
      BY <1>1, <2>1, CalledIsCall, CarefulCallIs
    <2>3. \A s \in Markers : s[1] \in Names
      BY DEF Markers, Names
    <2>4. \A s \in Answer(d, r) : s \in x.seen \/ (d.kind = "list" /\ s[1] = d.of)
      BY DEF Answer
    <2>5. Free(Stages, y, r, aws', creating')
      BY <2>1, FreeSettled
    <2> HIDE DEF x, y
    <2>6. y.seen \cap Markers \subseteq x.seen
      BY <1>1, <2>2, <2>3, <2>4
    <2>7. Reasoned(y)
      BY <1>1, <2>1, <2>6 DEF Reasoned
    <2> QED BY <1>3, <2>5, <2>7 DEF LoneOf, y
  <1> QED BY <1>2, <1>3

LEMMA LoneThrew ==
  ASSUME Shape, NEW r \in Run, NEW a, NEW d, Threw(r, a, d), failures' = 0,
         LoneOf(run[r], r, aws, creating)
  PROVE  LoneOf(run'[r], r, aws', creating')
  <1> DEFINE x == run[r]
             y == run'[r]
  <1>1. /\ Called(x, a, d) /\ Thrown(x, y, a, d) /\ y.failed = x.failed \cup {d}
        /\ scenario \in Scenario /\ RunShape(x) /\ x.state # "idle"
        /\ Refused(d, r) /\ aws' = aws /\ creating' = creating
    <2>1. Called(x, a, d) /\ Refused(d, r)
      BY DEF Threw
    <2>2. x.state # "idle"
      BY <2>1 DEF Called
    <2> QED BY <2>1, <2>2 DEF Threw, Thrown, Shape
  <1>2. /\ IsCall(Stages, x.stage, a, x.at[a]) /\ CallAt(Stages, x.stage, a, x.at[a]) = d
        /\ x.stage \in Nat \ {0} /\ x.stage \in DOMAIN Stages
    BY <1>1, CalledIsCall DEF IsCall
  <1>3. CASE Forgives
    <2>1. d.own \/ Stages[x.stage].catch = 1
      <3>1. d.kind \in Refusable
        BY <1>1 DEF Refused, Refusable
      <3>2. ForgivingAt(Stages, x.stage)
        BY <1>1, <1>2, <1>3, CarefulStages DEF Forgiving
      <3> QED BY <1>2, <3>1, <3>2 DEF ForgivingAt
    <2>2. x.state # "rejected"
      BY <1>3 DEF LoneOf
    <2> HIDE DEF x, y
    <2>3. y.state # "rejected"
      BY <1>1, <2>1, <2>2 DEF Thrown, Advanced, Entered
    <2> QED BY <1>3, <2>3 DEF LoneOf, y
  <1>4. CASE ~Forgives
    <2>1. Careful(Stages) /\ Reasoned(x) /\ Free(Stages, x, r, aws, creating)
      BY <1>1, <1>4, CarefulStages DEF LoneOf
    <2>2. d.kind \in {"require", "broken"}
      BY <1>1, <2>1, RefusesNothing
    <2> HIDE DEF x, y
    <2>3. Onward(x, y) /\ y.state # "idle" /\ \A s \in y.seen : s \in x.seen \/ s[2] = 0
      <3>1. CASE \E why \in {"failed", "refused"} :
                   Entered(y, x.stage + 1, x.seen \cup {<<why, 0>>})
        <4>1. y.stage = x.stage + 1 /\ y.state = "running"
              /\ \A s \in y.seen : s \in x.seen \/ s[2] = 0
          BY <3>1 DEF Entered
        <4>2. x.stage \in Nat /\ x.stage + 1 \in Nat /\ x.stage < x.stage + 1
          BY <1>2
        <4>3. Onward(x, y)
          BY <1>1, <4>1, <4>2, EntersOnward
        <4> QED BY <4>1, <4>3
      <3>2. CASE Advanced(x, y, a, x.seen) \/ Ended(x, y, a)
        <4>1. y.seen = x.seen /\ y.state # "idle"
          BY <1>1, <3>2 DEF Advanced, Ended
        <4> QED BY <1>1, <3>2, <4>1, AdvancesOnward
      <3> QED BY <1>1, <3>1, <3>2 DEF Thrown
    <2>4. Free(Stages, y, r, aws', creating')
      BY <1>1, <2>1, <2>3, FreeLater
    <2>5. Reasoned(y)
      BY <1>1, <2>1, <2>2 DEF Reasoned
    <2> QED BY <1>4, <2>4, <2>5 DEF LoneOf, y
  <1> QED BY <1>3, <1>4

LEMMA LoneStarted ==
  ASSUME Shape, NEW r \in Run, Started(r), LoneOf(run[r], r, aws, creating)
  PROVE  LoneOf(run'[r], r, aws', creating')
  <1> DEFINE x == run[r]
             y == run'[r]
  <1>1. PICK C \in SUBSET Conditions(job) : Entered(y, 1, C)
    BY DEF Started
  <1>2. /\ y.failed = {} /\ y.state = "running" /\ y.seen = C /\ x.state = "idle"
        /\ aws' = aws /\ creating' = creating /\ scenario \in Scenario
    BY <1>1 DEF Started, Entered, Shape
  <1>3. \A s \in C : s[2] = 0 /\ s \notin Markers
    <2> DEFINE N == {"KMS key", "a day without DynamoDB", "DynamoDB is expensive",
                     "latency is degrading"}
    <2>1. ASSUME NEW n \in N
          PROVE  n # "failed" /\ n # "refused"
      BY Zenon, <2>1
    <2>2. ASSUME NEW s \in C
          PROVE  \E n \in N : s = <<n, 0>>
      <3>1. s \in Conditions(job)
        BY <1>1
      <3>2. s \in {<<n, 0>> : n \in N}
        BY Zenon, <3>1 DEF Conditions
      <3> HIDE DEF N
      <3> QED BY <3>2
    <2> HIDE DEF N
    <2> QED BY <2>1, <2>2 DEF Markers
  <1> HIDE DEF x, y
  <1>4. CASE Forgives
    BY <1>2, <1>4 DEF LoneOf, y
  <1>5. CASE ~Forgives
    <2>1. Careful(Stages) /\ Free(Stages, x, r, aws, creating)
      BY <1>2, <1>5, CarefulStages DEF LoneOf, x
    <2>2. Free(Stages, y, r, aws', creating')
      BY <1>2, <1>3, <2>1, FreeLater
    <2>3. Reasoned(y)
      BY <1>2, <1>3 DEF Reasoned
    <2> QED BY <1>5, <2>2, <2>3 DEF LoneOf, y
  <1> QED BY <1>4, <1>5

LEMMA LoneContinued ==
  ASSUME Shape, NEW r \in Run, Continued(r), LoneOf(run[r], r, aws, creating)
  PROVE  LoneOf(run'[r], r, aws', creating')
  <1> DEFINE x == run[r]
             y == run'[r]
             s == Stages[x.stage]
  <1>1. /\ x.state = "running" /\ x.stage \in DOMAIN Stages /\ x.stage \in Nat
        /\ s.next \in Nat \ {0} /\ aws' = aws /\ creating' = creating
        /\ y.failed = x.failed /\ scenario \in Scenario
        /\ \/ /\ s.rethrow \cap x.seen # {} /\ y.state = "rejected"
              /\ y.stage = x.stage /\ y.at = x.at /\ y.seen = x.seen
           \/ /\ y.state = "running" /\ y.stage = x.stage + s.next /\ y.seen = x.seen
    <2>1. x.stage \in 1 .. Len(Stages) /\ scenario \in Scenario
      BY DEF Continued, Shape
    <2>2. x.stage \in DOMAIN Stages /\ x.stage \in Nat /\ s.next \in Nat \ {0}
      BY <2>1, JobSpares, StagesFit
    <2> QED BY <2>1, <2>2 DEF Continued, Entered
  <1>2. CASE Forgives
    <2>1. s.rethrow = {}
      BY <1>1, <1>2, CarefulStages DEF Forgiving, ForgivingAt
    <2> HIDE DEF x, y, s
    <2>2. y.state # "rejected"
      BY <1>1, <2>1
    <2> QED BY <1>2, <2>2 DEF LoneOf, y
  <1>3. CASE ~Forgives
    <2>1. Careful(Stages) /\ Reasoned(x) /\ Free(Stages, x, r, aws, creating)
      BY <1>1, <1>3, CarefulStages DEF LoneOf
    <2>2. s.rethrow \subseteq Markers
      BY <1>1, <2>1 DEF Careful
    <2> HIDE DEF x, y, s
    <2>3. Onward(x, y)
      <3>1. CASE y.state = "rejected"
        BY <1>1, <3>1 DEF Onward, Passed
      <3>2. CASE y.state = "running"
        <4>1. x.stage + s.next \in Nat /\ x.stage < x.stage + s.next
          BY <1>1
        <4> QED BY <1>1, <3>2, <4>1, EntersOnward
      <3> QED BY <1>1, <3>1, <3>2
    <2>4. y.state # "idle" /\ \A t \in y.seen : t \in x.seen
      BY <1>1
    <2>5. Free(Stages, y, r, aws', creating')
      BY <1>1, <2>1, <2>3, <2>4, FreeLater
    <2>6. Reasoned(y)
      <3>1. x.seen \cap Markers # {} \/ y.state # "rejected"
        BY <1>1, <2>2
      <3> QED BY <1>1, <2>1, <3>1 DEF Reasoned
    <2> QED BY <1>3, <2>5, <2>6 DEF LoneOf, y
  <1> QED BY <1>2, <1>3

LEMMA LoneOver ==
  ASSUME Shape, NEW r \in Run, Over(r), failures' = 0, LoneOf(run[r], r, aws, creating)
  PROVE  LoneOf(run'[r], r, aws', creating')
  <1> DEFINE x == run[r]
             y == run'[r]
  <1>1. /\ y.stage = x.stage /\ y.at = x.at /\ y.seen = x.seen /\ y.failed = x.failed
        /\ aws' = aws /\ creating' = creating /\ scenario \in Scenario
    BY DEF Over, Shape
  <1>2. y.state = "resolved"
    BY DEF Over
  <1> HIDE DEF x, y
  <1>3. CASE Forgives
    BY <1>2, <1>3 DEF LoneOf, y
  <1>4. CASE ~Forgives
    <2>1. Careful(Stages) /\ Reasoned(x) /\ Free(Stages, x, r, aws, creating)
      BY <1>1, <1>4, CarefulStages DEF LoneOf, x
    <2>2. Onward(x, y)
      BY <1>1 DEF Onward, Passed
    <2>3. y.state # "idle" /\ \A t \in y.seen : t \in x.seen
      BY <1>1, <1>2
    <2>4. Free(Stages, y, r, aws', creating')
      BY <1>1, <2>1, <2>2, <2>3, FreeLater
    <2>5. Reasoned(y)
      BY <1>1, <1>2, <2>1 DEF Reasoned
    <2> QED BY <1>4, <2>4, <2>5 DEF LoneOf, y
  <1> QED BY <1>3, <1>4

LEMMA LoneInit == Init => LoneInv
  <1> SUFFICES ASSUME Init, NEW r \in Run
               PROVE  LoneOf(run[r], r, aws, creating)
    BY DEF LoneInv
  <1>1. /\ scenario \in Scenario /\ aws = Found(job, scenario.items) /\ creating = {}
        /\ run[r] = Idle
    BY DEF Init, job
  <1>2. run[r].state = "idle" /\ run[r].seen = {} /\ run[r].failed = {}
    BY <1>1 DEF Idle
  <1>3. CASE Forgives
    BY <1>2, <1>3 DEF LoneOf
  <1>4. CASE ~Forgives
    <2>1. Careful(Stages)
      BY <1>1, <1>4, CarefulStages
    <2>2. ASSUME NEW n, NEW b, NEW k, IsCall(Stages, n, b, k),
                 CallAt(Stages, n, b, k).kind = "create",
                 Resource(CallAt(Stages, n, b, k), r) \in aws
          PROVE  FALSE
      <3> DEFINE c == CallAt(Stages, n, b, k)
      <3>1. Resource(c, r) = <<c.of, c.item>>
        BY <2>1, <2>2, CarefulCallIs
      <3>2. PICK d \in Calls(job), i \in scenario.items :
              d.kind \in {"list", "delete"} /\ Resource(c, r) = <<d.of, i>>
        BY <1>1, <2>2 DEF Found
      <3>3. PICK m, a, l : /\ m \in DOMAIN Stages /\ a \in DOMAIN Stages[m].branches
                          /\ l \in DOMAIN Stages[m].branches[a]
                          /\ d = Stages[m].branches[a][l]
        BY <3>2 DEF Calls, ToSet, Stages
      <3>4. IsCall(Stages, m, a, l) /\ CallAt(Stages, m, a, l) = d
        BY <3>3 DEF IsCall, CallAt
      <3>5. d.of = c.of /\ c.kind = "create"
        BY <2>2, <3>1, <3>2
      <3>6. Meets(c, d)
        <4> HIDE DEF c
        <4> QED BY <3>2, <3>5 DEF Meets
      <3>7. n = m /\ b = a /\ k = l
        BY <2>1, <2>2, <3>4, <3>6 DEF Careful
      <3> QED BY <3>2, <3>4, <3>5, <3>7
    <2>3. Free(Stages, run[r], r, aws, creating)
      BY <1>1, <1>2, <2>2 DEF Free, Ready
    <2>4. Reasoned(run[r])
      BY <1>2 DEF Reasoned
    <2> QED BY <1>4, <2>3, <2>4 DEF LoneOf
  <1> QED BY <1>3, <1>4

LEMMA LoneStep ==
  ASSUME Shape, LoneInv, [Next]_vars
  PROVE  LoneInv'
  <1>1. ASSUME scenario' = scenario, run' = run, aws' = aws, failures' = failures,
               creating' \subseteq creating, NEW r \in Run, Alone(r)'
        PROVE  LoneOf(run[r], r, aws, creating')
    <2>1. LoneOf(run[r], r, aws, creating)
      BY <1>1 DEF LoneInv, Alone
    <2>2. Free(Stages, run[r], r, aws, creating) => Free(Stages, run[r], r, aws, creating')
      BY <1>1 DEF Free
    <2> QED BY <2>1, <2>2 DEF LoneOf
  <1>2. ASSUME NEW q \in Run, Only(q), NEW r \in Run, Alone(r)',
               \/ Started(q) \/ Continued(q) \/ Over(q)
               \/ \E b, c : Settled(q, b, c) \/ Threw(q, b, c)
        PROVE  LoneOf(run'[r], r, aws', creating')
    <2>1. run'[q].state # "idle"
      <3>1. Started(q) \/ Continued(q) \/ Over(q) => run'[q].state # "idle"
        BY DEF Started, Continued, Over, Entered
      <3>2. ASSUME NEW b, NEW c, Settled(q, b, c) \/ Threw(q, b, c)
            PROVE  run'[q].state # "idle"
        <4>1. run[q].state \in {"running", "rejected"}
          BY <3>2 DEF Settled, Threw, Called
        <4> QED BY <3>2, <4>1 DEF Settled, Threw, Thrown, Advanced, Ended, Entered
      <3> QED BY <1>2, <3>1, <3>2
    <2>2. q = r /\ failures' = 0
      BY <1>2, <2>1 DEF Alone
    <2>3. Alone(r)
      <3>1. failures = 0
        BY <1>2, <2>2 DEF Only, Shape
      <3>2. \A p \in Run \ {r} : run'[p] = run[p] /\ run'[p].state = "idle"
        BY <1>2, <2>2 DEF Only, Alone
      <3> QED BY <3>1, <3>2 DEF Alone
    <2>4. LoneOf(run[r], r, aws, creating)
      BY <2>3 DEF LoneInv
    <2> QED BY <1>2, <2>2, <2>4, LoneStarted, LoneContinued, LoneOver, LoneSettled, LoneThrew
  <1>3. ASSUME NEW r \in Run, Alone(r)'
        PROVE  scenario' = scenario /\ LoneOf(run'[r], r, aws', creating')
    <2>1. CASE /\ scenario' = scenario /\ run' = run /\ aws' = aws
               /\ failures' = failures /\ creating' \subseteq creating
      <3>1. LoneOf(run[r], r, aws, creating')
        BY <1>1, <1>3, <2>1
      <3> QED BY <2>1, <3>1
    <2>2. ASSUME NEW q \in Run, Only(q),
                 \/ Started(q) \/ Continued(q) \/ Over(q)
                 \/ \E b, c : Settled(q, b, c) \/ Threw(q, b, c)
          PROVE  scenario' = scenario /\ LoneOf(run'[r], r, aws', creating')
      BY <1>2, <1>3, <2>2 DEF Only
    <2> QED BY <2>1, <2>2, EveryStep
  <1>4. ASSUME NEW r \in Run, Alone(r)'
        PROVE  LoneOf(run[r], r, aws, creating)'
    BY <1>3, <1>4 DEF LoneOf, Forgives, Stages, job, Free, Ahead, Ready, Resource
  <1> QED BY <1>4 DEF LoneInv

LEMMA LoneMeans ==
  ASSUME Shape, LoneInv
  PROVE  RejectsOnlyWithReason
  <1> SUFFICES ASSUME NEW r \in Run, run[r].state = "rejected", ~(failures > 0),
                      \A q \in Run \ {r} : run[q].state = "idle"
               PROVE  \E c \in run[r].failed : c.kind \in {"require", "broken"}
    BY DEF RejectsOnlyWithReason
  <1>1. Alone(r)
    BY DEF Alone, Shape
  <1>2. LoneOf(run[r], r, aws, creating)
    BY <1>1 DEF LoneInv
  <1>3. Reasoned(run[r])
    BY <1>2 DEF LoneOf
  <1> QED BY <1>3 DEF Reasoned

(* A job that rejects has had a call fail, has overlapped with or followed  *)
(* another run of the job, has found nothing to fail over to, or has come  *)
(* to a call that throws whatever AWS holds: alone and unharmed, a run is  *)
(* refused nothing else, however many items its account has.               *)
THEOREM OnlyFailuresReject == Spec => []RejectsOnlyWithReason
  <1>1. Init => Shape /\ LoneInv
    BY ShapeInit, LoneInit
  <1>2. Shape /\ LoneInv /\ [Next]_vars => (Shape /\ LoneInv)'
    BY ShapeStep, LoneStep
  <1>3. Shape /\ LoneInv => RejectsOnlyWithReason
    BY LoneMeans
  <1> QED BY <1>1, <1>2, <1>3, PTL DEF Spec
=============================================================================
