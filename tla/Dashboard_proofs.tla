--------------------------- MODULE Dashboard_proofs ---------------------------
(***************************************************************************)
(* Proofs about the three parts of MCDashboard, for any number of calls    *)
(* that overlap:                                                           *)
(*  - ErrorRecovery: an attempt is in its budget, without a bound on how   *)
(*    many are begun, and is shown for as long as it takes;                *)
(*  - RoleList: the list catches up with the changes of its own screen;    *)
(*  - UserList: page and data agree at rest.  Assumed of the constants is  *)
(*    that the names of fetches, of handlers and of the data differ, and   *)
(*    that None is no page;                                                *)
(* and about their composition.                                            *)
(***************************************************************************)
EXTENDS MCDashboard, TLAPS

-----------------------------------------------------------------------------
(* ErrorRecovery                                                           *)

RecoveryTypeOK ==
  /\ attempts \in [Type -> Nat]
  /\ begun \in [Type -> Nat]
  /\ attempt \in [Attempt -> [pc : {"idle", "delay", "callback"}, type : Type,
                              alone : BOOLEAN]]

(* The budget counts what has been begun.                                  *)
Budget ==
  /\ begun = attempts
  /\ \A t \in Type : attempts[t] <= MaxAttempts[t]

UnderWay(a) == attempt[a].pc \in {"delay", "callback"}
Uncrossed(a) == attempt[a].alone = TRUE

(* An attempt that nothing crossed is the only one, and is shown.          *)
Shown ==
  /\ (\A a \in Attempt : ~ UnderWay(a)) => status # "recovering" /\ recovering = FALSE
  /\ \A a \in Attempt : UnderWay(a) /\ Uncrossed(a) =>
       /\ status = "recovering" /\ recovering = TRUE
       /\ \A b \in Attempt : UnderWay(b) => b = a

RecoveryInv == RecoveryTypeOK /\ Budget /\ Shown

-----------------------------------------------------------------------------
LEMMA Budgets == MaxAttempts \in [Type -> Nat]
  BY DEF MaxAttempts

LEMMA RecoveryInvInit == Init => RecoveryInv
  BY Budgets DEF Init, RecoveryInv, RecoveryTypeOK, Budget, Shown, Idle, Type, UnderWay

(* An attempt ends, told as over.                                          *)
LEMMA EndStep ==
  ASSUME RecoveryInv, NEW a \in Attempt, UnderWay(a),
         attempt' = [attempt EXCEPT ![a] = Idle],
         NEW s \in {"recovered", "failed"}, Tell(s), UNCHANGED <<attempts, begun>>
  PROVE  RecoveryInv'
  <1>1. RecoveryTypeOK' /\ Budget'
    BY DEF RecoveryInv, RecoveryTypeOK, Budget, Idle, Type
  <1>2. /\ ~ UnderWay(a)'
        /\ \A b \in Attempt \ {a} : attempt'[b] = attempt[b]
    BY DEF RecoveryInv, RecoveryTypeOK, UnderWay, Idle
  <1>3. \A b \in Attempt : UnderWay(b)' => UnderWay(b) /\ b # a /\ attempt'[b] = attempt[b]
    BY <1>2 DEF UnderWay
  <1>4. ASSUME NEW b \in Attempt, UnderWay(b)', Uncrossed(b)' PROVE FALSE
    BY <1>3, <1>4 DEF RecoveryInv, Shown, Uncrossed
  <1>5. status' # "recovering" /\ recovering' = FALSE
    BY DEF Tell
  <1> QED BY <1>1, <1>4, <1>5 DEF RecoveryInv, Shown

LEMMA RecoverStep ==
  ASSUME RecoveryInv, NEW a \in Attempt, NEW t \in Type, Recover(a, t) PROVE RecoveryInv'
  <1>1. Budget'
    <2>1. /\ attempts' = [attempts EXCEPT ![t] = @ + 1]
          /\ begun' = [begun EXCEPT ![t] = @ + 1]
          /\ attempts[t] < MaxAttempts[t]
      BY Zenon DEF Recover
    <2>2. attempts \in [Type -> Nat] /\ Budget
      BY DEF RecoveryInv, RecoveryTypeOK
    <2> QED BY <2>1, <2>2, Budgets DEF Budget
  <1>2. RecoveryTypeOK'
    <2>1. attempts' \in [Type -> Nat] /\ begun' \in [Type -> Nat]
      <3>1. /\ attempts' = [attempts EXCEPT ![t] = @ + 1]
            /\ begun' = [begun EXCEPT ![t] = @ + 1]
        BY Zenon DEF Recover
      <3>2. attempts \in [Type -> Nat] /\ begun \in [Type -> Nat]
        BY DEF RecoveryInv, RecoveryTypeOK
      <3> QED BY <3>1, <3>2
    <2>2. attempt' \in [Attempt -> [pc : {"idle", "delay", "callback"}, type : Type,
                                    alone : BOOLEAN]]
      <3> DEFINE Local == [pc : {"idle", "delay", "callback"}, type : Type,
                           alone : BOOLEAN]
      <3>1. [pc |-> "delay", type |-> t, alone |-> Recovering = {}] \in Local
        <4>1. (Recovering = {}) \in BOOLEAN
          BY Zenon
        <4> HIDE DEF Type
        <4> QED BY <4>1
      <3>2. \A b \in Attempt : [attempt[b] EXCEPT !.alone = FALSE] \in Local
        BY DEF RecoveryInv, RecoveryTypeOK
      <3> HIDE DEF Local
      <3>3. attempt' = [b \in Attempt |->
               IF b = a THEN [pc |-> "delay", type |-> t, alone |-> Recovering = {}]
               ELSE [attempt[b] EXCEPT !.alone = FALSE]]
        BY Zenon DEF Recover
      <3>4. attempt' \in [Attempt -> Local]
        BY <3>1, <3>2, <3>3, Zenon
      <3> QED BY <3>4, Zenon DEF Local
    <2> QED BY <2>1, <2>2 DEF RecoveryTypeOK
  <1>3. UnderWay(a)' /\ status' = "recovering" /\ recovering' = TRUE
    BY DEF Recover, Tell, UnderWay
  <1>4. Uncrossed(a)' => \A b \in Attempt : ~ UnderWay(b)
    BY DEF Recover, Recovering, UnderWay, Uncrossed
  <1>5. \A b \in Attempt \ {a} : ~ Uncrossed(b)' /\ (UnderWay(b)' => UnderWay(b))
    BY DEF Recover, RecoveryInv, RecoveryTypeOK, UnderWay, Uncrossed
  <1> QED BY <1>1, <1>2, <1>3, <1>4, <1>5 DEF RecoveryInv, Shown

LEMMA RefuseStep == ASSUME RecoveryInv, NEW t \in Type, Refuse(t) PROVE RecoveryInv'
  <1>1. RecoveryTypeOK' /\ Budget'
    BY DEF Refuse, RecoveryInv, RecoveryTypeOK, Budget
  <1>2. \A b \in Attempt : ~ Uncrossed(b)' /\ (UnderWay(b)' <=> UnderWay(b))
    BY DEF Refuse, RecoveryInv, RecoveryTypeOK, UnderWay, Uncrossed
  <1>3. status' = status /\ recovering' = FALSE
    BY DEF Refuse
  <1> QED BY <1>1, <1>2, <1>3 DEF RecoveryInv, Shown

LEMMA DelayStep == ASSUME RecoveryInv, NEW a \in Attempt, Delay(a) PROVE RecoveryInv'
  <1>1. RecoveryTypeOK' /\ Budget'
    BY DEF Delay, RecoveryInv, RecoveryTypeOK, Budget
  <1>2. \A b \in Attempt : (Uncrossed(b)' <=> Uncrossed(b)) /\ (UnderWay(b)' <=> UnderWay(b))
    BY DEF Delay, RecoveryInv, RecoveryTypeOK, UnderWay, Uncrossed
  <1>3. UNCHANGED <<status, recovering>>
    BY DEF Delay
  <1> QED BY <1>1, <1>2, <1>3 DEF RecoveryInv, Shown

LEMMA ResetStep == ASSUME RecoveryInv, NEW t \in Type, ResetAttempts(t) PROVE RecoveryInv'
  <1>1. RecoveryTypeOK' /\ Budget'
    <2>1. /\ attempts' = [attempts EXCEPT ![t] = 0] /\ begun' = [begun EXCEPT ![t] = 0]
          /\ attempt' = attempt
      BY DEF ResetAttempts
    <2>2. RecoveryTypeOK /\ Budget
      BY DEF RecoveryInv
    <2>3. RecoveryTypeOK'
      BY <2>1, <2>2 DEF RecoveryTypeOK
    <2>4. Budget'
      <3>1. attempts \in [Type -> Nat] /\ begun = attempts
        BY <2>2 DEF RecoveryTypeOK, Budget
      <3>2. \A u \in Type : attempts'[u] = IF u = t THEN 0 ELSE attempts[u]
        BY <2>1, <3>1
      <3>3. \A u \in Type : attempts[u] <= MaxAttempts[u]
        BY <2>2 DEF Budget
      <3>4. \A u \in Type : attempts'[u] <= MaxAttempts[u]
        BY <3>1, <3>2, <3>3, Budgets
      <3> QED BY <2>1, <3>1, <3>4 DEF Budget
    <2> QED BY <2>3, <2>4
  <1>2. UNCHANGED <<status, recovering, attempt>>
    BY DEF ResetAttempts
  <1> QED BY <1>1, <1>2 DEF RecoveryInv, Shown, UnderWay, Uncrossed

LEMMA LeaveStep == ASSUME RecoveryInv, Leave PROVE RecoveryInv'
  <1>1. RecoveryTypeOK' /\ Budget'
    <2>1. /\ attempts' = [t \in Type |-> 0] /\ begun' = [t \in Type |-> 0]
          /\ attempt' = [a \in Attempt |-> Idle]
      BY DEF Leave
    <2>2. Idle \in [pc : {"idle", "delay", "callback"}, type : Type, alone : BOOLEAN]
      BY DEF Idle, Type
    <2>3. Budget'
      BY <2>1, Budgets DEF Budget
    <2>4. attempts' \in [Type -> Nat] /\ begun' \in [Type -> Nat]
      BY <2>1
    <2> QED BY <2>1, <2>2, <2>3, <2>4, Zenon DEF RecoveryTypeOK
  <1>2. \A b \in Attempt : ~ UnderWay(b)'
    BY DEF Leave, Idle, UnderWay
  <1>3. status' # "recovering" /\ recovering' = FALSE
    BY DEF Leave
  <1> QED BY <1>1, <1>2, <1>3 DEF RecoveryInv, Shown

LEMMA RecoveryInvStep == RecoveryInv /\ [Next]_vars => RecoveryInv'
  <1> SUFFICES ASSUME RecoveryInv, [Next]_vars PROVE RecoveryInv'
    OBVIOUS
  <1>1. ASSUME NEW t \in Type, NEW a \in Attempt, Recover(a, t) PROVE RecoveryInv'
    BY <1>1, RecoverStep
  <1>2. ASSUME NEW t \in Type, Refuse(t) \/ ResetAttempts(t) PROVE RecoveryInv'
    BY <1>2, RefuseStep, ResetStep
  <1>3. ASSUME NEW a \in Attempt, Delay(a) PROVE RecoveryInv'
    BY <1>3, DelayStep
  <1>4. ASSUME NEW a \in Attempt, Succeed(a) PROVE RecoveryInv'
    BY <1>4, EndStep DEF Succeed, UnderWay
  <1>5. ASSUME NEW a \in Attempt, Fail(a) PROVE RecoveryInv'
    BY <1>5, EndStep DEF Fail, UnderWay
  <1>6. CASE UNCHANGED vars
    BY <1>6 DEF vars, RecoveryInv, RecoveryTypeOK, Budget, Shown, UnderWay, Uncrossed
  <1> QED BY <1>1, <1>2, <1>3, <1>4, <1>5, <1>6, LeaveStep DEF Next

(* errorRecovery.ts begins no more attempts of one type than its budget    *)
(* has, overlapping ones included; and useErrorRecovery shows recovering   *)
(* never without an attempt, and always for one that nothing crossed.      *)
THEOREM RecoveryAlwaysToldAndBounded == Spec => []RecoveryIsToldAndBounded
<1>1. Init => RecoveryInv
  BY RecoveryInvInit
<1>2. RecoveryInv /\ [Next]_vars => RecoveryInv'
  BY RecoveryInvStep
<1>3. RecoveryInv => RecoveryIsToldAndBounded
  <2> SUFFICES ASSUME RecoveryInv PROVE RecoveryIsToldAndBounded
    OBVIOUS
  <2>1. \A t \in Type : begun[t] <= MaxAttempts[t]
    BY DEF RecoveryInv, Budget
  <2>2. Recovering = {} => status # "recovering" /\ ~ recovering
    BY DEF RecoveryInv, Shown, Recovering, UnderWay
  <2>3. \A a \in Recovering : attempt[a].alone => status = "recovering" /\ recovering
    BY DEF RecoveryInv, RecoveryTypeOK, Shown, Recovering, UnderWay, Uncrossed
  <2> QED BY <2>1, <2>2, <2>3 DEF RecoveryIsToldAndBounded
<1> QED BY <1>1, <1>2, <1>3, PTL DEF Spec

-----------------------------------------------------------------------------
(* RoleList                                                                *)

LoadState ==
  {Roles!Idle} \cup [pc : {"sent"}, data : {None}] \cup [pc : {"served"}, data : Nat]
ChangeState ==
  {Roles!Idle} \cup [pc : {"sent", "applied"}, kind : {"delete", "permissions", "form"},
                     version : Nat]

RolesTypeOK ==
  /\ version \in Nat /\ known \in Nat
  /\ load \in [Load -> LoadState]
  /\ change \in [Change -> ChangeState]
  /\ roles \in [data : Nat \cup {None}, loading : BOOLEAN, error : BOOLEAN]
  /\ newest \in [load : Load \cup {None}, alone : BOOLEAN]

(* What a change ended with has happened.                                  *)
KnownHappened ==
  /\ known <= version
  /\ \A x \in Change : change[x] # Roles!Idle => change[x].version <= version

ShowsKnown == roles.loading = FALSE /\ (roles.error = TRUE \/ roles.data >= known)

(* A load that began alone is the only one, and brings what was known when *)
(* it began, which is what is known: to know more is to load again.        *)
NewestShown ==
  newest.alone = TRUE =>
    /\ Roles!Loading \subseteq {newest.load}
    /\ \A l \in Roles!Loading : load[l].pc = "served" => load[l].data >= known
    /\ Roles!Loading = {} /\ newest.load # None => ShowsKnown

RolesInv == RolesTypeOK /\ KnownHappened /\ NewestShown

-----------------------------------------------------------------------------
LEMMA LoadOf ==
  ASSUME RolesTypeOK, NEW l \in Load
  PROVE  /\ load[l].pc = "idle" <=> load[l] = Roles!Idle
         /\ load[l].pc = "sent" => load[l].data = None
         /\ load[l].pc = "served" => load[l].data \in Nat
         /\ load[l].pc \in {"idle", "sent", "served"}
         /\ l \in Roles!Loading <=> load[l].pc # "idle"
  BY DEF RolesTypeOK, LoadState, Roles!Idle, Roles!Loading

LEMMA RolesInvInit == Roles!Init => RolesInv
  <1> SUFFICES ASSUME Roles!Init PROVE RolesInv
    OBVIOUS
  <1>1. RolesTypeOK
    BY DEF Roles!Init, RolesTypeOK, LoadState, ChangeState
  <1>2. KnownHappened
    BY DEF Roles!Init, KnownHappened
  <1>3. NewestShown
    BY DEF Roles!Init, NewestShown, Roles!Loading
  <1> QED BY <1>1, <1>2, <1>3 DEF RolesInv

(* A step that neither begins nor ends a load, nor learns of a change.     *)
LEMMA RolesKept ==
  ASSUME RolesInv, RolesTypeOK', KnownHappened',
         load' = load, roles' = roles, known' = known, newest' = newest
  PROVE  RolesInv'
  BY DEF RolesInv, NewestShown, Roles!Loading, ShowsKnown

LEMMA FetchRolesStep ==
  ASSUME RolesInv, NEW l \in Load, Roles!FetchRoles(l)
  PROVE  RolesInv'
  <1>s. PICK s : s = [pc |-> "served", data |-> version]
    OBVIOUS
  <1>1. /\ load[l].pc = "sent" /\ load' = [load EXCEPT ![l] = s]
        /\ version' = version /\ roles' = roles /\ change' = change /\ known' = known
        /\ newest' = newest
    BY <1>s, Zenon DEF Roles!FetchRoles
  <1>2. s \in LoadState /\ s.pc = "served" /\ s.data = version
    BY <1>s DEF RolesInv, RolesTypeOK, LoadState
  <1>3. RolesTypeOK' /\ KnownHappened'
    BY <1>1, <1>2 DEF RolesInv, RolesTypeOK, KnownHappened
  <1>4. load'[l] = s /\ \A k \in Load : k # l => load'[k] = load[k]
    BY <1>1 DEF RolesInv, RolesTypeOK
  <1>5. Roles!Loading' = Roles!Loading /\ l \in Roles!Loading
    BY <1>1, <1>2, <1>4 DEF Roles!Loading, Roles!Idle
  <1>6. version >= known
    BY DEF RolesInv, KnownHappened, RolesTypeOK
  <1>7. NewestShown'
    BY <1>1, <1>2, <1>4, <1>5, <1>6 DEF RolesInv, NewestShown, Roles!Loading
  <1> QED BY <1>3, <1>7 DEF RolesInv

(* An answer, or an error, ends the load.                                  *)
LEMMA LoadEnds ==
  ASSUME RolesInv, NEW l \in Load, load[l].pc # "idle",
         load' = [load EXCEPT ![l] = Roles!Idle],
         version' = version, change' = change, known' = known, newest' = newest,
         roles' \in [data : Nat \cup {None}, loading : BOOLEAN, error : BOOLEAN],
         NewestShown => newest.alone = FALSE \/ ShowsKnown'
  PROVE  RolesInv'
  <1>1. RolesTypeOK' /\ KnownHappened'
    BY DEF RolesInv, RolesTypeOK, KnownHappened, LoadState
  <1>2. load'[l] = Roles!Idle /\ \A k \in Load : k # l => load'[k] = load[k]
    BY DEF RolesInv, RolesTypeOK
  <1>3. Roles!Loading' \subseteq Roles!Loading
    BY <1>2 DEF Roles!Loading
  <1>4. \A k \in Roles!Loading' : k # l /\ k \in Roles!Loading /\ load'[k] = load[k]
    BY <1>2 DEF Roles!Loading
  <1>5. newest.alone = TRUE => ShowsKnown'
    BY DEF RolesInv
  <1>6. NewestShown'
    BY <1>3, <1>4, <1>5 DEF RolesInv, NewestShown
  <1> QED BY <1>1, <1>6 DEF RolesInv

LEMMA ResolveStep ==
  ASSUME RolesInv, NEW l \in Load, Roles!Resolve(l)
  PROVE  RolesInv'
  <1>r. PICK r : r = [data |-> load[l].data, loading |-> FALSE, error |-> FALSE]
    OBVIOUS
  <1>1. /\ load[l].pc = "served" /\ roles' = r
        /\ load' = [load EXCEPT ![l] = Roles!Idle]
        /\ version' = version /\ change' = change /\ known' = known /\ newest' = newest
    BY <1>r, Zenon DEF Roles!Resolve
  <1>2. load[l].data \in Nat /\ l \in Roles!Loading
    BY <1>1, LoadOf DEF RolesInv
  <1>3. /\ r \in [data : Nat \cup {None}, loading : BOOLEAN, error : BOOLEAN]
        /\ r.data = load[l].data /\ r.loading = FALSE
    BY <1>r, <1>2
  <1>4. NewestShown => newest.alone = FALSE \/ load[l].data >= known
    BY <1>1, <1>2 DEF NewestShown, RolesInv, RolesTypeOK
  <1>5. NewestShown => newest.alone = FALSE \/ ShowsKnown'
    BY <1>1, <1>3, <1>4 DEF ShowsKnown
  <1> QED BY <1>1, <1>3, <1>5, LoadEnds

LEMMA RejectStep ==
  ASSUME RolesInv, NEW l \in Load, Roles!Reject(l)
  PROVE  RolesInv'
  <1>r. PICK r : r = [data |-> None, loading |-> FALSE, error |-> TRUE]
    OBVIOUS
  <1>1. /\ load[l] # Roles!Idle /\ roles' = r
        /\ load' = [load EXCEPT ![l] = Roles!Idle]
        /\ version' = version /\ change' = change /\ known' = known /\ newest' = newest
    BY <1>r, Zenon DEF Roles!Reject
  <1>2. load[l].pc # "idle"
    BY <1>1, LoadOf DEF RolesInv
  <1>3. /\ r \in [data : Nat \cup {None}, loading : BOOLEAN, error : BOOLEAN]
        /\ r.error = TRUE /\ r.loading = FALSE
    BY <1>r
  <1> QED BY <1>1, <1>2, <1>3, LoadEnds DEF ShowsKnown

(* A change ends, with what it knows, and loads the list again.            *)
LEMMA FinishStep ==
  ASSUME RolesInv, NEW x \in Change, NEW l \in Load, Roles!Finish(x, l),
         change[x] # Roles!Idle
  PROVE  RolesInv'
  <1>s. PICK s : s = [pc |-> "sent", data |-> None]
    OBVIOUS
  <1>r. PICK r : r = [data |-> None, loading |-> TRUE, error |-> FALSE]
    OBVIOUS
  <1>n. PICK n : n = [load |-> l, alone |-> Roles!Loading = {}]
    OBVIOUS
  <1>1. /\ change' = [change EXCEPT ![x] = Roles!Idle]
        /\ known' = IF change[x].version > known THEN change[x].version ELSE known
        /\ load[l] = Roles!Idle
        /\ load' = [load EXCEPT ![l] = s]
        /\ roles' = r /\ newest' = n /\ version' = version
    BY <1>s, <1>r, <1>n, Zenon DEF Roles!Finish, Roles!LoadRoles
  <1>2. s \in LoadState /\ s.pc = "sent" /\ s # Roles!Idle
    BY <1>s DEF LoadState, Roles!Idle
  <1>3. r \in [data : Nat \cup {None}, loading : BOOLEAN, error : BOOLEAN]
    BY <1>r
  <1>4. n \in [load : Load \cup {None}, alone : BOOLEAN] /\ n.load = l
    <2>1. (Roles!Loading = {}) \in BOOLEAN
      BY Zenon
    <2> QED BY <1>n, <2>1
  <1>5. n.alone = TRUE => Roles!Loading = {}
    BY <1>n
  <1>6. change[x].version \in Nat /\ change[x].version <= version
    BY DEF RolesInv, RolesTypeOK, ChangeState, KnownHappened
  <1>7. known' \in Nat /\ known' <= version
    BY <1>1, <1>6 DEF RolesInv, RolesTypeOK, KnownHappened
  <1>8. RolesTypeOK'
    BY <1>1, <1>2, <1>3, <1>4, <1>7 DEF RolesInv, RolesTypeOK, ChangeState
  <1>9. KnownHappened'
    BY <1>1, <1>7 DEF RolesInv, RolesTypeOK, KnownHappened
  <1>10. load'[l] = s /\ \A k \in Load : k # l => load'[k] = load[k]
    BY <1>1 DEF RolesInv, RolesTypeOK
  <1>11. Roles!Loading' = Roles!Loading \cup {l}
    BY <1>2, <1>10 DEF Roles!Loading
  <1>12. NewestShown'
    BY <1>1, <1>2, <1>4, <1>5, <1>10, <1>11 DEF NewestShown
  <1> QED BY <1>8, <1>9, <1>12 DEF RolesInv

LEMMA BeginStep ==
  ASSUME RolesInv, NEW x \in Change, NEW kind \in {"delete", "permissions", "form"},
         Roles!Begin(x, kind)
  PROVE  RolesInv'
  <1>s. PICK s : s = [pc |-> "sent", kind |-> kind, version |-> 0]
    OBVIOUS
  <1>1. /\ change' = [change EXCEPT ![x] = s]
        /\ version' = version /\ roles' = roles /\ load' = load /\ known' = known
        /\ newest' = newest
    BY <1>s, Zenon DEF Roles!Begin
  <1>2. s \in ChangeState /\ s.version = 0
    BY <1>s DEF ChangeState
  <1>3. RolesTypeOK' /\ KnownHappened'
    BY <1>1, <1>2 DEF RolesInv, RolesTypeOK, KnownHappened
  <1> QED BY <1>1, <1>3, RolesKept

LEMMA ApplyStep ==
  ASSUME RolesInv, NEW x \in Change, Roles!Apply(x)
  PROVE  RolesInv'
  <1>c. PICK c : c = change[x]
    OBVIOUS
  <1>v. PICK v : v = version + 1
    OBVIOUS
  <1>s. PICK s : s = [c EXCEPT !.pc = "applied", !.version = v]
    OBVIOUS
  <1>1. /\ c.pc = "sent" /\ version' = v
        /\ change' = [change EXCEPT ![x].pc = "applied", ![x].version = version + 1]
        /\ roles' = roles /\ load' = load /\ known' = known /\ newest' = newest
    BY <1>c, <1>v, Zenon DEF Roles!Apply
  <1>2. v \in Nat /\ version <= v /\ change \in [Change -> ChangeState]
    BY <1>v DEF RolesInv, RolesTypeOK
  <1>3. c \in ChangeState /\ c # Roles!Idle
    BY <1>c, <1>1, <1>2 DEF Roles!Idle
  <1>4. s \in ChangeState /\ s.version = v
    BY <1>s, <1>2, <1>3 DEF ChangeState
  <1>5. change' = [change EXCEPT ![x] = s]
    BY <1>c, <1>s, <1>v, <1>1, <1>2
  <1>6. RolesTypeOK'
    <2>1. change' \in [Change -> ChangeState]
      BY <1>2, <1>4, <1>5
    <2> QED BY <1>1, <1>2, <2>1 DEF RolesInv, RolesTypeOK
  <1>7. KnownHappened'
    <2>1. \A y \in Change : change[y] # Roles!Idle => change[y].version \in Nat
      BY <1>2 DEF ChangeState
    <2>2. known \in Nat /\ version \in Nat
      BY DEF RolesInv, RolesTypeOK
    <2>3. /\ known <= version
          /\ \A y \in Change : change[y] # Roles!Idle => change[y].version <= version
      BY DEF RolesInv, KnownHappened
    <2>4. change'[x] = s /\ \A y \in Change : y # x => change'[y] = change[y]
      BY <1>2, <1>5
    <2>5. known <= v /\ v <= v
      BY <1>2, <2>2, <2>3
    <2>6. ASSUME NEW y \in Change, y # x, change[y] # Roles!Idle
          PROVE  change[y].version <= v
      BY <1>2, <2>1, <2>2, <2>3, <2>6
    <2> QED BY <1>1, <1>4, <2>4, <2>5, <2>6 DEF KnownHappened
  <1> QED BY <1>1, <1>6, <1>7, RolesKept

LEMMA OtherRolesStep ==
  ASSUME RolesInv,
         \/ \E form \in BOOLEAN : Roles!OpenForRole(form)
         \/ Roles!OpenCreate \/ Roles!Close \/ Roles!ChangeElsewhere
         \/ \E x \in Change : Roles!FailForm(x)
         \/ UNCHANGED <<version, roles, dialog, selected, change, load, known, newest>>
  PROVE  RolesInv'
  <1>1. /\ roles' = roles /\ load' = load /\ known' = known /\ newest' = newest
        /\ version' \in {version, version + 1}
        /\ \/ change' = change
           \/ \E x \in Change : change' = [change EXCEPT ![x] = Roles!Idle]
    BY DEF Roles!OpenForRole, Roles!OpenCreate, Roles!Close, Roles!ChangeElsewhere,
           Roles!FailForm
  <1>2. RolesTypeOK'
    BY <1>1 DEF RolesInv, RolesTypeOK, ChangeState
  <1>3. KnownHappened'
    <2>1. /\ \A y \in Change : change'[y] # Roles!Idle => change'[y] = change[y]
          /\ \A y \in Change : change[y] # Roles!Idle => change[y].version \in Nat
          /\ known \in Nat /\ version \in Nat
      BY <1>1 DEF RolesInv, RolesTypeOK, ChangeState
    <2> QED BY <1>1, <2>1 DEF RolesInv, KnownHappened
  <1> QED BY <1>1, <1>2, <1>3, RolesKept

LEMMA RolesInvNext ==
  ASSUME RolesInv, [Roles!Next]_(Roles!vars)
  PROVE  RolesInv'
  <1>1. ASSUME NEW l \in Load, Roles!FetchRoles(l) \/ Roles!Resolve(l) \/ Roles!Reject(l)
        PROVE  RolesInv'
    BY <1>1, FetchRolesStep, ResolveStep, RejectStep
  <1>2. ASSUME NEW x \in Change,
               \/ Roles!HandleDeleteClick(x) \/ Roles!HandlePermissionSave(x)
               \/ Roles!HandleSubmit(x)
        PROVE  RolesInv'
    BY <1>2, BeginStep
       DEF Roles!HandleDeleteClick, Roles!HandlePermissionSave, Roles!HandleSubmit
  <1>3. ASSUME NEW x \in Change, NEW l \in Load,
               Roles!Answer(x, l) \/ Roles!FailHandler(x, l)
        PROVE  RolesInv'
    <2>1. Roles!Finish(x, l) /\ change[x] # Roles!Idle
      BY <1>3 DEF Roles!Answer, Roles!FailHandler, Roles!Idle
    <2> QED BY <2>1, FinishStep
  <1>4. ASSUME NEW x \in Change, Roles!Apply(x) PROVE RolesInv'
    BY <1>4, ApplyStep
  <1> QED BY <1>1, <1>2, <1>3, <1>4, OtherRolesStep DEF Roles!Next, Roles!vars

(* The screen of roles catches up with its own changes, for any number of  *)
(* them and of loads that overlap: RoleList.tsx, useApi.ts.                *)
THEOREM ListAlwaysCatchesUp == Roles!Spec => []ListCatchesUp
  <1>1. Roles!Init => RolesInv
    BY RolesInvInit
  <1>2. RolesInv /\ [Roles!Next]_(Roles!vars) => RolesInv'
    BY RolesInvNext
  <1>3. RolesInv => ListCatchesUp
    BY DEF RolesInv, RolesTypeOK, NewestShown, ShowsKnown, ListCatchesUp,
           Roles!ListCatchesUp
  <1> QED BY <1>1, <1>2, <1>3, PTL DEF Roles!Spec

-----------------------------------------------------------------------------
(* UserList                                                                *)

ShownPage == Page \cup {1}
ShownLimit == Limit \cup {Initial}
Rendering == [page : ShownPage, limit : ShownLimit]

UsersTypeOK ==
  /\ page \in ShownPage /\ limit \in ShownLimit
  /\ fetch \in [Fetch -> Rendering \cup {Users!Idle}]
  /\ handler \in [Handler ->
       [page : ShownPage, limit : ShownLimit, form : BOOLEAN] \cup {Users!Idle}]
  /\ outdated \subseteq {"data"} \cup Fetch \cup Handler

(* What ends last sets the page with the data, or the error.               *)
AgreeAtRest ==
  Users!Fetching = {} => /\ loading = FALSE
                         /\ error = TRUE \/ data = Users!Idle \/ data.page = page

(* What was begun with another limit than the one there is, is outdated.   *)
LimitsDated ==
  /\ data = Users!Idle \/ data.limit = limit \/ "data" \in outdated
  /\ \A f \in Users!Fetching : fetch[f].limit = limit \/ f \in outdated
  /\ \A h \in Handler :
       handler[h] = Users!Idle \/ handler[h].limit = limit \/ h \in outdated

UsersInv == UsersTypeOK /\ AgreeAtRest /\ LimitsDated

-----------------------------------------------------------------------------
(* What the theorem assumes of the constants: that names of different      *)
(* things differ.                                                          *)
UsersConstants ==
  None \notin ShownPage /\ "data" \notin Fetch \cup Handler /\ Fetch \cap Handler = {}

LEMMA UsersInvInit == Users!Init => UsersInv
  <1> SUFFICES ASSUME Users!Init PROVE UsersInv
    OBVIOUS
  <1>1. UsersTypeOK
    BY DEF Users!Init, UsersTypeOK, ShownPage, ShownLimit
  <1>2. AgreeAtRest /\ LimitsDated
    BY DEF Users!Init, AgreeAtRest, LimitsDated, Users!Fetching
  <1> QED BY <1>1, <1>2 DEF UsersInv

(* A fetch that is begun is under way, and so nothing is at rest.          *)
LEMMA FetchBegins ==
  ASSUME UsersConstants, UsersInv, NEW f \in Fetch, NEW p \in ShownPage,
         NEW n \in ShownLimit, NEW q \in ShownPage, Users!FetchPage(f, p, n, q)
  PROVE  /\ fetch' \in [Fetch -> Rendering \cup {Users!Idle}]
         /\ fetch'[f] = [page |-> p, limit |-> n] /\ fetch'[f].limit = n
         /\ \A g \in Fetch : g # f => fetch'[g] = fetch[g]
         /\ page' = q
         /\ AgreeAtRest'
         /\ Users!Fetching' = Users!Fetching \cup {f}
  <1>s. PICK s : s = [page |-> p, limit |-> n]
    OBVIOUS
  <1>1. fetch' = [fetch EXCEPT ![f] = s] /\ page' = q
    BY <1>s, Zenon DEF Users!FetchPage
  <1>2. s \in Rendering /\ s # Users!Idle /\ s.limit = n
    BY <1>s DEF Rendering, Users!Idle, UsersConstants
  <1>3. /\ fetch' \in [Fetch -> Rendering \cup {Users!Idle}]
        /\ fetch'[f] = s /\ \A g \in Fetch : g # f => fetch'[g] = fetch[g]
    BY <1>1, <1>2 DEF UsersInv, UsersTypeOK
  <1>4. Users!Fetching' = Users!Fetching \cup {f}
    BY <1>2, <1>3 DEF Users!Fetching
  <1> QED BY <1>1, <1>2, <1>3, <1>4, <1>s DEF AgreeAtRest

LEMMA FreshFetch ==
  ASSUME UsersConstants, UsersInv, NEW f \in Fetch, NEW p \in ShownPage,
         Users!FetchPage(f, p, limit, page), outdated' = outdated \ {f},
         limit' = limit, data' = data, handler' = handler
  PROVE  UsersInv'
  <1>0. page \in ShownPage /\ limit \in ShownLimit
    BY DEF UsersInv, UsersTypeOK
  <1>1. /\ fetch' \in [Fetch -> Rendering \cup {Users!Idle}]
        /\ fetch'[f].limit = limit
        /\ \A g \in Fetch : g # f => fetch'[g] = fetch[g]
        /\ page' = page
        /\ AgreeAtRest'
        /\ Users!Fetching' = Users!Fetching \cup {f}
    BY <1>0, FetchBegins
  <1>2. UsersTypeOK'
    BY <1>1 DEF UsersInv, UsersTypeOK
  <1>3. LimitsDated'
    BY <1>1 DEF UsersInv, LimitsDated, UsersConstants, Users!Fetching
  <1> QED BY <1>1, <1>2, <1>3 DEF UsersInv

LEMMA ChangeLimitStep ==
  ASSUME UsersConstants, UsersInv, NEW f \in Fetch, NEW n \in Limit, Users!ChangeLimit(f, n)
  PROVE  UsersInv'
  <1>1. /\ limit' = n /\ Users!FetchPage(f, 1, limit, 1) /\ data' = data
        /\ handler' = handler
        /\ outdated' = {"data", f} \cup Users!Fetching
                         \cup {h \in Handler : handler[h] # Users!Idle}
    BY DEF Users!ChangeLimit
  <1>2. 1 \in ShownPage /\ limit \in ShownLimit
    BY DEF UsersInv, UsersTypeOK, ShownPage
  <1>3. /\ fetch' \in [Fetch -> Rendering \cup {Users!Idle}]
        /\ page' = 1
        /\ AgreeAtRest'
        /\ Users!Fetching' = Users!Fetching \cup {f}
    <2>1. PICK first \in ShownPage, before \in ShownLimit : first = 1 /\ before = limit
      BY <1>2
    <2>2. Users!FetchPage(f, first, before, first)
      BY <1>1, <2>1, Zenon
    <2>3. /\ fetch' \in [Fetch -> Rendering \cup {Users!Idle}]
          /\ page' = first
          /\ AgreeAtRest'
          /\ Users!Fetching' = Users!Fetching \cup {f}
      BY <2>2, FetchBegins
    <2> QED BY <2>1, <2>3
  <1>4. UsersTypeOK'
    BY <1>1, <1>2, <1>3 DEF UsersInv, UsersTypeOK, ShownLimit, Users!Fetching
  <1>5. LimitsDated'
    BY <1>1, <1>3 DEF LimitsDated
  <1> QED BY <1>3, <1>4, <1>5 DEF UsersInv

LEMMA BeginHandlerStep ==
  ASSUME UsersConstants, UsersInv, NEW h \in Handler, Users!Begin(h), isFormOpen \in BOOLEAN
  PROVE  UsersInv'
  <1>s. PICK s : s = [page |-> page, limit |-> limit, form |-> isFormOpen]
    OBVIOUS
  <1>1. /\ handler' = [handler EXCEPT ![h] = s] /\ outdated' = outdated \ {h}
        /\ page' = page /\ limit' = limit /\ loading' = loading /\ error' = error
        /\ data' = data /\ fetch' = fetch
    BY <1>s, Zenon DEF Users!Begin
  <1>2. /\ s \in [page : ShownPage, limit : ShownLimit, form : BOOLEAN]
        /\ s.limit = limit
    BY <1>s DEF UsersInv, UsersTypeOK
  <1>3. UsersTypeOK'
    BY <1>1, <1>2 DEF UsersInv, UsersTypeOK
  <1>4. handler'[h] = s /\ \A g \in Handler : g # h => handler'[g] = handler[g]
    BY <1>1 DEF UsersInv, UsersTypeOK
  <1>5. AgreeAtRest' /\ Users!Fetching' = Users!Fetching
    BY <1>1 DEF UsersInv, AgreeAtRest, Users!Fetching
  <1>6. LimitsDated'
    BY <1>1, <1>2, <1>4, <1>5 DEF UsersInv, LimitsDated, UsersConstants, Users!Fetching
  <1> QED BY <1>3, <1>5, <1>6 DEF UsersInv

LEMMA FinishHandlerStep ==
  ASSUME UsersConstants, UsersInv, NEW h \in Handler, NEW f \in Fetch, Users!Finish(h, f)
  PROVE  UsersInv'
  <1>r. PICK r : r = handler[h]
    OBVIOUS
  <1>1. /\ r # Users!Idle /\ Users!FetchPage(f, r.page, r.limit, page)
        /\ handler' = [handler EXCEPT ![h] = Users!Idle]
        /\ outdated' = IF h \in outdated THEN (outdated \ {h}) \cup {f} ELSE outdated \ {f}
        /\ limit' = limit /\ data' = data
    BY <1>r, Zenon DEF Users!Finish
  <1>2. /\ r.page \in ShownPage /\ r.limit \in ShownLimit /\ page \in ShownPage
        /\ r.limit = limit \/ h \in outdated
    BY <1>r, <1>1 DEF UsersInv, UsersTypeOK, LimitsDated
  <1>3. /\ fetch' \in [Fetch -> Rendering \cup {Users!Idle}]
        /\ fetch'[f].limit = r.limit
        /\ \A g \in Fetch : g # f => fetch'[g] = fetch[g]
        /\ page' = page
        /\ AgreeAtRest'
        /\ Users!Fetching' = Users!Fetching \cup {f}
    BY ZenonT(30), <1>1, <1>2, FetchBegins
  <1>4. UsersTypeOK'
    BY <1>1, <1>2, <1>3 DEF UsersInv, UsersTypeOK
  <1>5. handler'[h] = Users!Idle /\ \A g \in Handler : g # h => handler'[g] = handler[g]
    BY <1>1 DEF UsersInv, UsersTypeOK
  <1>6. LimitsDated'
    <2>1. data' = Users!Idle \/ data'.limit = limit' \/ "data" \in outdated'
      BY <1>1 DEF UsersInv, LimitsDated, UsersConstants
    <2>2. ASSUME NEW g \in Users!Fetching' PROVE fetch'[g].limit = limit' \/ g \in outdated'
      BY <1>1, <1>2, <1>3 DEF UsersInv, LimitsDated, UsersConstants, Users!Fetching
    <2>3. ASSUME NEW g \in Handler
          PROVE  handler'[g] = Users!Idle \/ handler'[g].limit = limit' \/ g \in outdated'
      BY <1>1, <1>5 DEF UsersInv, LimitsDated, UsersConstants
    <2> QED BY <2>1, <2>2, <2>3 DEF LimitsDated
  <1> QED BY <1>3, <1>4, <1>6 DEF UsersInv

LEMMA FailFormStep ==
  ASSUME UsersConstants, UsersInv, NEW h \in Handler, Users!FailForm(h)
  PROVE  UsersInv'
  <1>1. /\ handler' = [handler EXCEPT ![h] = Users!Idle] /\ outdated' = outdated \ {h}
        /\ page' = page /\ limit' = limit /\ loading' = loading /\ error' = error
        /\ data' = data /\ fetch' = fetch
    BY Zenon DEF Users!FailForm
  <1>2. UsersTypeOK'
    BY <1>1 DEF UsersInv, UsersTypeOK
  <1>3. AgreeAtRest' /\ Users!Fetching' = Users!Fetching
    BY <1>1 DEF UsersInv, AgreeAtRest, Users!Fetching
  <1>4. handler'[h] = Users!Idle /\ \A g \in Handler : g # h => handler'[g] = handler[g]
    BY <1>1 DEF UsersInv, UsersTypeOK
  <1>5. LimitsDated'
    BY <1>1, <1>3, <1>4 DEF UsersInv, LimitsDated, UsersConstants, Users!Fetching
  <1> QED BY <1>2, <1>3, <1>5 DEF UsersInv

LEMMA FetchEnds ==
  ASSUME UsersInv, NEW f \in Fetch, fetch' = [fetch EXCEPT ![f] = Users!Idle]
  PROVE  /\ fetch' \in [Fetch -> Rendering \cup {Users!Idle}]
         /\ Users!Fetching' = Users!Fetching \ {f}
         /\ \A g \in Users!Fetching' : g # f /\ fetch'[g] = fetch[g]
  BY DEF UsersInv, UsersTypeOK, Users!Fetching

LEMMA ResolveFetchStep ==
  ASSUME UsersConstants, UsersInv, NEW f \in Fetch, Users!Resolve(f)
  PROVE  UsersInv'
  <1>r. PICK r : r = fetch[f]
    OBVIOUS
  <1>1. /\ r # Users!Idle /\ data' = r /\ page' = r.page /\ loading' = FALSE
        /\ fetch' = [fetch EXCEPT ![f] = Users!Idle]
        /\ outdated' = IF f \in outdated THEN (outdated \ {f}) \cup {"data"}
                       ELSE outdated \ {"data"}
        /\ limit' = limit /\ handler' = handler
    BY <1>r, Zenon DEF Users!Resolve
  <1>2. r.page \in ShownPage /\ (r.limit = limit \/ f \in outdated)
    BY <1>r, <1>1 DEF UsersInv, UsersTypeOK, LimitsDated, Users!Fetching, Rendering
  <1>3. /\ fetch' \in [Fetch -> Rendering \cup {Users!Idle}]
        /\ \A g \in Users!Fetching' : g # f /\ fetch'[g] = fetch[g] /\ g \in Users!Fetching
    BY <1>1, FetchEnds
  <1>4. UsersTypeOK'
    BY <1>1, <1>2, <1>3 DEF UsersInv, UsersTypeOK
  <1>5. AgreeAtRest'
    BY <1>1 DEF AgreeAtRest
  <1>6. LimitsDated'
    BY <1>1, <1>2, <1>3 DEF UsersInv, LimitsDated, UsersConstants, Users!Fetching
  <1> QED BY <1>4, <1>5, <1>6 DEF UsersInv

LEMMA RejectFetchStep ==
  ASSUME UsersConstants, UsersInv, NEW f \in Fetch, Users!Reject(f)
  PROVE  UsersInv'
  <1>1. /\ error' = TRUE /\ loading' = FALSE
        /\ fetch' = [fetch EXCEPT ![f] = Users!Idle] /\ outdated' = outdated \ {f}
        /\ page' = page /\ limit' = limit /\ data' = data /\ handler' = handler
    BY Zenon DEF Users!Reject
  <1>3. /\ fetch' \in [Fetch -> Rendering \cup {Users!Idle}]
        /\ \A g \in Users!Fetching' : g # f /\ fetch'[g] = fetch[g] /\ g \in Users!Fetching
    BY <1>1, FetchEnds
  <1>4. UsersTypeOK' /\ AgreeAtRest'
    BY <1>1, <1>3 DEF UsersInv, UsersTypeOK, AgreeAtRest
  <1>5. LimitsDated'
    BY <1>1, <1>3 DEF UsersInv, LimitsDated, UsersConstants, Users!Fetching
  <1> QED BY <1>4, <1>5 DEF UsersInv

LEMMA UsersInvNext ==
  ASSUME UsersConstants, UsersInv, isFormOpen \in BOOLEAN, [Users!Next]_(Users!vars)
  PROVE  UsersInv' /\ isFormOpen' \in BOOLEAN
  <1>0. isFormOpen' \in BOOLEAN
    BY Zenon DEF Users!Next, Users!ChangePage, Users!ChangeLimit, Users!Finish, Users!CloseForm,
       Users!Resolve, Users!Reject, Users!OpenForm, Users!Begin, Users!FailForm, Users!vars
  <1>1. ASSUME NEW f \in Fetch, NEW p \in Page, Users!ChangePage(f, p) PROVE UsersInv'
    BY <1>1, FreshFetch DEF Users!ChangePage, ShownPage
  <1>2. ASSUME NEW f \in Fetch, Users!CloseForm(f) PROVE UsersInv'
    BY <1>2, FreshFetch DEF Users!CloseForm, UsersInv, UsersTypeOK
  <1>3. ASSUME NEW f \in Fetch, Users!Resolve(f) \/ Users!Reject(f) PROVE UsersInv'
    BY <1>3, ResolveFetchStep, RejectFetchStep
  <1>4. CASE Users!OpenForm \/ UNCHANGED Users!vars
    BY <1>4 DEF Users!OpenForm, Users!vars, UsersInv, UsersTypeOK, AgreeAtRest, LimitsDated,
       Users!Fetching
  <1> QED BY <1>0, <1>1, <1>2, <1>3, <1>4, ChangeLimitStep, FinishHandlerStep,
             BeginHandlerStep, FailFormStep DEF Users!Next

(* The screen of users shows the page it says, in the number of rows it    *)
(* says or from before the last setLimit, for any number of fetches and    *)
(* handlers that overlap: UserList.tsx, usePagination.ts.                  *)
THEOREM PageAndDataAlwaysAgree ==
  ASSUME UsersConstants
  PROVE  Users!Spec => []PageAndDataAgree
  <1> DEFINE FormOK == isFormOpen \in BOOLEAN
  <1>1. Users!Init => UsersInv /\ FormOK
    BY UsersInvInit DEF Users!Init
  <1>2. UsersInv /\ FormOK /\ [Users!Next]_(Users!vars) => UsersInv' /\ FormOK'
    BY UsersInvNext
  <1>3. UsersInv => PageAndDataAgree
    BY DEF UsersInv, AgreeAtRest, LimitsDated, PageAndDataAgree, Users!PageAndDataAgree
  <1> HIDE DEF FormOK
  <1> QED BY <1>1, <1>2, <1>3, PTL DEF Users!Spec

-----------------------------------------------------------------------------
(* The three together, as they are checked: every step is one of one of    *)
(* them, which leaves the others alone.                                    *)
LEMMA DashboardSpecs == SpecDashboard => Roles!Spec /\ Users!Spec /\ Spec
  <1>1. InitDashboard => Roles!Init /\ Users!Init /\ Init
    BY DEF InitDashboard
  <1>2. [NextDashboard]_<<part, roleVars, userVars, vars>> =>
          /\ [Roles!Next]_(Roles!vars)
          /\ [Users!Next]_(Users!vars)
          /\ [Next]_vars
    BY Zenon DEF NextDashboard, vars, roleVars, userVars, Roles!vars, Users!vars
  <1> QED BY <1>1, <1>2, PTL DEF SpecDashboard, Spec, Roles!Spec, Users!Spec

(* The three screens keep their promises side by side: errorRecovery.ts,   *)
(* RoleList.tsx, UserList.tsx and their hooks.                             *)
THEOREM DashboardHolds ==
  ASSUME UsersConstants
  PROVE  SpecDashboard => [](ListCatchesUp /\ PageAndDataAgree /\ RecoveryIsToldAndBounded)
  BY DashboardSpecs, ListAlwaysCatchesUp, PageAndDataAlwaysAgree,
     RecoveryAlwaysToldAndBounded, PTL
===============================================================================
