------------------------- MODULE TokenService_proofs -------------------------
(***************************************************************************)
(* Tokens for any number of them and of concurrent requests, any life time *)
(* and any lag of the index.  What carries the argument is that the states *)
(* an item went through are never rewritten, and that once one of them is  *)
(* revoked all later ones are: a request that saw an active state saw one  *)
(* older than every revoked state, and younger than all it found           *)
(* replicated.                                                             *)
(***************************************************************************)
EXTENDS TokenService, SequenceTheorems, TLAPS

USE LifeTimeAssumption, BoundsAssumption

(* What Append does, in the form the steps below use it.                   *)
LEMMA OneMoreState ==
  ASSUME NEW s \in Seq(Item), NEW item \in Item
  PROVE  /\ Append(s, item) \in Seq(Item)
         /\ Len(s) \in Nat
         /\ Len(Append(s, item)) = Len(s) + 1
         /\ \A i \in 1 .. Len(s) : Append(s, item)[i] = s[i]
         /\ Append(s, item)[Len(s) + 1] = item
OBVIOUS

(* The current state of an item the table has is one of its states.        *)
LEMMA CurrentItem ==
  ASSUME TypeOK, NEW t \in Token, Exists(t)
  PROVE  /\ Len(written[t]) \in Nat \ {0}
         /\ Current(t) \in Item
<1>1. written[t] \in Seq(Item) /\ written[t] # <<>>
  BY DEF TypeOK, Exists
<1>2. Len(written[t]) \in Nat \ {0}
  BY <1>1
<1>3. written[t][Len(written[t])] \in Item
  BY <1>1, <1>2
<1> QED BY <1>2, <1>3 DEF Current

(* One write: the item keeps every state it had and gains at most one.     *)
GainsAtMost(t, item) ==
  /\ item \in Item
  /\ \/ written' = written
     \/ written' = [written EXCEPT ![t] = Append(@, item)]
  /\ UNCHANGED <<clock, replicated, request>>

LEMMA WritesGain ==
  ASSUME TypeOK, NEW t \in Token,
         CreateToken(t) \/ RevokeToken(t) \/ UpdateTokenUsage(t)
  PROVE  \E item \in Item :
           /\ GainsAtMost(t, item)
           /\ Exists(t) => /\ item.keyed = Current(t).keyed
                           /\ item.expiresAt = Current(t).expiresAt
                           /\ Revoked(t) => item.status = "revoked"
<1>1. ASSUME NEW item \in Item, Write(t, item) PROVE GainsAtMost(t, item)
  BY <1>1 DEF Write, GainsAtMost
<1>2. CASE CreateToken(t)
  <2>1. PICK expiresAt \in 0 .. MaxTime \cup {clock + LifeTime} :
          Write(t, [keyed |-> TRUE, status |-> "active",
                    expiresAt |-> expiresAt, calls |-> 0])
    BY <1>2 DEF CreateToken
  <2>2. expiresAt \in Nat
    BY DEF TypeOK
  <2>3. [keyed |-> TRUE, status |-> "active",
         expiresAt |-> expiresAt, calls |-> 0] \in Item
    BY <2>2 DEF Item
  <2> QED BY <1>1, <1>2, <2>1, <2>3 DEF CreateToken
<1>3. CASE RevokeToken(t)
  <2>1. CASE Exists(t)
    <3>1. [Current(t) EXCEPT !.status = "revoked"] \in Item
      BY <2>1, CurrentItem DEF Item
    <3>2. /\ [Current(t) EXCEPT !.status = "revoked"].keyed = Current(t).keyed
          /\ [Current(t) EXCEPT !.status = "revoked"].expiresAt = Current(t).expiresAt
          /\ [Current(t) EXCEPT !.status = "revoked"].status = "revoked"
      BY <2>1, CurrentItem DEF Item
    <3>3. Write(t, [Current(t) EXCEPT !.status = "revoked"])
      BY <1>3, <2>1 DEF RevokeToken
    <3> QED BY <1>1, <3>1, <3>2, <3>3
  <2>2. CASE ~ Exists(t)
    <3>1. [keyed |-> FALSE, status |-> "revoked",
           expiresAt |-> 0, calls |-> 0] \in Item
      BY DEF Item
    <3> QED BY <1>1, <1>3, <2>2, <3>1 DEF RevokeToken
  <2> QED BY <2>1, <2>2
<1>4. CASE UpdateTokenUsage(t)
  <2>1. Exists(t) /\ Write(t, [Current(t) EXCEPT !.calls = @ + 1])
    BY <1>4 DEF UpdateTokenUsage
  <2>2. [Current(t) EXCEPT !.calls = @ + 1] \in Item
    BY <2>1, CurrentItem DEF Item
  <2>3. /\ [Current(t) EXCEPT !.calls = @ + 1].keyed = Current(t).keyed
        /\ [Current(t) EXCEPT !.calls = @ + 1].expiresAt = Current(t).expiresAt
        /\ [Current(t) EXCEPT !.calls = @ + 1].status = Current(t).status
    BY <2>1, CurrentItem DEF Item
  <2> QED BY <1>1, <2>1, <2>2, <2>3 DEF Revoked
<1> QED BY <1>2, <1>3, <1>4

(* Every variable keeps its type.                                          *)
THEOREM TypeCorrect == Spec => []TypeOK
<1>1. Init => TypeOK
  BY DEF Init, TypeOK, RequestState, At, Guard
<1>2. TypeOK /\ [Next]_vars => TypeOK'
  <2> SUFFICES ASSUME TypeOK, [Next]_vars PROVE TypeOK'
    OBVIOUS
  <2>1. ASSUME NEW t \in Token,
               CreateToken(t) \/ RevokeToken(t) \/ UpdateTokenUsage(t)
        PROVE  TypeOK'
    <3>1. PICK item \in Item : GainsAtMost(t, item)
      BY <2>1, WritesGain
    <3>2. Append(written[t], item) \in Seq(Item)
      BY OneMoreState DEF TypeOK
    <3> QED BY <3>1, <3>2 DEF GainsAtMost, TypeOK
  <2>2. ASSUME NEW t \in Token, Replicate(t) PROVE TypeOK'
    BY <2>2 DEF Replicate, TypeOK
  <2>3. ASSUME NEW r \in Request, NEW t \in Token, NEW guard \in Guard,
               CanActivate(r, t, guard)
        PROVE  TypeOK'
    BY <2>3 DEF CanActivate, TypeOK, At, RequestState
  <2>4. ASSUME NEW r \in Request, Query(r) PROVE TypeOK'
    <3> DEFINE t == request[r].token
    <3>1. Len(written[t]) \in Nat /\ replicated[t] \in Nat
      BY DEF TypeOK, RequestState
    <3>2. PICK version \in replicated[t] .. Len(written[t]) :
            request' = [request EXCEPT ![r].pc = "validate",
              ![r].seen = IF version > 0 /\ written[t][version].keyed
                          THEN version ELSE 0]
      BY <2>4 DEF Query
    <3> DEFINE n == IF version > 0 /\ written[t][version].keyed THEN version ELSE 0
               q == [request[r] EXCEPT !.pc = "validate", !.seen = n]
    <3>3. n \in Nat
      BY <3>1
    <3>4. q \in RequestState
      <4> HIDE DEF n
      <4> QED BY <3>3 DEF TypeOK, RequestState
    <3>5. request' = [request EXCEPT ![r] = q]
      BY <3>2 DEF TypeOK
    <3> HIDE DEF q
    <3> QED BY <2>4, <3>4, <3>5 DEF Query, TypeOK
  <2>5. ASSUME NEW r \in Request, Finish(r) PROVE TypeOK'
    BY <2>5 DEF Finish, TypeOK, At, RequestState
  <2>6. ASSUME NEW r \in Request, NEW pc \in {"limit", "passed"}, Pass(r, pc)
        PROVE  TypeOK'
    BY <2>6 DEF Pass, TypeOK, RequestState
  <2>7. ASSUME NEW r \in Request,
               Validate(r) \/ CheckRateLimit(r) \/ Handle(r) \/ Fail(r)
        PROVE  TypeOK'
    BY <2>5, <2>6, <2>7 DEF Validate, CheckRateLimit, Handle, Fail
  <2>8. CASE Tick
    BY <2>8 DEF Tick, TypeOK
  <2>9. CASE UNCHANGED vars
    BY <2>9 DEF vars, TypeOK
  <2> QED BY <2>1, <2>2, <2>3, <2>4, <2>7, <2>8, <2>9 DEF Next
<1> QED BY <1>1, <1>2, PTL DEF Spec

-----------------------------------------------------------------------------
(* Later states of an item are revoked when earlier ones are, have a key   *)
(* exactly when they do and expire at the same time.                       *)
StatesOnlyAge ==
  \A t \in Token :
    /\ replicated[t] <= Len(written[t])
    /\ \A i, j \in 1 .. Len(written[t]) :
         i <= j => /\ written[t][i].keyed = written[t][j].keyed
                   /\ written[t][i].expiresAt = written[t][j].expiresAt
                   /\ written[t][i].status = "revoked"
                        => written[t][j].status = "revoked"

(* What the local state of a request may say about the item it asked for.  *)
Sound(q) ==
  /\ q.floor <= replicated[q.token]
  /\ q.began <= clock
  /\ q.seen <= Len(written[q.token])
  /\ q.seen > 0 => q.seen >= q.floor /\ written[q.token][q.seen].keyed
  /\ q.pc = "validate" /\ q.floor > 0 /\ written[q.token][1].keyed => q.seen > 0
  /\ q.pc \in {"limit", "passed"} =>
       /\ q.seen > 0
       /\ written[q.token][q.seen].status = "active"
       /\ written[q.token][q.seen].expiresAt >= q.began

IInv == TypeOK /\ StatesOnlyAge /\ \A r \in Request : Sound(request[r])

(* A write leaves the requests in flight as sound as they were.            *)
LEMMA WritesKeepIInv ==
  ASSUME IInv, NEW t \in Token, NEW item \in Item, GainsAtMost(t, item),
         Exists(t) => /\ item.keyed = Current(t).keyed
                      /\ item.expiresAt = Current(t).expiresAt
                      /\ Revoked(t) => item.status = "revoked"
  PROVE  StatesOnlyAge' /\ \A r \in Request : Sound(request[r])'
<1> DEFINE n == Len(written[t])
<1>1. CASE written' = written
  BY <1>1 DEF GainsAtMost, IInv, StatesOnlyAge, Sound
<1>2. CASE written' = [written EXCEPT ![t] = Append(@, item)]
  <2>0. /\ written \in [Token -> Seq(Item)] /\ replicated \in [Token -> Nat]
        /\ UNCHANGED <<clock, replicated, request>>
    BY DEF IInv, TypeOK, GainsAtMost
  <2>1. /\ \A u \in Token : u # t => written'[u] = written[u]
        /\ n \in Nat /\ Len(written'[t]) = n + 1
        /\ \A i \in 1 .. n : written'[t][i] = written[t][i]
        /\ written'[t][n + 1] = item
    BY <1>2, <2>0, OneMoreState
  <2>2. n > 0 => /\ item.keyed = written[t][n].keyed
                 /\ item.expiresAt = written[t][n].expiresAt
                 /\ written[t][n].status = "revoked" => item.status = "revoked"
    BY <2>0, <2>1 DEF Exists, Revoked, Current
  <2>3. StatesOnlyAge'
    <3> SUFFICES ASSUME NEW u \in Token
                 PROVE  /\ replicated[u] <= Len(written'[u])
                        /\ \A i, j \in 1 .. Len(written'[u]) :
                             i <= j => /\ written'[u][i].keyed = written'[u][j].keyed
                                       /\ written'[u][i].expiresAt = written'[u][j].expiresAt
                                       /\ written'[u][i].status = "revoked"
                                            => written'[u][j].status = "revoked"
      BY <2>0 DEF StatesOnlyAge
    <3>1. CASE u # t
      BY <3>1, <2>1 DEF IInv, StatesOnlyAge
    <3>2. CASE u = t
      <4>1. replicated[t] <= n /\ replicated[t] \in Nat
        BY <2>0 DEF IInv, StatesOnlyAge
      <4>2. ASSUME NEW i \in 1 .. n + 1, NEW j \in 1 .. n + 1, i <= j
            PROVE  /\ written'[t][i].keyed = written'[t][j].keyed
                   /\ written'[t][i].expiresAt = written'[t][j].expiresAt
                   /\ written'[t][i].status = "revoked"
                        => written'[t][j].status = "revoked"
        <5>1. CASE j # n + 1
          <6>1. i \in 1 .. n /\ j \in 1 .. n
            BY <2>1, <4>2, <5>1
          <6>2. /\ written[t][i].keyed = written[t][j].keyed
                /\ written[t][i].expiresAt = written[t][j].expiresAt
                /\ written[t][i].status = "revoked" => written[t][j].status = "revoked"
            BY <4>2, <6>1 DEF IInv, StatesOnlyAge
          <6>3. written'[t][i] = written[t][i] /\ written'[t][j] = written[t][j]
            BY <2>1, <6>1
          <6> QED BY <6>2, <6>3
        <5>2. CASE j = n + 1 /\ i # n + 1
          <6>1. i \in 1 .. n /\ n \in 1 .. n /\ i <= n
            BY <2>1, <4>2, <5>2
          <6>2. /\ written[t][i].keyed = written[t][n].keyed
                /\ written[t][i].expiresAt = written[t][n].expiresAt
                /\ written[t][i].status = "revoked" => written[t][n].status = "revoked"
            BY <6>1 DEF IInv, StatesOnlyAge
          <6> QED BY <5>2, <6>1, <6>2, <2>1, <2>2
        <5>3. CASE j = n + 1 /\ i = n + 1
          BY <5>3
        <5> QED BY <5>1, <5>2, <5>3
      <4> QED BY <3>2, <4>1, <4>2, <2>1
    <3> QED BY <3>1, <3>2
  <2>4. ASSUME NEW r \in Request PROVE Sound(request[r])'
    <3>1. /\ Sound(request[r]) /\ request'[r] = request[r]
          /\ request[r].seen \in Nat /\ request[r].token \in Token
      BY <2>0 DEF IInv, TypeOK, RequestState
    <3>2. CASE request[r].token # t
      BY <2>0, <2>1, <3>1, <3>2 DEF Sound
    <3>3. CASE request[r].token = t
      <4>1. request[r].seen > 0 => request[r].seen \in 1 .. n
        BY <2>1, <3>1, <3>3 DEF Sound
      <4>2. request[r].floor > 0 => 1 \in 1 .. n
        BY <2>0, <2>1, <3>1, <3>3 DEF Sound, IInv, StatesOnlyAge, TypeOK, RequestState
      <4>3. /\ request[r].seen > 0 =>
                 written'[t][request[r].seen] = written[t][request[r].seen]
            /\ request[r].floor > 0 => written'[t][1] = written[t][1]
        BY <2>1, <4>1, <4>2
      <4> QED BY <2>0, <2>1, <3>1, <3>3, <4>1, <4>3 DEF Sound
    <3> QED BY <3>2, <3>3
  <2> QED BY <2>3, <2>4
<1> QED BY <1>1, <1>2 DEF GainsAtMost

(* The states an item went through only age, and a request knows of them   *)
(* what Sound says, in every reachable state.                              *)
LEMMA Invariance == Spec => []IInv
<1>1. Init => IInv
  <2> SUFFICES ASSUME Init PROVE IInv
    OBVIOUS
  <2>1. TypeOK
    BY DEF Init, TypeOK, RequestState, At, Guard
  <2>2. StatesOnlyAge
    <3>1. ASSUME NEW t \in Token
          PROVE  replicated[t] = 0 /\ Len(written[t]) = 0
      BY DEF Init
    <3>2. ASSUME NEW t \in Token
          PROVE  1 .. Len(written[t]) = {} /\ replicated[t] <= Len(written[t])
      <4> DEFINE n == Len(written[t])
                 k == replicated[t]
      <4>1. n = 0 /\ k = 0
        BY <3>1
      <4> HIDE DEF n, k
      <4>2. 1 .. n = {} /\ k <= n
        BY <4>1
      <4> QED BY <4>2 DEF n, k
    <3> QED BY <3>2, Zenon DEF StatesOnlyAge
  <2>3. \A r \in Request : Sound(request[r])
    BY DEF Init, Sound, At
  <2> QED BY <2>1, <2>2, <2>3 DEF IInv
<1>2. IInv /\ TypeOK' /\ [Next]_vars => IInv'
  <2> SUFFICES ASSUME IInv, TypeOK', [Next]_vars
               PROVE  StatesOnlyAge' /\ \A r \in Request : Sound(request[r])'
    BY DEF IInv
  <2>0. /\ \A t \in Token : Len(written[t]) \in Nat /\ replicated[t] \in Nat
        /\ \A r \in Request : request[r] \in RequestState
        /\ clock \in Nat /\ request \in [Request -> RequestState]
        /\ replicated \in [Token -> Nat]
    BY DEF IInv, TypeOK
  <2>1. ASSUME NEW t \in Token,
               CreateToken(t) \/ RevokeToken(t) \/ UpdateTokenUsage(t)
        PROVE  StatesOnlyAge' /\ \A r \in Request : Sound(request[r])'
    BY <2>1, WritesGain, WritesKeepIInv DEF IInv
  <2>2. ASSUME NEW t \in Token, Replicate(t)
        PROVE  StatesOnlyAge' /\ \A r \in Request : Sound(request[r])'
    <3>1. /\ UNCHANGED <<clock, written, request>>
          /\ \A u \in Token : /\ replicated[u] <= replicated'[u]
                              /\ replicated'[u] <= Len(written[u])
                              /\ replicated'[u] \in Nat
      BY <2>0, <2>2 DEF Replicate, IInv, StatesOnlyAge
    <3>2. StatesOnlyAge'
      BY <3>1 DEF IInv, StatesOnlyAge
    <3>3. ASSUME NEW r \in Request PROVE Sound(request[r])'
      <4>1. Sound(request[r]) /\ request[r].floor \in Nat /\ request[r].token \in Token
        BY <2>0 DEF IInv, RequestState
      <4>2. request[r].floor <= replicated'[request[r].token]
        BY <2>0, <3>1, <4>1 DEF Sound
      <4> QED BY <3>1, <4>1, <4>2 DEF Sound
    <3> QED BY <3>2, <3>3
  <2>3. ASSUME NEW r \in Request, NEW q \in RequestState, Sound(q),
               request' = [request EXCEPT ![r] = q],
               UNCHANGED <<clock, written, replicated>>
        PROVE  StatesOnlyAge' /\ \A s \in Request : Sound(request[s])'
    <3>1. StatesOnlyAge'
      BY <2>3 DEF IInv, StatesOnlyAge
    <3>2. \A s \in Request : Sound(request'[s])
      BY <2>0, <2>3 DEF IInv
    <3> QED BY <2>3, <3>1, <3>2 DEF Sound
  <2>4. ASSUME NEW r \in Request, NEW t \in Token, NEW guard \in Guard,
               CanActivate(r, t, guard)
        PROVE  StatesOnlyAge' /\ \A s \in Request : Sound(request[s])'
    <3> DEFINE q == At("query", guard, t, clock, replicated[t])
    <3>1. q \in RequestState /\ Sound(q)
      BY <2>0 DEF At, RequestState, Sound
    <3> QED BY <2>3, <2>4, <3>1 DEF CanActivate
  <2>5. ASSUME NEW r \in Request, Query(r)
        PROVE  StatesOnlyAge' /\ \A s \in Request : Sound(request[s])'
    <3> DEFINE t == request[r].token
    <3>1. PICK version \in replicated[t] .. Len(written[t]) :
            request' = [request EXCEPT ![r].pc = "validate",
              ![r].seen = IF version > 0 /\ written[t][version].keyed
                          THEN version ELSE 0]
      BY <2>5 DEF Query
    <3>2. t \in Token /\ version \in Nat /\ request[r].floor <= version
      BY <2>0, <3>1 DEF IInv, Sound, RequestState
    <3> DEFINE q == [request[r] EXCEPT !.pc = "validate",
                       !.seen = IF version > 0 /\ written[t][version].keyed
                                THEN version ELSE 0]
    <3>3. q \in RequestState
      BY <2>0, <3>2 DEF RequestState
    <3>4. /\ q.pc = "validate" /\ q.token = t
          /\ q.floor = request[r].floor /\ q.began = request[r].began
          /\ q.seen = IF version > 0 /\ written[t][version].keyed THEN version ELSE 0
      BY <2>0 DEF RequestState
    <3>5. version <= Len(written[t]) /\ Sound(request[r])
      BY <2>0, <3>1, <3>2 DEF IInv
    <3>6. Sound(q)
      <4>1. version > 0 => written[t][1].keyed = written[t][version].keyed
        <5>1. version > 0 => 1 \in 1 .. Len(written[t]) /\ version \in 1 .. Len(written[t])
          BY <2>0, <3>2, <3>5
        <5> QED BY <3>2, <5>1 DEF IInv, StatesOnlyAge
      <4>2. request[r].floor \in Nat
        BY <2>0 DEF RequestState
      <4> HIDE DEF q
      <4> QED BY <2>0, <3>2, <3>4, <3>5, <4>1, <4>2 DEF Sound
    <3>7. request' = [request EXCEPT ![r] = q]
      BY <2>0, <3>1
    <3> HIDE DEF q
    <3> QED BY <2>3, <2>5, <3>3, <3>6, <3>7 DEF Query
  <2>6. ASSUME NEW r \in Request, Finish(r)
        PROVE  StatesOnlyAge' /\ \A s \in Request : Sound(request[s])'
    <3> DEFINE q == At("idle", request[r].guard, request[r].token, 0, 0)
    <3>1. q \in RequestState /\ Sound(q)
      BY <2>0 DEF At, RequestState, Sound
    <3> QED BY <2>3, <2>6, <3>1 DEF Finish
  <2>7. ASSUME NEW r \in Request, NEW pc \in {"limit", "passed"}, Pass(r, pc),
               \/ request[r].pc = "validate" /\ ValidToken(r)
               \/ request[r].pc = "limit"
        PROVE  StatesOnlyAge' /\ \A s \in Request : Sound(request[s])'
    <3> DEFINE q == [request[r] EXCEPT !.pc = pc]
    <3>1. /\ q \in RequestState /\ q.pc = pc
          /\ q.token = request[r].token /\ q.seen = request[r].seen
          /\ q.began = request[r].began /\ q.floor = request[r].floor
      BY <2>0 DEF RequestState
    <3>2. Sound(request[r])
      BY DEF IInv
    <3>3. /\ q.seen > 0
          /\ written[q.token][q.seen].status = "active"
          /\ written[q.token][q.seen].expiresAt >= q.began
      <4>1. CASE request[r].pc = "limit"
        BY <4>1, <3>1, <3>2 DEF Sound
      <4>2. CASE request[r].pc = "validate" /\ ValidToken(r)
        <5>1. request[r].token \in Token /\ request[r].seen \in 1 .. Len(written[request[r].token])
          BY <2>0, <3>2, <4>2 DEF RequestState, ValidToken, Sound
        <5>2. written[request[r].token][request[r].seen] \in Item
          BY <5>1 DEF IInv, TypeOK
        <5> QED BY SMTT(30), <2>0, <4>2, <3>1, <3>2, <5>2 DEF ValidToken, Sound, Item, RequestState
      <4> QED BY <2>7, <4>1, <4>2
    <3>4. Sound(q)
      BY <3>1, <3>2, <3>3 DEF Sound
    <3>5. request' = [request EXCEPT ![r] = q]
      BY <2>7 DEF Pass
    <3> HIDE DEF q
    <3> QED BY <2>3, <2>7, <3>1, <3>4, <3>5 DEF Pass
  <2>8. ASSUME NEW r \in Request,
               Validate(r) \/ CheckRateLimit(r) \/ Handle(r) \/ Fail(r)
        PROVE  StatesOnlyAge' /\ \A s \in Request : Sound(request[s])'
    BY <2>6, <2>7, <2>8 DEF Validate, CheckRateLimit, Handle, Fail
  <2>9. CASE Tick
    BY <2>0, <2>9 DEF Tick, IInv, StatesOnlyAge, Sound, RequestState
  <2>10. CASE UNCHANGED vars
    BY <2>10 DEF vars, IInv, StatesOnlyAge, Sound
  <2> QED BY <2>1, <2>2, <2>4, <2>5, <2>8, <2>9, <2>10 DEF Next
<1> QED BY <1>1, <1>2, TypeCorrect, PTL DEF Spec

(* However far the index lags, only a token that was not everywhere when   *)
(* the request arrived, or has ended, is turned away.                      *)
THEOREM RefusalsHaveAReason == Spec => RefusesOnlyWithReason
<1> DEFINE Reason(q) == \/ q.floor = 0
                        \/ ~ written[q.token][1].keyed
                        \/ Revoked(q.token)
                        \/ Current(q.token).expiresAt < clock
           Refused(r) == request[r].pc = "validate" /\ request'[r].pc = "idle"
<1>1. ASSUME IInv, [Next]_vars, NEW r \in Request, Refused(r)
      PROVE  Reason(request[r])
  <2> DEFINE q == request[r]
             s == written[q.token]
             n == Len(s)
  <2>0. request \in [Request -> RequestState]
    BY <1>1 DEF IInv, TypeOK
  <2>1. /\ q \in RequestState /\ Sound(q) /\ q.token \in Token
        /\ s \in Seq(Item) /\ clock \in Nat /\ replicated[q.token] \in Nat
        /\ replicated[q.token] <= n /\ n \in Nat
    BY <1>1 DEF IInv, TypeOK, RequestState, StatesOnlyAge
  <2>2. Validate(r)
    <3>1. ASSUME NEW u \in Request, NEW a, request' = [request EXCEPT ![u] = a]
          PROVE  u = r
      BY <1>1, <2>0, <3>1
    <3>2. request' # request
      BY <1>1
    <3>3. ASSUME NEW u \in Request, NEW t \in Token, NEW guard \in Guard,
                 CanActivate(u, t, guard)
          PROVE  FALSE
      BY <1>1, <3>1, <3>3 DEF CanActivate
    <3>4. ASSUME NEW u \in Request, Query(u) PROVE FALSE
      <4>1. u = r
        BY <1>1, <2>0, <3>4 DEF Query
      <4> QED BY <1>1, <3>4, <4>1 DEF Query
    <3>5. ASSUME NEW u \in Request, CheckRateLimit(u) \/ Handle(u) \/ Fail(u)
          PROVE  FALSE
      <4>1. u = r
        BY <1>1, <2>0, <3>5 DEF CheckRateLimit, Handle, Fail, Pass, Finish
      <4> QED BY <1>1, <3>5, <4>1 DEF CheckRateLimit, Handle, Fail
    <3>6. ASSUME NEW u \in Request, Validate(u) PROVE u = r
      BY <1>1, <2>0, <3>6 DEF Validate, Pass, Finish
    <3> QED BY <1>1, <3>2, <3>3, <3>4, <3>5, <3>6
        DEF Next, Tick, CreateToken, RevokeToken, UpdateTokenUsage, Write, Replicate, vars
  <2>3. ~ ValidToken(r)
    <3> SUFFICES ASSUME ValidToken(r) PROVE FALSE
      OBVIOUS
    <3>1. PICK pc \in {"limit", "passed"} : request' = [request EXCEPT ![r].pc = pc]
      BY <2>2 DEF Validate, Pass
    <3>2. request'[r].pc = pc
      BY <2>0, <2>1, <3>1 DEF RequestState
    <3> QED BY <1>1, <3>2
  <2> SUFFICES ASSUME q.floor # 0, s[1].keyed
               PROVE  Revoked(q.token) \/ Current(q.token).expiresAt < clock
    OBVIOUS
  <2>4. q.seen \in 1 .. n /\ n \in 1 .. n /\ q.seen <= n
    <3> HIDE DEF s, n
    <3>1. q.seen > 0 /\ q.seen <= n /\ q.seen \in Nat
      BY <1>1, <2>1 DEF Sound, RequestState, s, n
    <3> QED BY <2>1, <3>1
  <2>5. /\ s[q.seen] \in Item /\ Exists(q.token) /\ Current(q.token) = s[n]
        /\ s[q.seen].expiresAt = s[n].expiresAt
        /\ s[q.seen].status = "revoked" => s[n].status = "revoked"
    BY <1>1, <2>1, <2>4 DEF IInv, StatesOnlyAge, Exists, Current
  <2>6. s[q.seen].status # "active" \/ s[q.seen].expiresAt < clock
    <3>1. q.seen > 0
      BY <2>1, <2>4
    <3> QED BY <2>3, <3>1 DEF ValidToken
  <2>7. CASE s[q.seen].status # "active"
    <3>1. s[n].status = "revoked"
      BY <2>5, <2>7 DEF Item
    <3> HIDE DEF q, s, n
    <3> QED BY <2>5, <3>1 DEF Revoked
  <2>8. CASE s[q.seen].expiresAt < clock
    <3> HIDE DEF q, s, n
    <3> QED BY <2>5, <2>8
  <2> QED BY <2>6, <2>7, <2>8
<1>2. IInv /\ [Next]_vars => [\A r \in Request : Refused(r) => Reason(request[r])]_vars
  BY <1>1
<1> QED BY <1>2, Invariance, PTL DEF Spec, RefusesOnlyWithReason

(* Whatever number of requests, tokens, revocations and uses are in        *)
(* flight, only a token that was not revoked everywhere and had not        *)
(* expired when the request arrived lets it pass.                          *)
THEOREM OnlyValidTokensPass == Spec => []PassesOnlyValidTokens
<1>1. IInv => PassesOnlyValidTokens
  <2> SUFFICES ASSUME IInv, NEW r \in Request, Passing(r)
               PROVE  LET q == request[r] IN
                      /\ Exists(q.token) /\ written[q.token][1].keyed
                      /\ q.floor > 0 => written[q.token][q.floor].status = "active"
                      /\ q.seen > 0 /\ written[q.token][q.seen].expiresAt >= q.began
    BY DEF PassesOnlyValidTokens
  <2> DEFINE q == request[r]
             s == written[q.token]
  <2>1. /\ q \in RequestState /\ Sound(q) /\ q.pc \in {"limit", "passed"}
        /\ q.token \in Token /\ s \in Seq(Item)
    BY DEF IInv, TypeOK, RequestState, Passing
  <2>2. /\ q.seen \in 1 .. Len(s) /\ 1 \in 1 .. Len(s)
        /\ q.seen >= q.floor /\ s[q.seen].keyed
        /\ s[q.seen].status = "active" /\ s[q.seen].expiresAt >= q.began
    <3> HIDE DEF q
    <3> QED BY <2>1 DEF Sound, RequestState
  <2>3. s # <<>> /\ s[1].keyed
    <3>1. s[1].keyed = s[q.seen].keyed
      <4>1. 1 <= q.seen
        BY <2>1, <2>2
      <4>2. \A i, j \in 1 .. Len(s) : i <= j => s[i].keyed = s[j].keyed
        BY <2>1 DEF IInv, StatesOnlyAge
      <4> HIDE DEF q, s
      <4> QED BY <2>2, <4>1, <4>2
    <3> QED BY <2>1, <2>2, <3>1
  <2>4. q.floor > 0 => s[q.floor].status = "active"
    <3> SUFFICES ASSUME q.floor > 0 PROVE s[q.floor].status = "active"
      OBVIOUS
    <3>1. q.floor \in 1 .. Len(s) /\ q.floor <= q.seen
      <4> HIDE DEF q
      <4> QED BY <2>1, <2>2 DEF RequestState
    <3>2. s[q.floor].status = "revoked" => s[q.seen].status = "revoked"
      BY <2>1, <2>2, <3>1 DEF IInv, StatesOnlyAge
    <3>3. s[q.floor] \in Item
      BY <2>1, <3>1
    <3> QED BY <2>2, <3>2, <3>3 DEF Item
  <2> QED BY <2>1, <2>2, <2>3, <2>4 DEF Exists
<1> QED BY <1>1, Invariance, PTL

(* No step of any request, retry or use makes a revoked token active.      *)
THEOREM RevocationIsFinal == Spec => RevokedForGood
<1>1. TypeOK /\ [Next]_vars => (\A t \in Token : Revoked(t) => Revoked(t)') \/ UNCHANGED vars
  <2> SUFFICES ASSUME TypeOK, [Next]_vars, NEW t \in Token, Revoked(t)
               PROVE  Revoked(t)'
    OBVIOUS
  <2>1. ASSUME NEW u \in Token,
               CreateToken(u) \/ RevokeToken(u) \/ UpdateTokenUsage(u)
        PROVE  Revoked(t)'
    <3>1. PICK item \in Item : /\ GainsAtMost(u, item)
                               /\ Exists(u) /\ Revoked(u) => item.status = "revoked"
      BY <2>1, WritesGain
    <3>2. CASE written' = written \/ u # t
      BY <3>1, <3>2 DEF GainsAtMost, TypeOK, Revoked, Exists, Current
    <3>3. CASE u = t /\ written' = [written EXCEPT ![t] = Append(@, item)]
      <4>1. /\ written'[t] = Append(written[t], item) /\ written[t] \in Seq(Item)
            /\ item.status = "revoked"
        BY <3>1, <3>3 DEF TypeOK, Revoked
      <4>2. /\ Len(written'[t]) = Len(written[t]) + 1 /\ Len(written[t]) \in Nat
            /\ written'[t][Len(written[t]) + 1] = item
        BY <4>1, OneMoreState
      <4>3. written'[t] # <<>>
        BY <4>1, <4>2
      <4> QED BY <4>1, <4>2, <4>3 DEF Revoked, Exists, Current
    <3> QED BY <3>1, <3>2, <3>3 DEF GainsAtMost
  <2>2. CASE UNCHANGED written
    BY <2>2 DEF Revoked, Exists, Current
  <2>3. ASSUME NEW r \in Request,
               \/ \E u \in Token, guard \in Guard : CanActivate(r, u, guard)
               \/ Query(r) \/ Validate(r) \/ CheckRateLimit(r) \/ Handle(r) \/ Fail(r)
        PROVE  UNCHANGED written
    BY <2>3 DEF CanActivate, Query, Validate, CheckRateLimit, Handle, Fail, Pass, Finish
  <2>4. Tick \/ UNCHANGED vars \/ (\E u \in Token : Replicate(u)) => UNCHANGED written
    BY DEF Tick, vars, Replicate
  <2> QED BY <2>1, <2>2, <2>3, <2>4 DEF Next
<1>2. TypeOK /\ [Next]_vars => [\A t \in Token : Revoked(t) => Revoked(t)']_vars
  BY <1>1
<1> QED BY <1>2, TypeCorrect, PTL DEF Spec, RevokedForGood
=============================================================================
