-------------------------- MODULE ServerCalls_proofs --------------------------
(***************************************************************************)
(* Proofs about the four parts of MCServerCalls, for any number of calls:  *)
(*  - CustomMetrics: counts are lost only if they were made while a        *)
(*    publication was on its way, or with the process, and doubled only by *)
(*    overlapping or repeated publications;                                *)
(*  - ManageKeys: whatever fails and whenever a process ends, an answer    *)
(*    tells what the function has stored, audited and counted.  Assumed of *)
(*    None is that it is no status;                                        *)
(*  - TaskTimeline: an acknowledged change of status is in the timeline,   *)
(*    and undisturbed changes are a chain from PENDING to what the item    *)
(*    is.  Assumed of None is that it is no time and no event;             *)
(*  - LambdaRateLimiter: no minute lets more than the limit through, and   *)
(*    nobody is refused below it;                                          *)
(* and about their composition.                                            *)
(***************************************************************************)
EXTENDS MCServerCalls, FiniteSetTheorems, TLAPS

-----------------------------------------------------------------------------
(* CustomMetrics                                                           *)

Counts == [Metrics!Key -> Nat]

MetricsTypeOK ==
  /\ metrics \in Counts /\ cloudwatch \in Counts
  /\ tracked \in Counts /\ atRisk \in Counts /\ lost \in Counts
  /\ publication \in [Publication -> [pc : {"idle", "sent", "taken"},
                                      metricData : Counts]]
  /\ repeated \in BOOLEAN

LEMMA ZeroType == Metrics!Zero \in Counts /\ \A k \in Metrics!Key : Metrics!Zero[k] = 0
  BY DEF Metrics!Zero, Counts

LEMMA PlusType ==
  ASSUME NEW f \in Counts, NEW counted \in SUBSET Metrics!Key
  PROVE  /\ Metrics!Plus(f, counted) \in Counts
         /\ \A k \in Metrics!Key : Metrics!Plus(f, counted)[k] = IF k \in counted THEN f[k] + 1 ELSE f[k]
  BY DEF Metrics!Plus, Counts

LEMMA KeysOfCall ==
  ASSUME NEW api \in Api, NEW success \in BOOLEAN
  PROVE  {<<api, "calls">>, <<api, IF success THEN "success" ELSE "error">>} \in SUBSET Metrics!Key
  BY DEF Metrics!Key

(* All variables keep their types: custom-metrics.ts.                      *)
THEOREM MetricsTypeCorrect == Metrics!Spec => []MetricsTypeOK
<1>1. Metrics!Init => MetricsTypeOK
  <2>1. Metrics!Idle \in [pc : {"idle", "sent", "taken"}, metricData : Counts]
    BY ZeroType DEF Metrics!Idle
  <2> QED BY <2>1, ZeroType DEF Metrics!Init, MetricsTypeOK
<1>2. MetricsTypeOK /\ [Metrics!Next]_(Metrics!vars) => MetricsTypeOK'
  <2> SUFFICES ASSUME MetricsTypeOK, [Metrics!Next]_(Metrics!vars) PROVE MetricsTypeOK'
    OBVIOUS
  <2> USE DEF MetricsTypeOK
  <2>1. ASSUME NEW api \in Api, NEW success \in BOOLEAN, Metrics!TrackApiUsage(api, success)
        PROVE  MetricsTypeOK'
    <3> DEFINE counted == {<<api, "calls">>, <<api, IF success THEN "success" ELSE "error">>}
    <3>1. /\ Metrics!Plus(metrics, counted) \in Counts /\ Metrics!Plus(tracked, counted) \in Counts
          /\ Metrics!Plus(atRisk, counted) \in Counts
      <4>1. counted \in SUBSET Metrics!Key
        BY KeysOfCall
      <4> HIDE DEF counted
      <4> QED BY <4>1, PlusType
    <3> QED BY <2>1, <3>1 DEF Metrics!TrackApiUsage
  <2>2. ASSUME NEW p \in Publication, Metrics!PublishMetrics(p) PROVE MetricsTypeOK'
    BY <2>2 DEF Metrics!PublishMetrics
  <2>3. ASSUME NEW p \in Publication, Metrics!PutMetricData(p) PROVE MetricsTypeOK'
    <3>1. [k \in Metrics!Key |-> cloudwatch[k] + publication[p].metricData[k]] \in Counts
      BY DEF Counts
    <3> QED BY <2>3, <3>1 DEF Metrics!PutMetricData
  <2>4. ASSUME NEW p \in Publication, Metrics!Clear(p) PROVE MetricsTypeOK'
    BY <2>4, ZeroType DEF Metrics!Clear, Metrics!Idle
  <2>5. ASSUME NEW p \in Publication, Metrics!Fail(p) PROVE MetricsTypeOK'
    BY <2>5, ZeroType DEF Metrics!Fail, Metrics!Idle
  <2>6. ASSUME NEW p \in Publication, Metrics!Resend(p) PROVE MetricsTypeOK'
    BY <2>6 DEF Metrics!Resend
  <2>7. CASE UNCHANGED Metrics!vars
    BY <2>7 DEF Metrics!vars
  <2>8. CASE Metrics!End
    <3>1. [k \in Metrics!Key |-> lost[k] + metrics[k]] \in Counts
      BY DEF Counts
    <3> QED BY <2>8, <3>1, ZeroType DEF Metrics!End, Metrics!Idle
  <2> QED BY <2>1, <2>2, <2>3, <2>4, <2>5, <2>6, <2>7, <2>8 DEF Metrics!Next
<1> QED BY <1>1, <1>2, PTL DEF Metrics!Spec
-----------------------------------------------------------------------------
(* No count is missing: what is not in the counters was sent by the        *)
(* publication that has yet to clear them, made while it was under way, or  *)
(* lost with the process.                                                  *)
NothingLost ==
  /\ \A k \in Metrics!Key : tracked[k] <= cloudwatch[k] + metrics[k] + atRisk[k] + lost[k]
  /\ \A p \in Publication, k \in Metrics!Key :
       /\ publication[p].pc = "sent" =>
            tracked[k] <= cloudwatch[k] + publication[p].metricData[k] + atRisk[k] + lost[k]
       /\ publication[p].pc = "taken" => tracked[k] <= cloudwatch[k] + atRisk[k] + lost[k]

(* While there is one publication at a time, CloudWatch and the counters   *)
(* together have no count twice until it is taken, and CloudWatch has none *)
(* twice afterwards.                                                       *)
NothingTwice ==
  ~ repeated =>
    /\ \A p, q \in Metrics!Publishing : p = q
    /\ \A k \in Metrics!Key :
         /\ cloudwatch[k] <= tracked[k]
         /\ (\A p \in Publication : publication[p].pc # "taken") =>
              cloudwatch[k] + metrics[k] <= tracked[k]
         /\ \A p \in Publication : publication[p].pc = "sent" =>
              publication[p].metricData[k] <= metrics[k]

LEMMA PublishingByState ==
  ASSUME MetricsTypeOK, NEW p \in Publication, publication[p].pc # "idle"
  PROVE  p \in Metrics!Publishing
  BY DEF Metrics!Publishing, Metrics!Idle

LEMMA NothingLostInit == Metrics!Init => NothingLost /\ NothingTwice
  <1> SUFFICES ASSUME Metrics!Init PROVE NothingLost /\ NothingTwice
    OBVIOUS
  <1>1. \A p \in Publication : publication[p].pc = "idle"
    BY DEF Metrics!Init, Metrics!Idle
  <1>2. Metrics!Publishing = {}
    BY DEF Metrics!Init, Metrics!Publishing
  <1> QED BY <1>1, <1>2, ZeroType DEF Metrics!Init, NothingLost, NothingTwice

LEMMA NothingLostStep == MetricsTypeOK /\ NothingLost /\ [Metrics!Next]_(Metrics!vars) => NothingLost'
  <1> SUFFICES ASSUME MetricsTypeOK, NothingLost, [Metrics!Next]_(Metrics!vars) PROVE NothingLost'
    OBVIOUS
  <1> USE DEF MetricsTypeOK, Counts
  <1>1. ASSUME NEW api \in Api, NEW success \in BOOLEAN, Metrics!TrackApiUsage(api, success)
        PROVE  NothingLost'
    <2> DEFINE counted == {<<api, "calls">>, <<api, IF success THEN "success" ELSE "error">>}
    <2>1. \A k \in Metrics!Key :
            /\ tracked'[k] = IF k \in counted THEN tracked[k] + 1 ELSE tracked[k]
            /\ metrics'[k] = IF k \in counted THEN metrics[k] + 1 ELSE metrics[k]
            /\ atRisk'[k] = IF k \in counted /\ Metrics!Publishing # {} THEN atRisk[k] + 1 ELSE atRisk[k]
      <3>1. counted \in SUBSET Metrics!Key
        BY KeysOfCall
      <3>2. /\ metrics' = Metrics!Plus(metrics, counted) /\ tracked' = Metrics!Plus(tracked, counted)
            /\ atRisk' = IF Metrics!Publishing = {} THEN atRisk ELSE Metrics!Plus(atRisk, counted)
        BY <1>1 DEF Metrics!TrackApiUsage
      <3> HIDE DEF counted
      <3> QED BY <3>1, <3>2, PlusType
    <2>2. cloudwatch' = cloudwatch /\ publication' = publication /\ lost' = lost
      BY <1>1 DEF Metrics!TrackApiUsage
    <2>3. \A p \in Publication : publication[p].pc # "idle" => Metrics!Publishing # {}
      BY PublishingByState
    <2> HIDE DEF counted
    <2>4. \A k \in Metrics!Key :
            tracked'[k] <= cloudwatch'[k] + metrics'[k] + atRisk'[k] + lost'[k]
      BY <2>1, <2>2 DEF NothingLost
    <2>5. ASSUME NEW p \in Publication, NEW k \in Metrics!Key, publication[p].pc # "idle"
          PROVE  tracked'[k] - tracked[k] <= atRisk'[k] - atRisk[k]
      BY <2>1, <2>3, <2>5
    <2>6. ASSUME NEW p \in Publication, NEW k \in Metrics!Key
          PROVE  /\ publication'[p].pc = "sent" => tracked'[k] <=
                      cloudwatch'[k] + publication'[p].metricData[k] + atRisk'[k] + lost'[k]
                 /\ publication'[p].pc = "taken" =>
                      tracked'[k] <= cloudwatch'[k] + atRisk'[k] + lost'[k]
      <3>1. /\ tracked[k] \in Nat /\ tracked'[k] \in Nat /\ atRisk[k] \in Nat
            /\ atRisk'[k] \in Nat /\ cloudwatch[k] \in Nat /\ lost[k] \in Nat
            /\ publication[p].metricData[k] \in Nat
        BY <2>1
      <3> QED BY <2>2, <2>5, <3>1 DEF NothingLost
    <2> QED BY <2>4, <2>6 DEF NothingLost
  <1>2. ASSUME NEW p \in Publication, Metrics!PublishMetrics(p) PROVE NothingLost'
    BY <1>2 DEF Metrics!PublishMetrics, NothingLost
  <1>3. ASSUME NEW p \in Publication, Metrics!PutMetricData(p) PROVE NothingLost'
    <2>1. \A k \in Metrics!Key : cloudwatch'[k] = cloudwatch[k] + publication[p].metricData[k]
      BY <1>3 DEF Metrics!PutMetricData
    <2> QED BY <1>3, <2>1 DEF Metrics!PutMetricData, NothingLost
  <1>4. ASSUME NEW p \in Publication, Metrics!Clear(p) PROVE NothingLost'
    BY <1>4, ZeroType DEF Metrics!Clear, NothingLost, Metrics!Idle
  <1>5. ASSUME NEW p \in Publication, Metrics!Fail(p) PROVE NothingLost'
    BY <1>5, ZeroType DEF Metrics!Fail, NothingLost, Metrics!Idle
  <1>6. ASSUME NEW p \in Publication, Metrics!Resend(p) PROVE NothingLost'
    BY <1>6 DEF Metrics!Resend, NothingLost
  <1>7. CASE UNCHANGED Metrics!vars
    BY <1>7 DEF Metrics!vars, NothingLost
  <1>8. CASE Metrics!End
    <2>1. \A k \in Metrics!Key : lost'[k] = lost[k] + metrics[k] /\ metrics'[k] = 0
      BY <1>8, ZeroType DEF Metrics!End
    <2>2. \A p \in Publication : publication'[p].pc = "idle"
      BY <1>8 DEF Metrics!End, Metrics!Idle
    <2> QED BY <1>8, <2>1, <2>2 DEF Metrics!End, NothingLost
  <1> QED BY <1>1, <1>2, <1>3, <1>4, <1>5, <1>6, <1>7, <1>8 DEF Metrics!Next

LEMMA NothingTwiceStep == MetricsTypeOK /\ NothingTwice /\ [Metrics!Next]_(Metrics!vars) => NothingTwice'
  <1> SUFFICES ASSUME MetricsTypeOK, NothingTwice, [Metrics!Next]_(Metrics!vars), ~ repeated'
               PROVE  NothingTwice'
    BY DEF NothingTwice
  <1> USE DEF MetricsTypeOK, Counts
  <1>1. ASSUME NEW api \in Api, NEW success \in BOOLEAN, Metrics!TrackApiUsage(api, success)
        PROVE  NothingTwice'
    <2> DEFINE counted == {<<api, "calls">>, <<api, IF success THEN "success" ELSE "error">>}
    <2>1. \A k \in Metrics!Key :
            /\ tracked'[k] = IF k \in counted THEN tracked[k] + 1 ELSE tracked[k]
            /\ metrics'[k] = IF k \in counted THEN metrics[k] + 1 ELSE metrics[k]
      <3>1. counted \in SUBSET Metrics!Key
        BY KeysOfCall
      <3>2. /\ metrics' = Metrics!Plus(metrics, counted) /\ tracked' = Metrics!Plus(tracked, counted)
            /\ atRisk' = IF Metrics!Publishing = {} THEN atRisk ELSE Metrics!Plus(atRisk, counted)
        BY <1>1 DEF Metrics!TrackApiUsage
      <3> HIDE DEF counted
      <3> QED BY <3>1, <3>2, PlusType
    <2>2. cloudwatch' = cloudwatch /\ publication' = publication /\ repeated' = repeated
      BY <1>1 DEF Metrics!TrackApiUsage
    <2>3. Metrics!Publishing' = Metrics!Publishing
      BY <2>2 DEF Metrics!Publishing
    <2> HIDE DEF counted
    <2> QED BY <2>1, <2>2, <2>3 DEF NothingTwice
  <1>2. ASSUME NEW p \in Publication, Metrics!PublishMetrics(p) PROVE NothingTwice'
    <2>1. Metrics!Publishing = {} /\ ~ repeated
      BY <1>2 DEF Metrics!PublishMetrics
    <2>2. Metrics!Publishing' \subseteq {p}
      BY <1>2, <2>1 DEF Metrics!PublishMetrics, Metrics!Publishing
    <2>3. \A q \in Publication : publication[q].pc = "idle"
      BY <2>1, PublishingByState
    <2> QED BY <1>2, <2>1, <2>2, <2>3 DEF Metrics!PublishMetrics, NothingTwice
  <1>3. ASSUME NEW p \in Publication, Metrics!PutMetricData(p) PROVE NothingTwice'
    <2>1. \A k \in Metrics!Key : cloudwatch'[k] = cloudwatch[k] + publication[p].metricData[k]
      BY <1>3 DEF Metrics!PutMetricData
    <2>2. ~ repeated /\ p \in Metrics!Publishing
      BY <1>3, PublishingByState DEF Metrics!PutMetricData
    <2>3. \A q \in Publication : q # p => publication[q].pc = "idle"
      BY <2>2, PublishingByState DEF NothingTwice
    <2>4. Metrics!Publishing' \subseteq Metrics!Publishing
      BY <1>3, <2>2 DEF Metrics!PutMetricData, Metrics!Publishing
    <2>5. publication'[p].pc = "taken" /\ tracked' = tracked /\ metrics' = metrics
      BY <1>3 DEF Metrics!PutMetricData
    <2>6. \A q \in Publication : publication'[q].pc # "sent"
      BY <1>3, <2>3 DEF Metrics!PutMetricData
    <2>7. \A k \in Metrics!Key : cloudwatch[k] + publication[p].metricData[k] <= tracked[k]
      <3> SUFFICES ASSUME NEW k \in Metrics!Key
                   PROVE  cloudwatch[k] + publication[p].metricData[k] <= tracked[k]
        OBVIOUS
      <3>1. \A q \in Publication : publication[q].pc # "taken"
        BY <1>3, <2>3 DEF Metrics!PutMetricData
      <3>2. cloudwatch[k] + metrics[k] <= tracked[k]
        BY <2>2, <3>1 DEF NothingTwice
      <3>3. publication[p].metricData[k] <= metrics[k]
        BY <1>3, <2>2 DEF Metrics!PutMetricData, NothingTwice
      <3> QED BY <3>2, <3>3
    <2> QED BY <2>1, <2>2, <2>4, <2>5, <2>6, <2>7 DEF NothingTwice
  <1>4. ASSUME NEW p \in Publication, Metrics!Clear(p) PROVE NothingTwice'
    <2>1. Metrics!Publishing' \subseteq Metrics!Publishing /\ ~ repeated
      BY <1>4 DEF Metrics!Clear, Metrics!Publishing
    <2>2. \A q \in Publication : publication'[q].pc = "sent" => q # p /\ publication[q].pc = "sent"
      BY <1>4 DEF Metrics!Clear, Metrics!Idle
    <2>3. \A q \in Publication : publication[q].pc # "sent"
      BY <1>4, <2>1, PublishingByState DEF NothingTwice, Metrics!Clear
    <2> QED BY <1>4, <2>1, <2>2, <2>3, ZeroType DEF Metrics!Clear, NothingTwice
  <1>5. ASSUME NEW p \in Publication, Metrics!Fail(p) PROVE NothingTwice'
    <2>1. Metrics!Publishing' \subseteq Metrics!Publishing /\ ~ repeated /\ publication[p].pc # "taken"
      BY <1>5 DEF Metrics!Fail, Metrics!Publishing
    <2>2. \A q \in Publication :
            /\ publication'[q].pc = "sent" => publication'[q] = publication[q]
            /\ publication[q].pc = "taken" => publication'[q].pc = "taken"
      BY <1>5, <2>1 DEF Metrics!Fail, Metrics!Idle
    <2> QED BY <1>5, <2>1, <2>2 DEF Metrics!Fail, NothingTwice
  <1>6. ASSUME NEW p \in Publication, Metrics!Resend(p) PROVE NothingTwice'
    BY <1>6 DEF Metrics!Resend
  <1>7. CASE UNCHANGED Metrics!vars
    BY <1>7 DEF Metrics!vars, NothingTwice, Metrics!Publishing
  <1>8. CASE Metrics!End
    <2>1. \A k \in Metrics!Key : metrics'[k] = 0
      BY <1>8, ZeroType DEF Metrics!End
    <2>2. Metrics!Publishing' = {} /\ \A p \in Publication : publication'[p].pc = "idle"
      BY <1>8 DEF Metrics!End, Metrics!Idle, Metrics!Publishing
    <2>3. ~ repeated
      BY <1>8 DEF Metrics!End
    <2> QED BY <1>8, <2>1, <2>2, <2>3 DEF Metrics!End, NothingTwice
  <1> QED BY <1>1, <1>2, <1>3, <1>4, <1>5, <1>6, <1>7, <1>8 DEF Metrics!Next

(* Counts are lost only if they were made while a publication was on its   *)
(* way or were not published when the process ended, and doubled only by overlapping or repeated ones, in any number of *)
(* calls and publications: publishMetrics of custom-metrics.ts.            *)
THEOREM CountsAlwaysAddUp == Metrics!Spec => []CountsAddUp
<1>1. Metrics!Init => NothingLost /\ NothingTwice
  BY NothingLostInit
<1>2. MetricsTypeOK /\ NothingLost /\ NothingTwice
        /\ [Metrics!Next]_(Metrics!vars) => NothingLost' /\ NothingTwice'
  BY NothingLostStep, NothingTwiceStep
<1>3. NothingLost /\ NothingTwice => CountsAddUp
  BY DEF NothingLost, NothingTwice, CountsAddUp, Metrics!CountsAddUp
<1> QED BY <1>1, <1>2, <1>3, MetricsTypeCorrect, PTL DEF Metrics!Spec
-----------------------------------------------------------------------------
(* ManageKeys                                                              *)

HttpStatus == {200, 201, 400, 401, 405, 429, 500}
KeyPc == {"verify", "limit", "validate", "scan", "put", "audit", "meter", "return",
       "answered", "dead"}

KeyState ==
  [method : KeyFunction!Method, token : KeyFunction!Token, body : KeyFunction!Body,
   pc : KeyPc, status : HttpStatus \cup {None}]

KeysTypeOK ==
  /\ invocation \in [Invocation -> {KeyFunction!Idle} \cup KeyState]
  /\ keys \subseteq Invocation
  /\ audit \in [Invocation -> HttpStatus \cup {None}]
  /\ metered \in [Invocation -> HttpStatus \cup {None}]

Unstored == {"idle", "verify", "limit", "validate", "scan", "put"}
Unaudited == Unstored \cup {"audit"}
Unmetered == Unaudited \cup {"meter"}

(* Where an invocation stands says what it has stored, audited and counted *)
(* so far, and what has been verified of its request.                      *)
Consistent(r) ==
  LET s == invocation[r] IN
  /\ s.pc \in Unstored => r \notin keys
  /\ s.pc \in Unaudited => audit[r] = None
  /\ s.pc \in Unmetered => metered[r] = None
  /\ s.pc \in {"audit", "meter", "return"} =>
       s.status \in {200, 201} /\ (r \in keys <=> s.status = 201)
  /\ s.pc \in {"meter", "return"} => audit[r] = s.status
  /\ s.pc = "return" => metered[r] = s.status
  /\ s.pc \in {"limit", "validate", "scan", "put", "audit", "meter", "return"} =>
       s.token = "good"
  /\ s.pc \in {"scan", "put", "audit", "meter", "return"} => s.body \in {"none", "valid"}
  /\ r \in keys => s.token = "good" /\ s.body \in {"none", "valid"}
  /\ s.pc = "answered" =>
       /\ s.status \in {400, 401, 405, 429} =>
            r \notin keys /\ audit[r] = None /\ metered[r] = None
       /\ s.status \in {200, 201} =>
            audit[r] = s.status /\ metered[r] = s.status /\ (r \in keys <=> s.status = 201)
       /\ s.status # 500 => (r \in keys => audit[r] # None)

KeysInv == KeysTypeOK /\ \A r \in Invocation : Consistent(r)

-----------------------------------------------------------------------------
LEMMA OthersKeep ==
  ASSUME KeysInv, NEW r \in Invocation,
         \A q \in Invocation \ {r} :
           /\ invocation'[q] = invocation[q]
           /\ audit'[q] = audit[q] /\ metered'[q] = metered[q]
           /\ q \in keys' <=> q \in keys,
         KeysTypeOK', Consistent(r)'
  PROVE  KeysInv'
  <1> SUFFICES ASSUME NEW q \in Invocation PROVE Consistent(q)'
    BY DEF KeysInv
  <1>1. CASE q = r
    BY <1>1
  <1>2. CASE q # r
    BY <1>2 DEF KeysInv, Consistent
  <1> QED BY <1>1, <1>2

(* What the invocation at pc does: the state of r becomes s, nothing else. *)
LEMMA OnlyRequest ==
  ASSUME KeysInv, NEW r \in Invocation, NEW s \in KeyState,
         invocation' = [invocation EXCEPT ![r] = s],
         UNCHANGED <<keys, audit, metered>>,
         Consistent(r)'
  PROVE  KeysInv'
  <1>1. KeysTypeOK'
    BY DEF KeysInv, KeysTypeOK
  <1>2. \A q \in Invocation \ {r} : invocation'[q] = invocation[q]
    BY DEF KeysInv, KeysTypeOK
  <1> QED BY <1>1, <1>2, OthersKeep

LEMMA KeyStateOf ==
  ASSUME KeysTypeOK, NEW r \in Invocation, invocation[r].pc # "idle"
  PROVE  invocation[r] \in KeyState
  BY DEF KeysTypeOK, KeyFunction!Idle

LEMMA GotoStep ==
  ASSUME KeysTypeOK, NEW r \in Invocation, invocation[r].pc # "idle", NEW pc \in KeyPc,
         KeyFunction!Goto(r, pc)
  PROVE  LET s == [invocation[r] EXCEPT !.pc = pc]
         IN  s \in KeyState /\ invocation' = [invocation EXCEPT ![r] = s] /\ invocation'[r] = s
  BY KeyStateOf DEF KeysTypeOK, KeyState, KeyFunction!Goto

LEMMA AnswerStep ==
  ASSUME KeysTypeOK, NEW r \in Invocation, invocation[r].pc # "idle", NEW status \in HttpStatus,
         KeyFunction!Answer(r, status)
  PROVE  LET s == [invocation[r] EXCEPT !.pc = "answered", !.status = status]
         IN  s \in KeyState /\ invocation' = [invocation EXCEPT ![r] = s] /\ invocation'[r] = s
  BY KeyStateOf DEF KeysTypeOK, KeyState, KeyFunction!Answer, KeyPc

LEMMA RespondedStep ==
  ASSUME KeysTypeOK, NEW r \in Invocation, invocation[r].pc # "idle", NEW status \in HttpStatus,
         KeyFunction!Respond(r, status)
  PROVE  LET s == [invocation[r] EXCEPT !.pc = "audit", !.status = status]
         IN  s \in KeyState /\ invocation' = [invocation EXCEPT ![r] = s] /\ invocation'[r] = s
  BY KeyStateOf DEF KeysTypeOK, KeyState, KeyFunction!Respond, KeyPc
-----------------------------------------------------------------------------
(* A refusal or a failure: the invocation is answered, and has left no     *)
(* trace, or is told 500.                                                  *)
LEMMA RefusedStep ==
  ASSUME KeysInv, NEW r \in Invocation, NEW status \in HttpStatus,
         KeyFunction!Answer(r, status),
         invocation[r].pc \in Unmetered \cup {"return"}, invocation[r].pc # "idle",
         UNCHANGED <<keys, audit, metered>>,
         status = 500 \/ (invocation[r].pc \in Unstored /\ status \notin {200, 201})
  PROVE  KeysInv'
  <1> DEFINE s == [invocation[r] EXCEPT !.pc = "answered", !.status = status]
  <1>1. s \in KeyState /\ invocation' = [invocation EXCEPT ![r] = s] /\ invocation'[r] = s
    BY AnswerStep DEF KeysInv
  <1>2. invocation[r] \in KeyState
    BY KeyStateOf DEF KeysInv
  <1>3. /\ s.pc = "answered" /\ s.status = status
        /\ s.token = invocation[r].token /\ s.body = invocation[r].body
    BY <1>2 DEF KeyState
  <1> HIDE DEF s
  <1>4. Consistent(r)
    BY DEF KeysInv
  <1>5. Consistent(r)'
    BY <1>1, <1>3, <1>4 DEF Consistent, Unstored, Unaudited, Unmetered
  <1> QED BY <1>1, <1>5, OnlyRequest

(* A step on, which changes nothing but where the invocation stands.       *)
LEMMA GoneOn ==
  ASSUME KeysInv, NEW r \in Invocation, NEW pc \in KeyPc, KeyFunction!Goto(r, pc),
         invocation[r].pc # "idle", UNCHANGED <<keys, audit, metered>>, Consistent(r)'
  PROVE  KeysInv'
  <1> DEFINE s == [invocation[r] EXCEPT !.pc = pc]
  <1>1. s \in KeyState /\ invocation' = [invocation EXCEPT ![r] = s] /\ invocation'[r] = s
    BY GotoStep DEF KeysInv
  <1> HIDE DEF s
  <1> QED BY <1>1, OnlyRequest

LEMMA GoneTo ==
  ASSUME KeysInv, NEW r \in Invocation, NEW pc \in KeyPc, KeyFunction!Goto(r, pc),
         invocation[r].pc # "idle"
  PROVE  /\ invocation'[r].pc = pc /\ invocation'[r].status = invocation[r].status
         /\ invocation'[r].token = invocation[r].token /\ invocation'[r].body = invocation[r].body
         /\ invocation'[r].method = invocation[r].method
  <1> DEFINE s == [invocation[r] EXCEPT !.pc = pc]
  <1>1. invocation'[r] = s
    BY GotoStep DEF KeysInv
  <1>2. invocation[r] \in KeyState
    BY KeyStateOf DEF KeysInv
  <1>3. /\ s.pc = pc /\ s.status = invocation[r].status /\ s.token = invocation[r].token
        /\ s.body = invocation[r].body /\ s.method = invocation[r].method
    BY <1>2 DEF KeyState
  <1> HIDE DEF s
  <1> QED BY <1>1, <1>3
-----------------------------------------------------------------------------
LEMMA KeysInvInit == KeyFunction!Init => KeysInv
  BY DEF KeyFunction!Init, KeysInv, KeysTypeOK, Consistent, KeyFunction!Idle, Unstored,
         Unaudited, Unmetered

LEMMA ReceiveStep ==
  ASSUME KeysInv, NEW r \in Invocation, NEW method \in KeyFunction!Method,
         NEW token \in KeyFunction!Token,
         NEW body \in KeyFunction!Body, KeyFunction!Receive(r, method, token, body)
  PROVE  KeysInv'
  <1> DEFINE s == [method |-> method, token |-> token, body |-> body,
                   pc |-> IF token = "none" THEN "answered" ELSE "verify",
                   status |-> IF token = "none" THEN 401 ELSE None]
  <1>1. s \in KeyState
    BY DEF KeyState, HttpStatus, KeyPc
  <1>2. invocation' = [invocation EXCEPT ![r] = s] /\ UNCHANGED <<keys, audit, metered>>
    BY DEF KeyFunction!Receive
  <1>3. r \notin keys /\ audit[r] = None /\ metered[r] = None
    BY DEF KeyFunction!Receive, KeysInv, Consistent, KeyFunction!Idle, Unstored,
           Unaudited, Unmetered
  <1>4. invocation'[r] = s
    BY <1>2 DEF KeysInv, KeysTypeOK
  <1>5. Consistent(r)'
    BY <1>2, <1>3, <1>4 DEF Consistent
  <1> HIDE DEF s
  <1> QED BY <1>1, <1>2, <1>5, OnlyRequest

LEMMA VerifyStep == ASSUME KeysInv, NEW r \in Invocation, KeyFunction!Verify(r)
                    PROVE  KeysInv'
  <1>1. CASE invocation[r].token = "good"
    <2>1. /\ KeyFunction!Goto(r, "limit") /\ KeyFunction!At(r, "verify")
          /\ UNCHANGED <<keys, audit, metered>>
      BY <1>1 DEF KeyFunction!Verify
    <2>2. Consistent(r)'
      BY <1>1, <2>1, GoneTo
         DEF KeysInv, KeyFunction!At, KeyPc, Consistent, Unstored, Unaudited, Unmetered
    <2> QED BY <2>1, <2>2, GoneOn DEF KeyFunction!At, KeyPc
  <1>2. CASE invocation[r].token # "good"
    BY <1>2, RefusedStep
       DEF KeyFunction!Verify, KeyFunction!At, HttpStatus, Unstored, Unaudited, Unmetered
  <1> QED BY <1>1, <1>2

LEMMA LimitStep == ASSUME KeysInv, NEW r \in Invocation, KeyFunction!LimitRate(r) PROVE KeysInv'
  <1>1. CASE KeyFunction!Goto(r, "validate")
    <2>1. KeyFunction!At(r, "limit") /\ UNCHANGED <<keys, audit, metered>>
      BY DEF KeyFunction!LimitRate
    <2>2. Consistent(r)'
      BY <1>1, <2>1, GoneTo
         DEF KeysInv, KeyFunction!At, KeyPc, Consistent, Unstored, Unaudited, Unmetered
    <2> QED BY <1>1, <2>1, <2>2, GoneOn DEF KeyFunction!At, KeyPc
  <1>2. CASE KeyFunction!Throw(r, 429)
    BY <1>2, RefusedStep
       DEF KeyFunction!LimitRate, KeyFunction!Throw, KeyFunction!At, HttpStatus, Unstored,
           Unaudited, Unmetered
  <1> QED BY <1>1, <1>2 DEF KeyFunction!LimitRate

LEMMA ValidateStep == ASSUME KeysInv, NEW r \in Invocation, KeyFunction!Validate(r)
                      PROVE  KeysInv'
  <1>1. KeyFunction!At(r, "validate") /\ UNCHANGED <<keys, audit, metered>>
    BY DEF KeyFunction!Validate
  <1>2. invocation[r] \in KeyState
    BY <1>1, KeyStateOf DEF KeysInv, KeyFunction!At
  <1>3. ASSUME NEW status \in {400, 405, 500}, KeyFunction!Throw(r, status) PROVE KeysInv'
    BY <1>1, <1>3, RefusedStep
       DEF KeyFunction!Throw, KeyFunction!At, HttpStatus, Unstored, Unaudited, Unmetered
  <1>4. ASSUME NEW pc \in {"scan", "put"}, KeyFunction!Goto(r, pc),
               invocation[r].body \notin {"malformed", "invalid"}
        PROVE  KeysInv'
    <2>1. invocation[r].body \in {"none", "valid"}
      BY <1>2, <1>4 DEF KeyState, KeyFunction!Body
    <2>2. Consistent(r)'
      BY <1>1, <1>4, <2>1, GoneTo
         DEF KeysInv, KeyFunction!At, KeyPc, Consistent, Unstored, Unaudited, Unmetered
    <2> QED BY <1>1, <1>4, <2>2, GoneOn DEF KeyFunction!At, KeyPc
  <1> QED BY <1>3, <1>4 DEF KeyFunction!Validate

Stores(r, status) ==
  \/ status = 200 /\ keys' = keys
  \/ status = 201 /\ keys' = keys \cup {r}

(* Scan and Put answer, and Put has stored the key.                        *)
LEMMA RespondStep ==
  ASSUME KeysInv, NEW r \in Invocation, NEW status \in HttpStatus,
         KeyFunction!Respond(r, status),
         invocation[r].pc \in {"scan", "put"}, invocation[r].pc # "idle",
         Stores(r, status),
         UNCHANGED <<audit, metered>>
  PROVE  KeysInv'
  <1> DEFINE s == [invocation[r] EXCEPT !.pc = "audit", !.status = status]
  <1>1. invocation[r] \in KeyState
    BY KeyStateOf DEF KeysInv, KeyFunction!At
  <1>2. s \in KeyState /\ invocation' = [invocation EXCEPT ![r] = s] /\ invocation'[r] = s
    BY RespondedStep DEF KeysInv
  <1>7. /\ s.pc = "audit" /\ s.status = status
        /\ s.token = invocation[r].token /\ s.body = invocation[r].body
    BY <1>1 DEF KeyState
  <1> HIDE DEF s
  <1>3. Consistent(r) /\ KeysTypeOK
    BY DEF KeysInv
  <1>4. Consistent(r)'
    BY <1>2, <1>7, <1>3 DEF Consistent, Stores, Unstored, Unaudited, Unmetered
  <1>5. KeysTypeOK'
    BY <1>2, <1>3 DEF KeysTypeOK, Stores
  <1>6. \A q \in Invocation \ {r} : invocation'[q] = invocation[q] /\ (q \in keys' <=> q \in keys)
    BY <1>2, <1>3 DEF KeysTypeOK, Stores
  <1> QED BY <1>4, <1>5, <1>6, OthersKeep

LEMMA AuditStep == ASSUME KeysInv, NEW r \in Invocation, KeyFunction!Audit(r) PROVE KeysInv'
  <1>1. /\ KeyFunction!Goto(r, "meter") /\ KeyFunction!At(r, "audit")
        /\ UNCHANGED <<keys, metered>>
        /\ audit' = [audit EXCEPT ![r] = invocation[r].status]
    BY DEF KeyFunction!Audit
  <1>2. invocation[r] \in KeyState /\ KeysTypeOK /\ Consistent(r)
    BY <1>1, KeyStateOf DEF KeysInv, KeyFunction!At
  <1>3. KeysTypeOK'
    <2>1. invocation[r].status \in HttpStatus
      BY <1>1, <1>2 DEF Consistent, KeyFunction!At, HttpStatus
    <2>2. invocation' \in [Invocation -> {KeyFunction!Idle} \cup KeyState]
      <3> DEFINE s == [invocation[r] EXCEPT !.pc = "meter"]
      <3>1. invocation[r].pc # "idle" /\ "meter" \in KeyPc
        BY <1>1 DEF KeyFunction!At, KeyPc
      <3>2. s \in KeyState /\ invocation' = [invocation EXCEPT ![r] = s]
        BY <1>1, <1>2, <3>1, GotoStep
      <3> HIDE DEF s
      <3> QED BY <1>2, <3>2 DEF KeysTypeOK
    <2> QED BY <1>1, <1>2, <2>1, <2>2 DEF KeysTypeOK
  <1>4. audit'[r] = invocation[r].status
    BY <1>1, <1>2 DEF KeysTypeOK
  <1>5. Consistent(r)'
    BY <1>1, <1>2, <1>4, GoneTo
       DEF KeyFunction!At, KeyPc, Consistent, Unstored, Unaudited, Unmetered
  <1>6. \A q \in Invocation \ {r} : invocation'[q] = invocation[q] /\ audit'[q] = audit[q]
    BY <1>1, <1>2 DEF KeysTypeOK, KeyFunction!Goto
  <1> QED BY <1>1, <1>3, <1>5, <1>6, OthersKeep

LEMMA MeterStep == ASSUME KeysInv, NEW r \in Invocation, KeyFunction!Meter(r) PROVE KeysInv'
  <1>1. /\ KeyFunction!Goto(r, "return") /\ KeyFunction!At(r, "meter")
        /\ UNCHANGED <<keys, audit>>
        /\ metered' = [metered EXCEPT ![r] = invocation[r].status]
    BY DEF KeyFunction!Meter
  <1>2. invocation[r] \in KeyState /\ KeysTypeOK /\ Consistent(r)
    BY <1>1, KeyStateOf DEF KeysInv, KeyFunction!At
  <1>3. KeysTypeOK'
    <2>1. invocation[r].status \in HttpStatus
      BY <1>1, <1>2 DEF Consistent, KeyFunction!At, HttpStatus
    <2>2. invocation' \in [Invocation -> {KeyFunction!Idle} \cup KeyState]
      <3> DEFINE s == [invocation[r] EXCEPT !.pc = "return"]
      <3>1. invocation[r].pc # "idle" /\ "return" \in KeyPc
        BY <1>1 DEF KeyFunction!At, KeyPc
      <3>2. s \in KeyState /\ invocation' = [invocation EXCEPT ![r] = s]
        BY <1>1, <1>2, <3>1, GotoStep
      <3> HIDE DEF s
      <3> QED BY <1>2, <3>2 DEF KeysTypeOK
    <2> QED BY <1>1, <1>2, <2>1, <2>2 DEF KeysTypeOK
  <1>4. metered'[r] = invocation[r].status
    BY <1>1, <1>2 DEF KeysTypeOK
  <1>5. Consistent(r)'
    BY <1>1, <1>2, <1>4, GoneTo
       DEF KeyFunction!At, KeyPc, Consistent, Unstored, Unaudited, Unmetered
  <1>6. \A q \in Invocation \ {r} : invocation'[q] = invocation[q] /\ metered'[q] = metered[q]
    BY <1>1, <1>2 DEF KeysTypeOK, KeyFunction!Goto
  <1> QED BY <1>1, <1>3, <1>5, <1>6, OthersKeep

LEMMA ReturnStep == ASSUME None \notin Nat, KeysInv, NEW r \in Invocation,
                           KeyFunction!Return(r)
                    PROVE  KeysInv'
  <1> DEFINE s == [invocation[r] EXCEPT !.pc = "answered"]
  <1>1. /\ KeyFunction!At(r, "return") /\ KeyFunction!Answer(r, invocation[r].status)
        /\ UNCHANGED <<keys, audit, metered>>
    BY DEF KeyFunction!Return
  <1>2. invocation[r] \in KeyState /\ KeysTypeOK /\ Consistent(r)
    BY <1>1, KeyStateOf DEF KeysInv, KeyFunction!At
  <1>3. /\ s \in KeyState /\ invocation' = [invocation EXCEPT ![r] = s] /\ invocation'[r] = s
        /\ s.pc = "answered" /\ s.status = invocation[r].status
        /\ s.token = invocation[r].token /\ s.body = invocation[r].body
    BY <1>1, <1>2 DEF KeyFunction!Answer, KeyState, KeyPc, KeysTypeOK
  <1> HIDE DEF s
  <1>4. Consistent(r)'
    BY <1>1, <1>2, <1>3 DEF KeyFunction!At, Consistent, Unstored, Unaudited, Unmetered
  <1> QED BY <1>1, <1>3, <1>4, OnlyRequest

LEMMA FailStep == ASSUME KeysInv, NEW r \in Invocation, KeyFunction!Fail(r) PROVE KeysInv'
  <1>1. CASE KeyFunction!At(r, "verify")
    BY <1>1, RefusedStep
       DEF KeyFunction!Fail, KeyFunction!At, HttpStatus, Unstored, Unaudited, Unmetered
  <1>2. CASE ~ KeyFunction!At(r, "verify")
    BY <1>2, RefusedStep
       DEF KeyFunction!Fail, KeyFunction!Throw, KeyFunction!At, HttpStatus, Unstored,
           Unaudited, Unmetered
  <1> QED BY <1>1, <1>2

LEMMA KillStep == ASSUME KeysInv, NEW r \in Invocation, KeyFunction!Kill(r) PROVE KeysInv'
  <1>1. /\ KeyFunction!Goto(r, "dead") /\ invocation[r].pc # "idle"
        /\ UNCHANGED <<keys, audit, metered>>
    BY DEF KeyFunction!Kill, KeyFunction!InFlight
  <1>2. Consistent(r)
    BY DEF KeysInv
  <1>3. Consistent(r)'
    BY <1>1, <1>2, GoneTo DEF KeyPc, Consistent, Unstored, Unaudited, Unmetered
  <1> QED BY <1>1, <1>3, GoneOn DEF KeyPc

LEMMA KeysInvStep == ASSUME None \notin Nat, KeysInv,
                            [KeyFunction!Next]_(KeyFunction!vars)
                     PROVE  KeysInv'
  <1>1. ASSUME NEW r \in Invocation, NEW method \in KeyFunction!Method,
               NEW token \in KeyFunction!Token,
               NEW body \in KeyFunction!Body, KeyFunction!Receive(r, method, token, body)
        PROVE  KeysInv'
    BY <1>1, ReceiveStep
  <1>2. ASSUME NEW r \in Invocation,
               KeyFunction!Verify(r) \/ KeyFunction!LimitRate(r) \/ KeyFunction!Validate(r)
        PROVE  KeysInv'
    BY <1>2, VerifyStep, LimitStep, ValidateStep
  <1>3. ASSUME NEW r \in Invocation, KeyFunction!Scan(r) PROVE KeysInv'
    BY <1>3, RespondStep DEF KeyFunction!Scan, HttpStatus, Stores, KeyFunction!At
  <1>4. ASSUME NEW r \in Invocation, KeyFunction!Put(r) PROVE KeysInv'
    BY <1>4, RespondStep DEF KeyFunction!Put, HttpStatus, Stores, KeyFunction!At
  <1>5. ASSUME NEW r \in Invocation,
               KeyFunction!Audit(r) \/ KeyFunction!Meter(r) \/ KeyFunction!Return(r)
        PROVE  KeysInv'
    BY <1>5, AuditStep, MeterStep, ReturnStep
  <1>6. ASSUME NEW r \in Invocation, KeyFunction!Fail(r) \/ KeyFunction!Kill(r)
        PROVE  KeysInv'
    BY <1>6, FailStep, KillStep
  <1>7. CASE UNCHANGED KeyFunction!vars
    BY <1>7 DEF KeyFunction!vars, KeysInv, KeysTypeOK, Consistent
  <1> QED BY <1>1, <1>2, <1>3, <1>4, <1>5, <1>6, <1>7 DEF KeyFunction!Next

(* A refused request has changed nothing and left no trace, a successful   *)
(* one is on record as what it was, and a stored key that the audit log    *)
(* does not have was never acknowledged: the wrappers of manage-keys.ts.   *)
THEOREM AnswersTell ==
  ASSUME None \notin Nat
  PROVE  KeyFunction!Spec => []AnswersTellWhatHappened
<1>1. KeyFunction!Init => KeysInv
  BY KeysInvInit
<1>2. KeysInv /\ [KeyFunction!Next]_(KeyFunction!vars) => KeysInv'
  BY KeysInvStep
<1>3. KeysInv => AnswersTellWhatHappened
  <2> SUFFICES ASSUME KeysInv PROVE AnswersTellWhatHappened
    OBVIOUS
  <2>1. ASSUME NEW r \in Invocation
        PROVE  Consistent(r) /\ (r \in keys => invocation[r].pc \in KeyPc)
    BY KeyStateOf DEF KeysInv, Consistent, Unstored, KeyState
  <2>2. ASSUME NEW r \in Invocation
        PROVE  /\ KeyFunction!Answered(r, {400, 401, 405, 429}) =>
                    r \notin keys /\ audit[r] = None /\ metered[r] = None
               /\ KeyFunction!Answered(r, {200, 201}) =>
                    /\ audit[r] = invocation[r].status /\ metered[r] = invocation[r].status
                    /\ r \in keys <=> invocation[r].status = 201
    <3>1. Consistent(r)
      BY <2>1
    <3>2. CASE KeyFunction!Answered(r, {400, 401, 405, 429})
      <4>1. /\ invocation[r].pc = "answered" /\ invocation[r].status \in {400, 401, 405, 429}
            /\ ~ KeyFunction!Answered(r, {200, 201})
        BY <3>2 DEF KeyFunction!Answered, KeyFunction!At
      <4> QED BY <3>1, <4>1 DEF Consistent
    <3>3. CASE KeyFunction!Answered(r, {200, 201})
      <4>1. /\ invocation[r].pc = "answered" /\ invocation[r].status \in {200, 201}
            /\ ~ KeyFunction!Answered(r, {400, 401, 405, 429})
        BY <3>3 DEF KeyFunction!Answered, KeyFunction!At
      <4> QED BY <3>1, <4>1 DEF Consistent
    <3> QED BY <3>2, <3>3
  <2>3. \A r \in Invocation :
          r \in keys => invocation[r].token = "good" /\ invocation[r].body \in {"none", "valid"}
    BY <2>1 DEF Consistent
  <2>4. ASSUME NEW r \in Invocation, r \in keys, audit[r] = None
        PROVE  KeyFunction!InFlight(r) \/ KeyFunction!At(r, "dead") \/ KeyFunction!Answered(r, {500})
    <3>1. invocation[r].pc \in KeyPc /\ (invocation[r].pc = "answered" => invocation[r].status = 500)
      BY <2>1, <2>4 DEF Consistent
    <3> QED BY <3>1 DEF KeyPc, KeyFunction!InFlight, KeyFunction!At, KeyFunction!Answered
  <2> QED BY <2>2, <2>3, <2>4
     DEF AnswersTellWhatHappened, KeyFunction!AnswersTellWhatHappened
<1> QED BY <1>1, <1>2, <1>3, PTL DEF KeyFunction!Spec
-----------------------------------------------------------------------------
(* TaskTimeline                                                            *)

(* The events, what came before one, and the status that events lead to:   *)
(* the definitions of TimelineAddsUp.                                      *)
Events == Timeline!Events
Before(t) == {e \in Events : e < t}
Last(E) == CHOOSE e \in E : \A d \in E : d <= e
StatusAfter(E) == IF E = {} THEN Pending ELSE timeline[Last(E)].newStatus

(* Events have a last one: as they are added at the end, no induction.     *)
HasLast(E) == E = {} \/ \E e \in E : \A d \in E : d <= e

Time == 0 .. MaxTime
Event == [oldStatus : Status, newStatus : Status, update : Update]
UpdateState ==
  [pc : {"read", "write", "metric", "event", "recorded", "done", "failed"},
   status : Status, oldStatus : Status, timestamp : Time \cup {None}]

TimelineTypeOK ==
  /\ item \in Status /\ replica \in Status /\ now \in Time
  /\ timeline \in [Time -> Event \cup {None}]
  /\ update \in [Update -> UpdateState \cup {Timeline!Idle}]
  /\ disturbed \in BOOLEAN

(* The timestamp is set once, and the event recorded under it, unless the  *)
(* event of another update of that millisecond took its place.             *)
Stamped(u) ==
  LET s == update[u] IN
  /\ s.pc \in {"read", "write", "metric"} => s.timestamp = None
  /\ s.pc \in {"event", "recorded", "done"} => s.timestamp # None
  /\ s.pc # "idle" /\ s.timestamp # None => s.timestamp <= now
  /\ s.pc \in {"recorded", "done"} =>
       \/ Timeline!Collided(u)
       \/ timeline[s.timestamp] # None /\ timeline[s.timestamp].update = u

EventSound(t) ==
  LET e == timeline[t] IN
  e # None => /\ update[e.update].pc # "idle" /\ update[e.update].timestamp = t
              /\ e.oldStatus = update[e.update].oldStatus
              /\ e.newStatus = update[e.update].status

(* Nothing has disturbed the updates, and each has its own millisecond.    *)
Undisturbed ==
  ~ disturbed /\ \A u \in Timeline!Dated : ~ Timeline!Collided(u)

OneInFlight ==
  \A u, v \in Update : Timeline!InFlight(u) /\ Timeline!InFlight(v) => u = v

(* Then the events are a chain, and the update in flight is about to add   *)
(* to its end, or has.                                                     *)
ChainTo(t) == HasLast(Before(t)) /\ timeline[t].oldStatus = StatusAfter(Before(t))

UpdateAtEnd(u) ==
  LET s == update[u] IN
  /\ s.pc = "write" => s.oldStatus = StatusAfter(Events) /\ item \in {s.oldStatus, s.status}
  /\ s.pc = "metric" => s.oldStatus = StatusAfter(Events) /\ item = s.status
  /\ s.pc \in {"event", "recorded"} =>
       /\ \A d \in Events : d <= s.timestamp
       /\ HasLast(Before(s.timestamp))
       /\ s.oldStatus = StatusAfter(Before(s.timestamp))
       /\ item = s.status

Chain ==
  /\ OneInFlight
  /\ HasLast(Events)
  /\ \A t \in Events : ChainTo(t)
  /\ \A u \in Update : UpdateAtEnd(u)
  /\ (\A u \in Update : update[u].pc \notin {"write", "metric", "event"}) =>
       item = StatusAfter(Events)

TimelineInv ==
  /\ TimelineTypeOK
  /\ \A u \in Update : Stamped(u)
  /\ \A t \in Time : EventSound(t)
  /\ Undisturbed => Chain

-----------------------------------------------------------------------------
LEMMA LastIn ==
  ASSUME NEW E, HasLast(E), E # {}
  PROVE  Last(E) \in E /\ \A d \in E : d <= Last(E)
  BY DEF HasLast, Last

(* What new events leave of the status that older ones lead to.            *)
LEMMA StatusKept ==
  ASSUME NEW E, HasLast(E), \A d \in E : timeline'[d] = timeline[d]
  PROVE  StatusAfter(E)' = StatusAfter(E)
  <1> DEFINE l == Last(E)
  <1>1. E # {} => l \in E
    BY LastIn
  <1>2. StatusAfter(E) = IF E = {} THEN Pending ELSE timeline[l].newStatus
    BY DEF StatusAfter
  <1>3. StatusAfter(E)' = IF E = {} THEN Pending ELSE timeline'[l].newStatus
    BY DEF StatusAfter, Last
  <1> HIDE DEF l
  <1> QED BY <1>1, <1>2, <1>3

(* The event t that comes after those of E.                                *)
LEMMA LastOf ==
  ASSUME NEW E \in SUBSET Nat, NEW t \in E, \A d \in E : d <= t
  PROVE  HasLast(E) /\ Last(E) = t /\ E # {}
  <1>1. HasLast(E) /\ E # {}
    BY DEF HasLast
  <1>2. Last(E) \in Nat /\ t \in Nat /\ t <= Last(E) /\ Last(E) <= t
    BY <1>1, LastIn
  <1> QED BY <1>1, <1>2

-----------------------------------------------------------------------------
StampKept(u) ==
  u \in Timeline!Dated =>
    /\ u \in Timeline!Dated'
    /\ update'[u].timestamp = update[u].timestamp
    /\ update'[u].status = update[u].status
    /\ update'[u].oldStatus = update[u].oldStatus

LEMMA UpdateOf ==
  ASSUME TimelineTypeOK, NEW u \in Update, update[u].pc # "idle"
  PROVE  update[u] \in UpdateState /\ update[u] # Timeline!Idle
  BY DEF TimelineTypeOK, Timeline!Idle

LEMMA DatedOf ==
  ASSUME TimelineTypeOK, NEW u \in Update
  PROVE  u \in Timeline!Dated <=> update[u].pc # "idle" /\ update[u].timestamp # None
  BY DEF TimelineTypeOK, Timeline!Idle, Timeline!Dated, UpdateState

LEMMA UpdateSet ==
  ASSUME TimelineTypeOK, NEW u \in Update, NEW s \in UpdateState,
         update' = [update EXCEPT ![u] = s]
  PROVE  /\ update' \in [Update -> UpdateState \cup {Timeline!Idle}]
         /\ update'[u] = s /\ \A v \in Update : v # u => update'[v] = update[v]
  BY DEF TimelineTypeOK

LEMMA CollisionsKept ==
  ASSUME \A u \in Update : StampKept(u), disturbed => disturbed'
  PROVE  /\ \A u \in Timeline!Dated : Timeline!Collided(u) => Timeline!Collided(u)'
         /\ Undisturbed' => Undisturbed
  <1>1. ASSUME NEW u \in Timeline!Dated, Timeline!Collided(u)
        PROVE  Timeline!Collided(u)'
    <2>1. PICK v \in Timeline!Dated \ {u} : update[v].timestamp = update[u].timestamp
      BY <1>1 DEF Timeline!Collided
    <2>2. u \in Update /\ v \in Update /\ v # u
      BY <2>1 DEF Timeline!Dated
    <2>3. v \in Timeline!Dated' /\ update'[v].timestamp = update'[u].timestamp
      BY <2>1, <2>2 DEF StampKept
    <2> QED BY <2>2, <2>3 DEF Timeline!Collided
  <1>2. \A u \in Timeline!Dated : u \in Timeline!Dated'
    BY DEF StampKept, Timeline!Dated
  <1> QED BY <1>1, <1>2 DEF Undisturbed

(* What the theorem assumes of the constants.                              *)
TimelineConstants ==
  MaxTime \in Nat /\ None \notin Time /\ None \notin Event /\ Pending \in Status

LEMMA StampedKept ==
  ASSUME TimelineConstants, TimelineInv, TimelineTypeOK', NEW v \in Update,
         update'[v] = update[v], now <= now',
         v \in Timeline!Dated => \/ Timeline!Collided(v)'
                                \/ /\ ~ Timeline!Collided(v)
                                   /\ timeline'[update[v].timestamp] =
                                        timeline[update[v].timestamp]
  PROVE  Stamped(v)'
  <1>1. Stamped(v) /\ now \in Nat /\ now' \in Nat
    BY DEF TimelineInv, TimelineTypeOK, TimelineConstants, Time
  <1>2. CASE update[v].pc = "idle"
    BY <1>2 DEF Stamped
  <1>3. CASE update[v].pc # "idle"
    <2>1. update[v] \in UpdateState /\ (v \in Timeline!Dated <=> update[v].timestamp # None)
      BY <1>3, UpdateOf, DatedOf DEF TimelineInv
    <2>2. update[v].timestamp # None => update[v].timestamp \in Nat
      BY <2>1 DEF UpdateState, Time, TimelineConstants
    <2> QED BY <1>1, <2>1, <2>2 DEF Stamped
  <1> QED BY <1>2, <1>3

LEMMA EventKept ==
  ASSUME TimelineConstants, TimelineInv, TimelineTypeOK',
         NEW t \in Time, timeline'[t] = timeline[t],
         \A v \in Update : StampKept(v)
  PROVE  EventSound(t)'
  <1> SUFFICES ASSUME timeline[t] # None PROVE EventSound(t)'
    BY DEF EventSound
  <1>1. PICK v \in Update : v = timeline[t].update
    BY DEF TimelineInv, TimelineTypeOK, Event
  <1>2. /\ update[v].pc # "idle" /\ update[v].timestamp = t
        /\ timeline[t].oldStatus = update[v].oldStatus
        /\ timeline[t].newStatus = update[v].status
    BY <1>1 DEF TimelineInv, EventSound
  <1>3. v \in Timeline!Dated
    BY <1>2, DatedOf DEF TimelineInv, TimelineConstants
  <1>4. /\ v \in Timeline!Dated' /\ update'[v].timestamp = update[v].timestamp
        /\ update'[v].status = update[v].status
        /\ update'[v].oldStatus = update[v].oldStatus
    BY <1>3 DEF StampKept
  <1>5. update'[v].pc # "idle"
    BY <1>4 DEF Timeline!Dated, TimelineTypeOK, UpdateState
  <1> QED BY <1>1, <1>2, <1>4, <1>5 DEF EventSound

(* A step of update u that leaves the timeline alone.                      *)
LEMMA OthersSound ==
  ASSUME TimelineConstants, TimelineInv, TimelineTypeOK', NEW u \in Update, StampKept(u),
         \A v \in Update : v # u => update'[v] = update[v],
         timeline' = timeline, now <= now', disturbed => disturbed'
  PROVE  /\ \A v \in Update : v # u => Stamped(v)'
         /\ \A t \in Time : EventSound(t)'
         /\ \A v \in Timeline!Dated : Timeline!Collided(v) => Timeline!Collided(v)'
         /\ Undisturbed' => Undisturbed /\ Chain
  <1>1. \A v \in Update : StampKept(v)
    BY DEF StampKept, Timeline!Dated
  <1>2. /\ \A v \in Timeline!Dated : Timeline!Collided(v) => Timeline!Collided(v)'
        /\ Undisturbed' => Undisturbed /\ Chain
    BY <1>1, CollisionsKept DEF TimelineInv
  <1>3. ASSUME NEW v \in Update, v # u PROVE Stamped(v)'
    BY <1>2, <1>3, StampedKept
  <1>4. \A t \in Time : EventSound(t)'
    BY <1>1, EventKept
  <1> QED BY <1>2, <1>3, <1>4

LEMMA ChainKept ==
  ASSUME TimelineInv, Chain, NEW u \in Update, Timeline!InFlight(u),
         \A v \in Update : v # u => update'[v] = update[v],
         timeline' = timeline, UpdateAtEnd(u)',
         update'[u].pc \notin {"write", "metric", "event"} => item' = StatusAfter(Events)
  PROVE  Chain'
  <1>1. \A v \in Update : v # u => ~ Timeline!InFlight(v) /\ ~ Timeline!InFlight(v)'
    BY DEF Chain, OneInFlight, Timeline!InFlight
  <1>2. OneInFlight'
    BY <1>1 DEF OneInFlight
  <1>3. Events' = Events
    BY DEF Events, Timeline!Events
  <1>4. HasLast(Events)' /\ (\A t \in Events : ChainTo(t))'
    BY <1>3 DEF Chain, HasLast, ChainTo, Before, StatusAfter, Last
  <1>5. StatusAfter(Events)' = StatusAfter(Events)
    BY <1>3 DEF StatusAfter, Last
  <1>6. \A v \in Update : v # u => UpdateAtEnd(v)'
    BY <1>1 DEF UpdateAtEnd, Timeline!InFlight
  <1>7. (\A v \in Update : update'[v].pc \notin {"write", "metric", "event"}) =>
          item' = StatusAfter(Events)'
    BY <1>5
  <1> QED BY <1>2, <1>3, <1>4, <1>6, <1>7 DEF Chain

-----------------------------------------------------------------------------
LEMMA BeginInv ==
  ASSUME TimelineConstants, TimelineInv, NEW u \in Update, NEW status \in Status,
         Timeline!UpdateItemStatus(u, status)
  PROVE  TimelineInv'
  <1>s. PICK s : s = [pc |-> "read", status |-> status, oldStatus |-> status,
                      timestamp |-> None]
    OBVIOUS
  <1>1. /\ update[u] = Timeline!Idle /\ update' = [update EXCEPT ![u] = s]
        /\ disturbed' = (disturbed \/ \E v \in Update : Timeline!InFlight(v))
        /\ item' = item /\ replica' = replica /\ now' = now /\ timeline' = timeline
    BY <1>s, Zenon DEF Timeline!UpdateItemStatus
  <1>2. s \in UpdateState /\ s.pc = "read" /\ s.timestamp = None
    BY <1>s DEF UpdateState
  <1>3. /\ update' \in [Update -> UpdateState \cup {Timeline!Idle}]
        /\ update'[u] = s /\ \A v \in Update : v # u => update'[v] = update[v]
    BY <1>1, <1>2, UpdateSet DEF TimelineInv
  <1>4. TimelineTypeOK'
    <2>1. disturbed' \in BOOLEAN
      BY <1>1
    <2> QED BY <1>1, <1>3, <2>1 DEF TimelineInv, TimelineTypeOK
  <1>5. StampKept(u)
    BY <1>1 DEF StampKept, Timeline!Dated
  <1>6. /\ \A v \in Update : v # u => Stamped(v)'
        /\ \A t \in Time : EventSound(t)'
        /\ Undisturbed' => Undisturbed /\ Chain
    <2>1. now <= now' /\ (disturbed => disturbed')
      BY <1>1 DEF TimelineInv, TimelineTypeOK, TimelineConstants, Time
    <2> QED BY <1>1, <1>3, <1>4, <1>5, <2>1, OthersSound
  <1>7. Stamped(u)'
    BY <1>2, <1>3 DEF Stamped
  <1>8. ASSUME Undisturbed' PROVE Chain'
    <2>1. Chain /\ \A v \in Update : ~ Timeline!InFlight(v)
      BY <1>1, <1>6, <1>8 DEF Undisturbed
    <2>2. OneInFlight'
      BY <1>3, <2>1 DEF OneInFlight, Timeline!InFlight
    <2>3. Events' = Events /\ StatusAfter(Events)' = StatusAfter(Events)
      BY <1>1 DEF Events, Timeline!Events, StatusAfter, Last
    <2>4. HasLast(Events)' /\ (\A t \in Events : ChainTo(t))'
      BY <1>1, <2>1, <2>3 DEF Chain, HasLast, ChainTo, Before, StatusAfter, Last
    <2>5. \A v \in Update : UpdateAtEnd(v)'
      BY <1>2, <1>3, <2>1 DEF UpdateAtEnd, Timeline!InFlight
    <2>6. item = StatusAfter(Events)
      BY <2>1 DEF Chain, Timeline!InFlight
    <2> QED BY <1>1, <2>2, <2>3, <2>4, <2>5, <2>6 DEF Chain
  <1> QED BY <1>3, <1>4, <1>6, <1>7, <1>8 DEF TimelineInv

(* A step of an update that is in flight and leaves the timeline alone.    *)
LEMMA GoOn ==
  ASSUME TimelineConstants, TimelineInv, NEW u \in Update, Timeline!InFlight(u),
         NEW s \in UpdateState, update' = [update EXCEPT ![u] = s],
         update[u].timestamp # None =>
           /\ s.timestamp = update[u].timestamp /\ s.status = update[u].status
           /\ s.oldStatus = update[u].oldStatus,
         item' \in Status, replica' = replica, now' = now, timeline' = timeline,
         disturbed' \in BOOLEAN, disturbed => disturbed',
         s.pc \in {"recorded", "done"} => update[u].pc = "recorded",
         s.pc \in {"read", "write", "metric"} => s.timestamp = None,
         s.pc \in {"event", "recorded", "done"} => s.timestamp # None,
         s.timestamp # None => s.timestamp <= now,
         Undisturbed' /\ Chain =>
           /\ UpdateAtEnd(u)'
           /\ s.pc \notin {"write", "metric", "event"} => item' = StatusAfter(Events)
  PROVE  TimelineInv'
  <1>1. /\ update' \in [Update -> UpdateState \cup {Timeline!Idle}]
        /\ update'[u] = s /\ \A v \in Update : v # u => update'[v] = update[v]
    BY UpdateSet DEF TimelineInv
  <1>2. TimelineTypeOK'
    BY <1>1 DEF TimelineInv, TimelineTypeOK
  <1>3. StampKept(u)
    <2>1. s # Timeline!Idle
      BY DEF UpdateState, Timeline!Idle
    <2> QED BY <1>1, <2>1 DEF StampKept, Timeline!Dated
  <1>4. /\ \A v \in Update : v # u => Stamped(v)'
        /\ \A t \in Time : EventSound(t)'
        /\ \A v \in Timeline!Dated : Timeline!Collided(v) => Timeline!Collided(v)'
        /\ Undisturbed' => Undisturbed /\ Chain
    <2>1. now <= now'
      BY DEF TimelineInv, TimelineTypeOK, TimelineConstants, Time
    <2> QED BY <1>1, <1>2, <1>3, <2>1, OthersSound
  <1>5. Stamped(u)'
    <2>1. CASE s.pc \in {"recorded", "done"}
      <3>1. /\ update[u].pc = "recorded" /\ update[u].timestamp # None
            /\ \/ Timeline!Collided(u)
               \/ /\ timeline[update[u].timestamp] # None
                  /\ timeline[update[u].timestamp].update = u
        BY <2>1 DEF TimelineInv, Stamped
      <3>2. u \in Timeline!Dated
        BY <3>1, DatedOf DEF TimelineInv
      <3> QED BY <1>1, <1>4, <3>1, <3>2 DEF Stamped
    <2>2. CASE s.pc \notin {"recorded", "done"}
      BY <1>1, <2>2 DEF Stamped
    <2> QED BY <2>1, <2>2
  <1>6. Undisturbed' => Chain'
    BY <1>1, <1>4, ChainKept
  <1> QED BY <1>2, <1>4, <1>5, <1>6 DEF TimelineInv

-----------------------------------------------------------------------------
LEMMA ReadInv ==
  ASSUME TimelineConstants, TimelineInv, NEW u \in Update, Timeline!Read(u)
  PROVE  TimelineInv'
  <1>r. PICK r : r = update[u]
    OBVIOUS
  <1>1. PICK read \in {item, replica} :
          /\ r.pc = "read"
          /\ update' = [update EXCEPT ![u].pc = "write", ![u].oldStatus = read]
          /\ disturbed' = (disturbed \/ read # item)
          /\ item' = item /\ replica' = replica /\ now' = now /\ timeline' = timeline
    BY <1>r, Zenon DEF Timeline!Read
  <1>s. PICK s : s = [r EXCEPT !.pc = "write", !.oldStatus = read]
    OBVIOUS
  <1>2. /\ r \in UpdateState /\ Stamped(u)
        /\ read \in Status /\ update \in [Update -> UpdateState \cup {Timeline!Idle}]
    BY <1>r, <1>1, UpdateOf DEF TimelineInv, TimelineTypeOK
  <1>3. r.timestamp = None
    BY <1>r, <1>1, <1>2 DEF Stamped
  <1>4. /\ s \in UpdateState /\ s.pc = "write" /\ s.timestamp = None
        /\ s.oldStatus = read /\ s.status = r.status
    BY <1>s, <1>2, <1>3 DEF UpdateState
  <1>5. update' = [update EXCEPT ![u] = s] /\ update'[u] = s
    BY <1>r, <1>s, <1>1, <1>2
  <1>6. ASSUME Undisturbed', Chain PROVE UpdateAtEnd(u)'
    <2>1. read = item
      BY <1>1, <1>6 DEF Undisturbed
    <2>2. \A v \in Update : update[v].pc \notin {"write", "metric", "event"}
      BY <1>r, <1>1, <1>6 DEF Chain, OneInFlight, Timeline!InFlight
    <2>3. item = StatusAfter(Events)
      BY <1>6, <2>2 DEF Chain
    <2>4. StatusAfter(Events)' = StatusAfter(Events)
      BY <1>1 DEF Events, Timeline!Events, StatusAfter, Last
    <2> QED BY <1>1, <1>4, <1>5, <2>1, <2>3, <2>4 DEF UpdateAtEnd
  <1>7. /\ item' \in Status /\ disturbed' \in BOOLEAN
        /\ (disturbed => disturbed') /\ Timeline!InFlight(u)
    BY <1>r, <1>1 DEF TimelineInv, TimelineTypeOK, Timeline!InFlight
  <1> QED BY <1>r, <1>1, <1>3, <1>4, <1>5, <1>6, <1>7, GoOn

LEMMA WriteInv ==
  ASSUME TimelineConstants, TimelineInv, NEW u \in Update, Timeline!Write(u)
  PROVE  TimelineInv'
  <1>r. PICK r : r = update[u]
    OBVIOUS
  <1>1. /\ r.pc = "write" /\ item' = r.status
        /\ update' = [update EXCEPT ![u].pc = "metric"]
        /\ replica' = replica /\ now' = now /\ timeline' = timeline /\ disturbed' = disturbed
    BY <1>r, Zenon DEF Timeline!Write
  <1>s. PICK s : s = [r EXCEPT !.pc = "metric"]
    OBVIOUS
  <1>2. /\ r \in UpdateState /\ Stamped(u)
        /\ update \in [Update -> UpdateState \cup {Timeline!Idle}]
    BY <1>r, <1>1, UpdateOf DEF TimelineInv, TimelineTypeOK
  <1>3. r.timestamp = None
    BY <1>r, <1>1, <1>2 DEF Stamped
  <1>4. /\ s \in UpdateState /\ s.pc = "metric" /\ s.timestamp = None
        /\ s.oldStatus = r.oldStatus /\ s.status = r.status
    BY <1>s, <1>2, <1>3 DEF UpdateState
  <1>5. update' = [update EXCEPT ![u] = s] /\ update'[u] = s
    BY <1>r, <1>s, <1>1, <1>2
  <1>6. ASSUME Chain PROVE UpdateAtEnd(u)'
    <2>1. r.oldStatus = StatusAfter(Events)
      BY <1>r, <1>1, <1>6 DEF Chain, UpdateAtEnd
    <2>2. StatusAfter(Events)' = StatusAfter(Events)
      BY <1>1 DEF Events, Timeline!Events, StatusAfter, Last
    <2> QED BY <1>1, <1>4, <1>5, <2>1, <2>2 DEF UpdateAtEnd
  <1>7. /\ item' \in Status /\ disturbed' \in BOOLEAN
        /\ (disturbed => disturbed') /\ Timeline!InFlight(u)
    BY <1>r, <1>1, <1>2 DEF TimelineInv, TimelineTypeOK, Timeline!InFlight, UpdateState
  <1> QED BY <1>r, <1>1, <1>3, <1>4, <1>5, <1>6, <1>7, GoOn

LEMMA TrackStatusChangeInv ==
  ASSUME TimelineConstants, TimelineInv, NEW u \in Update, Timeline!TrackStatusChange(u)
  PROVE  TimelineInv'
  <1>r. PICK r : r = update[u]
    OBVIOUS
  <1>1. /\ r.pc = "metric"
        /\ update' = [update EXCEPT ![u].pc = "event", ![u].timestamp = now]
        /\ item' = item /\ replica' = replica /\ now' = now /\ timeline' = timeline
        /\ disturbed' = disturbed
    BY <1>r, Zenon DEF Timeline!TrackStatusChange
  <1>n. PICK n \in Time : n = now
    BY DEF TimelineInv, TimelineTypeOK
  <1>s. PICK s : s = [r EXCEPT !.pc = "event", !.timestamp = n]
    OBVIOUS
  <1>2. /\ r \in UpdateState /\ Stamped(u)
        /\ update \in [Update -> UpdateState \cup {Timeline!Idle}]
    BY <1>r, <1>1, UpdateOf DEF TimelineInv, TimelineTypeOK
  <1>3. r.timestamp = None /\ n # None /\ n \in Nat /\ n <= n
    BY <1>r, <1>1, <1>2 DEF Stamped, TimelineConstants, Time
  <1>4. /\ s \in UpdateState /\ s.pc = "event" /\ s.timestamp = n
        /\ s.oldStatus = r.oldStatus /\ s.status = r.status
    BY <1>s, <1>2, <1>3 DEF UpdateState
  <1>5. update' = [update EXCEPT ![u] = s] /\ update'[u] = s
    BY <1>r, <1>s, <1>n, <1>1, <1>2
  <1>6. ASSUME Undisturbed', Chain PROVE UpdateAtEnd(u)'
    <2>1. r.oldStatus = StatusAfter(Events) /\ item = r.status /\ HasLast(Events)
      BY <1>r, <1>1, <1>6 DEF Chain, UpdateAtEnd
    <2>2. ASSUME NEW d \in Events PROVE d < n
      <3>1. d \in Time /\ timeline[d] # None
        BY DEF Events, Timeline!Events, Time
      <3>2. PICK v \in Update : v = timeline[d].update
        BY <3>1 DEF TimelineInv, TimelineTypeOK, Event
      <3>3. update[v].pc # "idle" /\ update[v].timestamp = d
        BY <3>1, <3>2 DEF TimelineInv, EventSound
      <3>4. v # u /\ d <= n /\ d # None
        BY <1>r, <1>n, <1>3, <3>1, <3>3 DEF TimelineInv, Stamped, TimelineConstants
      <3>5. update'[v] = update[v]
        BY <1>5, <1>2, <3>4
      <3>6. d # n
        <4>1. v \in Timeline!Dated
          BY <3>3, <3>4, DatedOf DEF TimelineInv
        <4>2. v \in Timeline!Dated' /\ u \in Timeline!Dated'
          BY <1>3, <1>4, <1>5, <3>5, <4>1 DEF Timeline!Dated, Timeline!Idle
        <4> QED BY <1>4, <1>5, <1>6, <3>3, <3>4, <3>5, <4>2
           DEF Undisturbed, Timeline!Collided
      <3> QED BY <1>3, <3>1, <3>4, <3>6 DEF Time, TimelineConstants
    <2>3. Before(n) = Events /\ Events' = Events
      <3>1. \A d \in Events : d < n
        BY <2>2
      <3>2. Before(n) = Events
        BY <3>1, Zenon DEF Before
      <3> QED BY <1>1, <3>2 DEF Events, Timeline!Events
    <2>4. Before(n)' = Before(n) /\ StatusAfter(Before(n))' = StatusAfter(Before(n))
      BY <1>1, <2>3 DEF Before, StatusAfter, Last
    <2>5. \A d \in Events : d <= n
      BY <1>3, <2>2 DEF Events, Timeline!Events
    <2>6. HasLast(Before(n))' /\ r.oldStatus = StatusAfter(Before(n))'
      BY <2>1, <2>3, <2>4 DEF HasLast
    <2> QED BY <1>1, <1>4, <1>5, <2>1, <2>3, <2>5, <2>6 DEF UpdateAtEnd
  <1>7. /\ item' \in Status /\ disturbed' \in BOOLEAN
        /\ (disturbed => disturbed') /\ Timeline!InFlight(u)
    BY <1>r, <1>1 DEF TimelineInv, TimelineTypeOK, Timeline!InFlight
  <1>8. update[u].timestamp = None /\ s.timestamp <= now
    BY <1>r, <1>n, <1>3, <1>4
  <1> HIDE <1>n
  <1> QED BY <1>1, <1>3, <1>4, <1>5, <1>6, <1>7, <1>8, GoOn

LEMMA AcknowledgeInv ==
  ASSUME TimelineConstants, TimelineInv, NEW u \in Update, Timeline!Acknowledge(u)
  PROVE  TimelineInv'
  <1>r. PICK r : r = update[u]
    OBVIOUS
  <1>1. /\ r.pc = "recorded" /\ update' = [update EXCEPT ![u].pc = "done"]
        /\ item' = item /\ replica' = replica /\ now' = now /\ timeline' = timeline
        /\ disturbed' = disturbed
    BY <1>r, Zenon DEF Timeline!Acknowledge
  <1>s. PICK s : s = [r EXCEPT !.pc = "done"]
    OBVIOUS
  <1>2. /\ r \in UpdateState /\ Stamped(u)
        /\ update \in [Update -> UpdateState \cup {Timeline!Idle}]
    BY <1>r, <1>1, UpdateOf DEF TimelineInv, TimelineTypeOK
  <1>3. r.timestamp # None /\ r.timestamp <= now
    BY <1>r, <1>1, <1>2 DEF Stamped
  <1>4. /\ s \in UpdateState /\ s.pc = "done" /\ s.timestamp = r.timestamp
        /\ s.oldStatus = r.oldStatus /\ s.status = r.status
    BY <1>s, <1>2 DEF UpdateState
  <1>5. update' = [update EXCEPT ![u] = s] /\ update'[u] = s
    BY <1>r, <1>s, <1>1, <1>2
  <1>6. ASSUME Chain PROVE UpdateAtEnd(u)' /\ item' = StatusAfter(Events)
    <2>1. \A v \in Update : update[v].pc \notin {"write", "metric", "event"}
      BY <1>r, <1>1, <1>6 DEF Chain, OneInFlight, Timeline!InFlight
    <2>2. item = StatusAfter(Events)
      BY <1>6, <2>1 DEF Chain
    <2> QED BY <1>1, <1>4, <1>5, <2>2 DEF UpdateAtEnd
  <1>7. /\ item' \in Status /\ disturbed' \in BOOLEAN
        /\ (disturbed => disturbed') /\ Timeline!InFlight(u)
    BY <1>r, <1>1 DEF TimelineInv, TimelineTypeOK, Timeline!InFlight
  <1> QED BY <1>r, <1>1, <1>3, <1>4, <1>5, <1>6, <1>7, GoOn

(* The write of the item, or of the event, again: it changes nothing that  *)
(* the first did not.                                                      *)
LEMMA ResendInv ==
  ASSUME TimelineConstants, TimelineInv, NEW u \in Update, Timeline!Resend(u)
  PROVE  TimelineInv'
  <1>r. PICK r : r = update[u]
    OBVIOUS
  <1>p. PICK pc : pc = IF r.pc = "metric" THEN "write" ELSE "event"
    OBVIOUS
  <1>1. /\ r.pc \in {"metric", "recorded"}
        /\ update' = [update EXCEPT ![u].pc = IF @ = "metric" THEN "write" ELSE "event"]
        /\ item' = item /\ replica' = replica /\ now' = now /\ timeline' = timeline
        /\ disturbed' = disturbed
    BY <1>r, Zenon DEF Timeline!Resend
  <1>s. PICK s : s = [r EXCEPT !.pc = pc]
    OBVIOUS
  <1>2. /\ r \in UpdateState /\ Stamped(u)
        /\ update \in [Update -> UpdateState \cup {Timeline!Idle}]
    BY <1>r, <1>1, UpdateOf DEF TimelineInv, TimelineTypeOK
  <1>3. /\ r.pc = "metric" => r.timestamp = None
        /\ r.pc = "recorded" => r.timestamp # None /\ r.timestamp <= now
    BY <1>r, <1>1, <1>2 DEF Stamped
  <1>4. /\ s \in UpdateState /\ s.pc = pc /\ s.timestamp = r.timestamp
        /\ s.oldStatus = r.oldStatus /\ s.status = r.status
        /\ pc \in {"write", "event"}
    BY <1>s, <1>p, <1>2 DEF UpdateState
  <1>5. update' = [update EXCEPT ![u] = s] /\ update'[u] = s
    BY <1>r, <1>s, <1>p, <1>1, <1>2
  <1>6. ASSUME Chain PROVE UpdateAtEnd(u)'
    <2>0. Events' = Events
      BY <1>1 DEF Events, Timeline!Events
    <2>1. CASE r.pc = "metric"
      <3>1. r.oldStatus = StatusAfter(Events) /\ item = r.status
        BY <1>r, <1>6, <2>1 DEF Chain, UpdateAtEnd
      <3>2. StatusAfter(Events)' = StatusAfter(Events)
        BY <1>1, <2>0 DEF StatusAfter, Last
      <3>3. s.pc = "write"
        BY <1>p, <1>4, <2>1
      <3> QED BY <1>1, <1>4, <1>5, <3>1, <3>2, <3>3 DEF UpdateAtEnd
    <2>2. CASE r.pc = "recorded"
      <3>t. PICK t : t = r.timestamp
        OBVIOUS
      <3>1. /\ \A d \in Events : d <= t
            /\ HasLast(Before(t))
            /\ r.oldStatus = StatusAfter(Before(t))
            /\ item = r.status
        BY <1>r, <1>6, <2>2, <3>t DEF Chain, UpdateAtEnd
      <3>2. Before(t)' = Before(t)
        BY <2>0 DEF Before
      <3>3. HasLast(Before(t))' /\ StatusAfter(Before(t))' = StatusAfter(Before(t))
        BY <1>1, <3>1, <3>2 DEF StatusAfter, Last, HasLast
      <3>4. s.pc = "event"
        BY <1>p, <1>4, <2>2
      <3>5. (\A d \in Events : d <= t)'
        BY <2>0, <3>1
      <3> QED BY <1>1, <1>4, <1>5, <3>t, <3>1, <3>3, <3>4, <3>5 DEF UpdateAtEnd
    <2> QED BY <1>1, <2>1, <2>2
  <1>7. /\ item' \in Status /\ disturbed' \in BOOLEAN
        /\ (disturbed => disturbed') /\ Timeline!InFlight(u)
    BY <1>r, <1>1 DEF TimelineInv, TimelineTypeOK, Timeline!InFlight
  <1>8. /\ s.pc \notin {"recorded", "done", "read", "metric"}
        /\ s.pc = "write" => s.timestamp = None
        /\ s.pc = "event" => s.timestamp # None
        /\ s.timestamp # None => s.timestamp <= now
    BY <1>p, <1>1, <1>3, <1>4
  <1> QED BY <1>r, <1>1, <1>4, <1>5, <1>6, <1>7, <1>8, GoOn

LEMMA FailInv ==
  ASSUME TimelineConstants, TimelineInv, NEW u \in Update, Timeline!Fail(u)
  PROVE  TimelineInv'
  <1>r. PICK r : r = update[u]
    OBVIOUS
  <1>1. /\ r.pc \notin {"idle", "done", "failed"}
        /\ update' = [update EXCEPT ![u].pc = "failed"]
        /\ disturbed' = (disturbed \/ r.pc \in {"write", "metric", "event"})
        /\ item' = item /\ replica' = replica /\ now' = now /\ timeline' = timeline
    BY <1>r, Zenon DEF Timeline!Fail, Timeline!InFlight
  <1>s. PICK s : s = [r EXCEPT !.pc = "failed"]
    OBVIOUS
  <1>2. /\ r \in UpdateState /\ Stamped(u)
        /\ update \in [Update -> UpdateState \cup {Timeline!Idle}]
    BY <1>r, <1>1, UpdateOf DEF TimelineInv, TimelineTypeOK
  <1>3. r.timestamp # None => r.timestamp <= now
    BY <1>r, <1>1, <1>2 DEF Stamped
  <1>4. /\ s \in UpdateState /\ s.pc = "failed" /\ s.timestamp = r.timestamp
        /\ s.oldStatus = r.oldStatus /\ s.status = r.status
    BY <1>s, <1>2 DEF UpdateState
  <1>5. update' = [update EXCEPT ![u] = s] /\ update'[u] = s
    BY <1>r, <1>s, <1>1, <1>2
  <1>6. ASSUME Undisturbed', Chain PROVE UpdateAtEnd(u)' /\ item' = StatusAfter(Events)
    <2>1. r.pc \notin {"write", "metric", "event"}
      BY <1>1, <1>6 DEF Undisturbed
    <2>2. \A v \in Update : update[v].pc \notin {"write", "metric", "event"}
      BY <1>r, <1>1, <1>6, <2>1 DEF Chain, OneInFlight, Timeline!InFlight
    <2>3. item = StatusAfter(Events)
      BY <1>6, <2>2 DEF Chain
    <2> QED BY <1>1, <1>4, <1>5, <2>3 DEF UpdateAtEnd
  <1>7. /\ item' \in Status /\ disturbed' \in BOOLEAN
        /\ (disturbed => disturbed') /\ Timeline!InFlight(u)
    BY <1>r, <1>1 DEF TimelineInv, TimelineTypeOK, Timeline!InFlight
  <1>8. /\ s.pc \notin {"read", "write", "metric", "event", "recorded", "done"}
        /\ s.timestamp # None => s.timestamp <= now
        /\ s.timestamp = update[u].timestamp /\ s.status = update[u].status
        /\ s.oldStatus = update[u].oldStatus
    BY <1>r, <1>3, <1>4
  <1>9. item' = item /\ replica' = replica /\ now' = now /\ timeline' = timeline
    BY <1>1
  <1> QED BY <1>4, <1>5, <1>6, <1>7, <1>8, <1>9, GoOn

(* The put of an event: it replaces what an update of the same millisecond *)
(* left there, which is a collision, and nothing else.                     *)
LEMMA RecordInv ==
  ASSUME TimelineConstants, TimelineInv, NEW u \in Update, Timeline!RecordTimelineEvent(u)
  PROVE  TimelineInv'
  <1>r. PICK r : r = update[u]
    OBVIOUS
  <1>e. PICK e : e = [oldStatus |-> r.oldStatus, newStatus |-> r.status, update |-> u]
    OBVIOUS
  <1>1. /\ r.pc = "event"
        /\ timeline' = [timeline EXCEPT ![r.timestamp] = e]
        /\ update' = [update EXCEPT ![u].pc = "recorded"]
        /\ item' = item /\ replica' = replica /\ now' = now /\ disturbed' = disturbed
    BY <1>r, <1>e, Zenon DEF Timeline!RecordTimelineEvent
  <1>s. PICK s : s = [r EXCEPT !.pc = "recorded"]
    OBVIOUS
  <1>t. PICK t : t = r.timestamp
    OBVIOUS
  <1>2. /\ r \in UpdateState /\ Stamped(u)
        /\ update \in [Update -> UpdateState \cup {Timeline!Idle}]
    BY <1>r, <1>1, UpdateOf DEF TimelineInv, TimelineTypeOK
  <1>3. t # None /\ t \in Time /\ t <= now
    BY <1>r, <1>1, <1>2, <1>t DEF Stamped, UpdateState
  <1>4. /\ s \in UpdateState /\ s.pc = "recorded" /\ s.timestamp = t
        /\ s.oldStatus = r.oldStatus /\ s.status = r.status
    BY <1>s, <1>t, <1>2 DEF UpdateState
  <1>5. /\ update' = [update EXCEPT ![u] = s] /\ update'[u] = s
        /\ \A v \in Update : v # u => update'[v] = update[v]
        /\ update' \in [Update -> UpdateState \cup {Timeline!Idle}]
    BY <1>r, <1>s, <1>1, <1>2, <1>4
  <1>6. /\ e \in Event /\ e # None /\ e.oldStatus = s.oldStatus
        /\ e.newStatus = s.status /\ e.update = u
    BY <1>e, <1>2, <1>4 DEF Event, UpdateState, TimelineConstants
  <1>7. /\ timeline' \in [Time -> Event \cup {None}] /\ timeline'[t] = e
        /\ \A d \in Time : d # t => timeline'[d] = timeline[d]
    BY <1>1, <1>t, <1>3, <1>6 DEF TimelineInv, TimelineTypeOK
  <1>8. TimelineTypeOK'
    BY <1>1, <1>5, <1>7 DEF TimelineInv, TimelineTypeOK
  <1>9. u \in Timeline!Dated /\ u \in Timeline!Dated'
    BY <1>r, <1>t, <1>1, <1>3, <1>4, <1>5, DatedOf
       DEF TimelineInv, Timeline!Dated, Timeline!Idle
  <1>10. \A v \in Update : StampKept(v)
    BY <1>r, <1>t, <1>4, <1>5, <1>9 DEF StampKept, Timeline!Dated
  <1>11. /\ \A v \in Timeline!Dated : Timeline!Collided(v) => Timeline!Collided(v)'
         /\ Undisturbed' => Undisturbed
    BY <1>1, <1>10, CollisionsKept
  <1>12. ASSUME NEW v \in Update, v # u PROVE Stamped(v)'
    <2>1. now <= now' /\ update'[v] = update[v]
      BY <1>1, <1>5, <1>12 DEF TimelineInv, TimelineTypeOK, TimelineConstants, Time
    <2>2. ASSUME v \in Timeline!Dated, ~ Timeline!Collided(v)'
          PROVE  /\ ~ Timeline!Collided(v)
                 /\ timeline'[update[v].timestamp] = timeline[update[v].timestamp]
      <3>1. ~ Timeline!Collided(v)
        BY <1>11, <2>2
      <3>2. update[v].timestamp # t
        BY <1>r, <1>t, <1>9, <1>12, <3>1 DEF Timeline!Collided
      <3>3. update[v].timestamp \in Time
        BY <2>2, DatedOf, UpdateOf DEF TimelineInv, Timeline!Dated, UpdateState
      <3> QED BY <1>7, <3>1, <3>2, <3>3
    <2> QED BY <1>8, <2>1, <2>2, StampedKept
  <1>13. Stamped(u)'
    BY <1>1, <1>3, <1>4, <1>5, <1>6, <1>7 DEF Stamped
  <1>14. ASSUME NEW d \in Time PROVE EventSound(d)'
    <2>1. CASE d = t
      BY <1>3, <1>4, <1>5, <1>6, <1>7, <2>1 DEF EventSound
    <2>2. CASE d # t
      BY <1>7, <1>8, <1>10, <2>2, EventKept
    <2> QED BY <2>1, <2>2
  <1>15. ASSUME Undisturbed' PROVE Chain'
    <2>1. Chain /\ ~ Timeline!Collided(u)
      BY <1>9, <1>11, <1>15 DEF TimelineInv, Undisturbed
    <2>2. /\ \A d \in Events : d <= t
          /\ HasLast(Before(t)) /\ r.oldStatus = StatusAfter(Before(t)) /\ item = r.status
      BY <1>r, <1>t, <1>1, <2>1 DEF Chain, UpdateAtEnd
    <2>3. Events' = Events \cup {t} /\ Events \subseteq Time /\ Time \subseteq Nat
      BY <1>3, <1>6, <1>7 DEF Events, Timeline!Events, TimelineConstants, Time
    <2>4. ASSUME NEW d \in Events' PROVE d <= t
      BY <1>3, <2>2, <2>3
    <2>5. ASSUME NEW d \in Events' PROVE Before(d)' = Before(d) /\ t \notin Before(d)
      BY <1>3, <2>3, <2>4 DEF Before
    <2>6. ASSUME NEW d \in Events', HasLast(Before(d))
          PROVE  StatusAfter(Before(d))' = StatusAfter(Before(d))
      <3>p. PICK B : B = Before(d)
        OBVIOUS
      <3>1. \A c \in B : timeline'[c] = timeline[c]
        BY <1>7, <2>3, <2>5, <3>p DEF Before
      <3>2. StatusAfter(B)' = StatusAfter(B)
        BY <2>6, <3>1, <3>p, StatusKept
      <3>3. Before(d)' = B
        BY <2>5, <3>p
      <3>4. Last(Before(d))' = Last(B)
        BY <3>3 DEF Last
      <3>5. StatusAfter(Before(d))' = StatusAfter(B)'
        BY <3>3, <3>4, Zenon DEF StatusAfter
      <3> QED BY <3>p, <3>2, <3>5, Zenon
    <2>7. ASSUME NEW d \in Events' PROVE ChainTo(d)'
      <3>1. CASE d = t
        BY <1>4, <1>6, <1>7, <2>2, <2>5, <2>6, <3>1 DEF ChainTo, HasLast
      <3>2. CASE d # t
        BY <1>7, <2>1, <2>3, <2>5, <2>6, <3>2 DEF Chain, ChainTo, HasLast
      <3> QED BY <3>1, <3>2
    <2>8. HasLast(Events)' /\ StatusAfter(Events)' = r.status
      <3>p. PICK E : E = Events'
        OBVIOUS
      <3>1. E \in SUBSET Nat /\ t \in E /\ \A d \in E : d <= t
        BY <2>3, <2>4, <1>3, <3>p
      <3>2. HasLast(E) /\ Last(E) = t /\ E # {}
        BY <3>1, LastOf
      <3>3. HasLast(Events)' /\ Last(Events)' = t /\ Events' # {}
        BY <3>2, <3>p DEF HasLast, Last
      <3>4. StatusAfter(Events)' = timeline'[t].newStatus
        BY <3>3, Zenon DEF StatusAfter
      <3> QED BY <1>4, <1>6, <1>7, <3>3, <3>4
    <2>9. OneInFlight'
      BY <1>r, <1>1, <1>5, <2>1 DEF Chain, OneInFlight, Timeline!InFlight
    <2>10. ASSUME NEW v \in Update PROVE UpdateAtEnd(v)'
      <3>1. CASE v = u
        <4>1. HasLast(Before(t))' /\ r.oldStatus = StatusAfter(Before(t))'
          BY <2>2, <2>3, <2>5, <2>6 DEF HasLast
        <4>2. (\A d \in Events : d <= t)'
          BY <2>4
        <4> QED BY <1>1, <1>4, <1>5, <2>2, <3>1, <4>1, <4>2 DEF UpdateAtEnd
      <3>2. CASE v # u
        BY <1>r, <1>1, <1>5, <2>1, <3>2
           DEF Chain, OneInFlight, Timeline!InFlight, UpdateAtEnd
      <3> QED BY <3>1, <3>2
    <2> QED BY <1>1, <2>2, <2>7, <2>8, <2>9, <2>10 DEF Chain
  <1> QED BY <1>8, <1>12, <1>13, <1>14, <1>15 DEF TimelineInv

LEMMA NoUpdateInv ==
  ASSUME TimelineConstants, TimelineInv,
         \/ Timeline!Replicate
         \/ Timeline!Tick
         \/ UNCHANGED <<item, replica, now, timeline, update, disturbed>>
  PROVE  TimelineInv'
  <1>1. /\ item' = item /\ timeline' = timeline
        /\ update' = update /\ disturbed' = disturbed
        /\ replica' \in {item, replica} /\ now' \in Time /\ now <= now'
    BY DEF Timeline!Replicate, Timeline!Tick, TimelineInv, TimelineTypeOK,
           TimelineConstants, Time
  <1>2. TimelineTypeOK'
    BY <1>1 DEF TimelineInv, TimelineTypeOK
  <1>3. /\ Timeline!Dated' = Timeline!Dated
        /\ \A u \in Update : Timeline!Collided(u)' <=> Timeline!Collided(u)
    BY <1>1 DEF Timeline!Dated, Timeline!Collided
  <1>4. ASSUME NEW u \in Update PROVE Stamped(u)'
    BY <1>1, <1>2, <1>3, <1>4, StampedKept
  <1>5. \A t \in Time : EventSound(t)'
    BY <1>1 DEF TimelineInv, EventSound
  <1>6. Undisturbed' => Undisturbed
    BY <1>1, <1>3 DEF Undisturbed, Timeline!Dated
  <1>7. Events' = Events /\ StatusAfter(Events)' = StatusAfter(Events)
    BY <1>1 DEF Events, Timeline!Events, StatusAfter, Last
  <1>8. Chain => Chain'
    <2> SUFFICES ASSUME Chain PROVE Chain'
      OBVIOUS
    <2>1. OneInFlight' /\ HasLast(Events)' /\ (\A t \in Events : ChainTo(t))'
      BY <1>1, <1>7
         DEF Chain, OneInFlight, Timeline!InFlight, HasLast, ChainTo, Before,
             StatusAfter, Last
    <2>2. (\A u \in Update : UpdateAtEnd(u))'
      BY <1>1, <1>7 DEF Chain, UpdateAtEnd, HasLast, Before, StatusAfter, Last
    <2> QED BY <1>1, <1>7, <2>1, <2>2 DEF Chain
  <1> QED BY <1>2, <1>4, <1>5, <1>6, <1>8 DEF TimelineInv

(* Putting the first status again changes nothing or disturbs.             *)
LEMMA InitializeChecklistInv ==
  ASSUME TimelineConstants, TimelineInv, Timeline!InitializeChecklist
  PROVE  TimelineInv'
  <1>1. CASE item = Pending
    <2>1. UNCHANGED <<item, replica, now, timeline, update, disturbed>>
      BY <1>1 DEF Timeline!InitializeChecklist, TimelineInv, TimelineTypeOK
    <2> QED BY <2>1, NoUpdateInv
  <1>2. CASE item # Pending
    <2>1. /\ item' = Pending /\ disturbed' = TRUE
          /\ UNCHANGED <<replica, now, timeline, update>>
      BY <1>2 DEF Timeline!InitializeChecklist
    <2>2. TimelineTypeOK'
      BY <2>1 DEF TimelineInv, TimelineTypeOK, TimelineConstants
    <2>3. /\ Timeline!Dated' = Timeline!Dated
          /\ \A u \in Update : Timeline!Collided(u)' <=> Timeline!Collided(u)
      BY <2>1 DEF Timeline!Dated, Timeline!Collided
    <2>4. ASSUME NEW u \in Update PROVE Stamped(u)'
      BY <2>1, <2>3 DEF TimelineInv, Stamped
    <2>5. \A t \in Time : EventSound(t)'
      BY <2>1 DEF TimelineInv, EventSound
    <2> QED BY <2>1, <2>2, <2>4, <2>5 DEF TimelineInv, Undisturbed
  <1> QED BY <1>1, <1>2

LEMMA TimelineInvInit ==
  ASSUME TimelineConstants, Timeline!Init
  PROVE  TimelineInv
  <1>1. /\ item = Pending /\ replica = Pending /\ now = 0 /\ disturbed = FALSE
        /\ \A u \in Update : update[u] = Timeline!Idle /\ update[u].pc = "idle"
        /\ \A t \in Time : timeline[t] = None
    BY DEF Timeline!Init, Timeline!Idle, Time
  <1>2. TimelineTypeOK
    <2>1. 0 \in Time
      BY DEF TimelineConstants, Time
    <2>2. timeline \in [Time -> Event \cup {None}]
      BY DEF Timeline!Init, Time
    <2>3. update \in [Update -> UpdateState \cup {Timeline!Idle}]
      BY DEF Timeline!Init
    <2> QED BY <1>1, <2>1, <2>2, <2>3 DEF TimelineTypeOK, TimelineConstants
  <1>3. Events = {}
    BY <1>1 DEF Events, Timeline!Events, Time
  <1>4. Chain
    BY <1>1, <1>3
       DEF Chain, OneInFlight, Timeline!InFlight, HasLast, UpdateAtEnd, StatusAfter
  <1> QED BY <1>1, <1>2, <1>4 DEF TimelineInv, Stamped, EventSound

LEMMA TimelineInvNext ==
  ASSUME TimelineConstants, TimelineInv,
         Timeline!Next \/ UNCHANGED <<item, replica, now, timeline, update, disturbed>>
  PROVE  TimelineInv'
  <1>1. CASE \E u \in Update :
               \/ \E status \in Status : Timeline!UpdateItemStatus(u, status)
               \/ Timeline!Read(u) \/ Timeline!Write(u) \/ Timeline!TrackStatusChange(u)
               \/ Timeline!RecordTimelineEvent(u) \/ Timeline!Acknowledge(u)
               \/ Timeline!Resend(u) \/ Timeline!Fail(u)
    BY <1>1, BeginInv, ReadInv, WriteInv, TrackStatusChangeInv, RecordInv,
       AcknowledgeInv, ResendInv, FailInv
  <1>2. CASE \/ Timeline!Replicate \/ Timeline!Tick
             \/ UNCHANGED <<item, replica, now, timeline, update, disturbed>>
    BY <1>2, NoUpdateInv
  <1>3. CASE Timeline!InitializeChecklist
    BY <1>3, InitializeChecklistInv
  <1> QED BY <1>1, <1>2, <1>3 DEF Timeline!Next

(* With no update in flight, the item is what the chain of events says.    *)
LEMMA TimelineInvImplies ==
  ASSUME TimelineConstants, TimelineInv
  PROVE  TimelineAddsUp
  <1>1. ASSUME NEW u \in Update, update[u].pc = "done"
        PROVE  Timeline!Collided(u) \/ timeline[update[u].timestamp].update = u
    BY <1>1 DEF TimelineInv, Stamped
  <1>2. ASSUME ~ disturbed, \A u \in Timeline!Dated : ~ Timeline!Collided(u),
               \A u \in Update : ~ Timeline!InFlight(u)
        PROVE  /\ \A t \in Events : timeline[t].oldStatus = StatusAfter(Before(t))
               /\ item = StatusAfter(Events)
    BY <1>2 DEF TimelineInv, Undisturbed, Chain, ChainTo, Timeline!InFlight
  <1> QED BY <1>1, <1>2, Zenon
     DEF TimelineAddsUp, Timeline!TimelineAddsUp, Events, Before, Last, StatusAfter

(* updateItemStatus and the timeline it writes (checklist.ts, analytics.ts) *)
(* add up, for every set of calls and every clock.                         *)
THEOREM TimelineHolds ==
  ASSUME TimelineConstants
  PROVE  Timeline!Spec => []TimelineAddsUp
  <1>1. Timeline!Init => TimelineInv
    BY TimelineInvInit
  <1>2. TimelineInv /\ [Timeline!Next]_(Timeline!vars) => TimelineInv'
    BY TimelineInvNext DEF Timeline!vars
  <1>3. TimelineInv => TimelineAddsUp
    BY TimelineInvImplies
  <1> QED BY <1>1, <1>2, <1>3, PTL DEF Timeline!Spec

-----------------------------------------------------------------------------
(* LambdaRateLimiter                                                       *)
USE LimitAssumption, BoundsAssumption

(* Letting one more count of 1 .. Limit through adds one to how many were. *)
LEMMA OneMoreCount ==
  ASSUME NEW S \in SUBSET (1 .. Limit), NEW n \in 1 .. Limit, n \notin S
  PROVE  /\ Cardinality(S) \in Nat
         /\ Cardinality(S \cup {n}) = Cardinality(S) + 1
         /\ Cardinality(S) < Limit
<1> DEFINE T == S \cup {n}
<1>1. IsFiniteSet(1 .. Limit) /\ Cardinality(1 .. Limit) = Limit
  BY FS_Interval
<1>2. IsFiniteSet(S) /\ IsFiniteSet(T) /\ Cardinality(T) <= Limit
  BY ZenonT(30), <1>1, FS_Subset
<1>3. Cardinality(T) = Cardinality(S) + 1
  BY <1>2, FS_AddElement
<1>4. Cardinality(S) \in Nat
  BY <1>2, FS_CardinalityType
<1> QED BY <1>2, <1>3, <1>4

(* Every step keeps the types of counters, keys and histories.             *)
LEMMA StepType ==
  ASSUME TypeOK, [Next]_vars PROVE TypeOK'
<1>1. \A pc \in {"idle", "add", "answered"}, w \in Minute, n \in Nat :
        At(pc, w, n) \in RequestState
  BY DEF At, RequestState
<1>2. Idle \in RequestState
  BY <1>1 DEF Idle, Minute
<1>3. \A r \in Request : /\ request[r].windowKey \in Minute
                         /\ request[r].requests \in Nat
  BY DEF TypeOK, RequestState
<1>4. ASSUME NEW r \in Request, Invoke(r) PROVE TypeOK'
  BY <1>4, <1>1 DEF Invoke, TypeOK
<1>5. ASSUME NEW r \in Request, StoreAdd(r) PROVE TypeOK'
  <2> DEFINE w == request[r].windowKey
  <2>1. w \in Minute /\ counter[w] \in Nat
    BY <1>3 DEF TypeOK
  <2>2. At("answered", w, counter[w] + 1) \in RequestState
    BY <2>1, <1>1
  <2> QED BY <1>5, <2>1, <2>2 DEF StoreAdd, TypeOK
<1>6. ASSUME NEW r \in Request, Refuse(r) PROVE TypeOK'
  BY <1>6, <1>2, <1>3 DEF Refuse, TypeOK
<1>7. ASSUME NEW r \in Request, Handle(r) PROVE TypeOK'
  BY <1>7, <1>2, <1>3 DEF Handle, TypeOK
<1>8. ASSUME NEW r \in Request, Resend(r) PROVE TypeOK'
  BY <1>8, <1>1, <1>3 DEF Resend, TypeOK
<1>9. ASSUME NEW r \in Request, Abort(r) PROVE TypeOK'
  BY <1>9, <1>2 DEF Abort, TypeOK
<1>10. CASE NextMinute
  BY <1>10 DEF NextMinute, TypeOK, Minute
<1>11. CASE UNCHANGED vars
  BY <1>11 DEF vars, TypeOK
<1> QED
  BY <1>4, <1>5, <1>6, <1>7, <1>8, <1>9, <1>10, <1>11 DEF Next

(* Counters, keys and histories keep their types.                          *)
THEOREM TypeCorrect == Spec => []TypeOK
<1>1. Init => TypeOK
  BY DEF Init, TypeOK, RequestState, Idle, At, Minute
<1> QED BY <1>1, StepType, PTL DEF Spec

(* An invocation that goes on to the handler spends a count of its minute  *)
(* that nobody spent before.                                               *)
LEMMA SpendsOneCount ==
  ASSUME TypeOK, GrantedOnce, NEW r \in Request, Handle(r)
  PROVE  /\ request[r].windowKey \in 0 .. minute
         /\ admitted[request[r].windowKey] < Limit
         /\ GrantedOnce'
<1> USE DEF GrantedOnce
<1> DEFINE n == request[r].requests
           w == request[r].windowKey
<1>1. /\ w \in Minute /\ w \in 0 .. minute /\ minute \in Nat
      /\ counter[w] \in Nat
      /\ n \in 1 .. Limit /\ n <= counter[w] /\ n \notin granted[w]
  BY SMTT(30) DEF AnswersUnused, Handle, TooMany, TypeOK, RequestState, Minute
<1>2. granted[w] \in SUBSET (1 .. Limit) /\ admitted[w] = Cardinality(granted[w])
  BY <1>1 DEF CountsLetThrough
<1>3. /\ Cardinality(granted[w] \cup {n}) = admitted[w] + 1
      /\ admitted[w] < Limit
  BY <1>1, <1>2, OneMoreCount
<1>4. /\ UNCHANGED <<minute, counter>>
      /\ \A m \in Minute :
           /\ granted'[m] = IF m = w THEN granted[m] \cup {n} ELSE granted[m]
           /\ admitted'[m] = IF m = w THEN admitted[m] + 1 ELSE admitted[m]
  BY DEF Handle, TypeOK
<1>5. /\ \A s \in Request : s # r => request'[s] = request[s]
      /\ request'[r].pc = "idle" /\ request'[r].windowKey = 0
  BY DEF Handle, TypeOK, Idle, At
<1>6. CountsLetThrough'
  <2> SUFFICES ASSUME NEW m \in Minute
               PROVE  /\ granted'[m] \subseteq 1 .. Limit
                      /\ admitted'[m] = Cardinality(granted'[m])
                      /\ \A k \in granted'[m] : k <= counter[m]
                      /\ m > minute => admitted'[m] = 0
    BY <1>4 DEF CountsLetThrough
  <2>1. CASE m = w
    <3>1. /\ granted'[w] = granted[w] \cup {n}
          /\ admitted'[w] = admitted[w] + 1
      BY <1>1, <1>4
    <3>2. ~ (w > minute)
      BY <1>1
    <3>3. \A k \in granted[w] : k <= counter[w]
      BY <1>1 DEF CountsLetThrough
    <3> QED BY <2>1, <3>1, <3>2, <3>3, <1>1, <1>2, <1>3
  <2>2. CASE m # w
    BY <2>2, <1>4 DEF CountsLetThrough
  <2> QED BY <2>1, <2>2
<1>7. AnswersUnused'
  <2> SUFFICES ASSUME NEW s \in Request
               PROVE  /\ request'[s].windowKey <= minute
                      /\ request'[s].pc = "answered" =>
                           /\ request'[s].requests \in 1 .. counter[request'[s].windowKey]
                           /\ request'[s].requests \notin granted'[request'[s].windowKey]
    BY <1>4 DEF AnswersUnused
  <2>1. CASE s = r
    BY <2>1, <1>1, <1>5
  <2>2. CASE s # r /\ request[s].pc # "answered"
    BY <2>2, <1>5 DEF AnswersUnused
  <2>3. CASE s # r /\ request[s].pc = "answered"
    <3> DEFINE v == request[s].windowKey
    <3>1. v \in Minute
      BY DEF TypeOK, RequestState
    <3>2. request'[s] = request[s]
      BY <2>3, <1>5
    <3>3. v = w => request[s].requests # n
      BY <2>3 DEF CountsDistinct, Handle
    <3>4. request[s].requests \notin granted'[v]
      BY ZenonT(30), <2>3, <3>1, <3>3, <1>4 DEF AnswersUnused
    <3> QED BY <2>3, <3>2, <3>4 DEF AnswersUnused
  <2> QED BY <2>1, <2>2, <2>3
<1>8. CountsDistinct'
  BY <1>5 DEF CountsDistinct
<1> QED BY <1>1, <1>3, <1>6, <1>7, <1>8

(* The store answers an increment with a count larger than any it gave out *)
(* for that minute.                                                        *)
LEMMA HandsOutFreshCount ==
  ASSUME TypeOK, GrantedOnce, NEW r \in Request, StoreAdd(r)
  PROVE  GrantedOnce'
<1> USE DEF GrantedOnce
<1> DEFINE w == request[r].windowKey
<1>1. w \in Minute /\ counter[w] \in Nat /\ w <= minute
  BY DEF TypeOK, RequestState, AnswersUnused
<1>2. /\ UNCHANGED <<minute, admitted, granted>>
      /\ \A m \in Minute :
           counter'[m] = IF m = w THEN counter[m] + 1 ELSE counter[m]
  BY DEF StoreAdd, TypeOK
<1>3. /\ \A s \in Request : s # r => request'[s] = request[s]
      /\ request'[r].pc = "answered" /\ request'[r].windowKey = w
      /\ request'[r].requests = counter[w] + 1
  BY DEF StoreAdd, TypeOK, At
<1>4. \A m \in Minute : counter[m] \in Nat /\ granted[m] \in SUBSET Nat
  BY DEF TypeOK
<1>5. \A s \in Request : request[s].windowKey \in Minute /\ request[s].requests \in Nat
  BY DEF TypeOK, RequestState
<1>6. CountsLetThrough'
  BY <1>1, <1>2, <1>4 DEF CountsLetThrough
<1>7. counter[w] + 1 \notin granted[w]
  BY <1>1, <1>4 DEF CountsLetThrough
<1>8. AnswersUnused'
  BY <1>1, <1>2, <1>3, <1>4, <1>5, <1>7 DEF AnswersUnused
<1>9. CountsDistinct'
  <2>1. \A s \in Request : request[s].pc = "answered" /\ request[s].windowKey = w
                              => request[s].requests # counter[w] + 1
    BY <1>1, <1>5 DEF AnswersUnused
  <2> QED BY <1>3, <2>1 DEF CountsDistinct
<1> QED BY <1>6, <1>8, <1>9

(* Every other step of an invocation leaves it without an answer.          *)
LEMMA DropsItsCount ==
  ASSUME TypeOK, GrantedOnce, NEW r \in Request,
         NEW pc \in {"idle", "add"}, NEW w \in 0 .. minute,
         request' = [request EXCEPT ![r] = At(pc, w, 0)],
         UNCHANGED <<minute, counter, admitted, granted>>
  PROVE  GrantedOnce'
<1>1. /\ \A q \in Request : q # r => request'[q] = request[q]
      /\ request'[r].pc # "answered"
      /\ request'[r].windowKey <= minute
  BY DEF TypeOK, At
<1> QED
  BY <1>1 DEF GrantedOnce, CountsLetThrough, AnswersUnused, CountsDistinct

(* No minute lets a count through twice, whatever is interleaved, lost,    *)
(* resent or killed.                                                       *)
THEOREM CountsGrantedOnce == Spec => []GrantedOnce
<1>1. Init => GrantedOnce
  BY FS_EmptySet DEF Init, GrantedOnce, CountsLetThrough, AnswersUnused,
     CountsDistinct, Idle, At, Minute
<1>2. TypeOK /\ GrantedOnce /\ [Next]_vars => GrantedOnce'
  <2> SUFFICES ASSUME TypeOK, GrantedOnce, [Next]_vars PROVE GrantedOnce'
    OBVIOUS
  <2>1. /\ 0 \in 0 .. minute /\ minute \in 0 .. minute
        /\ \A r \in Request : request[r].windowKey \in 0 .. minute
    BY DEF TypeOK, RequestState, Minute, GrantedOnce, AnswersUnused
  <2>2. ASSUME NEW r \in Request, Invoke(r) PROVE GrantedOnce'
    BY <2>1, <2>2, DropsItsCount DEF Invoke
  <2>3. ASSUME NEW r \in Request, StoreAdd(r) PROVE GrantedOnce'
    BY <2>3, HandsOutFreshCount
  <2>4. ASSUME NEW r \in Request, Handle(r) PROVE GrantedOnce'
    BY <2>4, SpendsOneCount
  <2>5. ASSUME NEW r \in Request, Refuse(r) PROVE GrantedOnce'
    BY <2>1, <2>5, DropsItsCount DEF Refuse, Idle
  <2>6. ASSUME NEW r \in Request, Resend(r) PROVE GrantedOnce'
    BY <2>1, <2>6, DropsItsCount DEF Resend
  <2>7. ASSUME NEW r \in Request, Abort(r) PROVE GrantedOnce'
    BY <2>1, <2>7, DropsItsCount DEF Abort, Idle
  <2>8. CASE NextMinute
    BY SMTT(30), <2>1, <2>8
    DEF NextMinute, GrantedOnce, CountsLetThrough, AnswersUnused,
        CountsDistinct, TypeOK, RequestState, Minute
  <2>9. CASE UNCHANGED vars
    BY <2>9
    DEF vars, GrantedOnce, CountsLetThrough, AnswersUnused, CountsDistinct
  <2> QED
    BY <2>2, <2>3, <2>4, <2>5, <2>6, <2>7, <2>8, <2>9 DEF Next
<1> QED BY <1>1, <1>2, TypeCorrect, PTL DEF Spec

(* The limiter implements the abstract one with exactly its limit: a new   *)
(* minute opens a window, going on to the handler is an admission, every   *)
(* other step is invisible.                                                *)
THEOREM Refinement == Spec => ImplementsQuota
<1> DEFINE seen == [m \in 0 .. minute |-> admitted[m]]
<1>1. Init => Quota!Init
  BY DEF Init, Quota!Init, Minute
<1>2. TypeOK /\ GrantedOnce /\ [Next]_vars => [Quota!Next]_(Quota!vars)
  <2> SUFFICES ASSUME TypeOK, GrantedOnce, [Next]_vars
               PROVE  Quota!Next \/ UNCHANGED <<minute, seen>>
    BY DEF Quota!vars
  <2>1. CASE NextMinute
    <3>1. minute \in Nat /\ minute + 1 \in Minute /\ minute' = minute + 1
      BY <2>1 DEF NextMinute, TypeOK, Minute
    <3>2. admitted'[minute + 1] = 0
      BY <2>1, <3>1 DEF NextMinute, GrantedOnce, CountsLetThrough
    <3>3. seen' = [m \in 0 .. minute + 1 |->
                     IF m = minute + 1 THEN 0 ELSE seen[m]]
      BY <2>1, <3>1, <3>2 DEF NextMinute
    <3> QED BY <3>1, <3>3 DEF Quota!Next, Quota!OpenWindow
  <2>2. ASSUME NEW r \in Request, Handle(r) PROVE Quota!Next
    <3> DEFINE w == request[r].windowKey
    <3>1. w \in 0 .. minute /\ admitted[w] < Limit
      BY <2>2, SpendsOneCount
    <3>2. /\ UNCHANGED minute
          /\ admitted' = [m \in Minute |-> IF m = w THEN admitted[w] + 1
                                                   ELSE admitted[m]]
      BY <2>2 DEF Handle, TypeOK
    <3>3. 0 .. minute \subseteq Minute
      BY DEF TypeOK, Minute
    <3>4. seen' = [m \in 0 .. minute |-> IF m = w THEN admitted[w] + 1
                                                 ELSE admitted[m]]
      BY <3>2, <3>3
    <3>5. seen' = [seen EXCEPT ![w] = @ + 1]
      BY <3>1, <3>4
    <3>6. seen[w] < Limit
      BY <3>1
    <3> HIDE DEF w, seen
    <3> QED BY <3>1, <3>2, <3>5, <3>6 DEF Quota!Next, Quota!Admit, seen
  <2>3. ASSUME NEW r \in Request,
               Invoke(r) \/ StoreAdd(r) \/ Refuse(r) \/ Resend(r) \/ Abort(r)
        PROVE  UNCHANGED <<minute, seen>>
    BY <2>3 DEF Invoke, StoreAdd, Refuse, Resend, Abort
  <2>4. CASE UNCHANGED vars
    BY <2>4 DEF vars
  <2> QED BY <2>1, <2>2, <2>3, <2>4 DEF Next
<1> QED
  BY <1>1, <1>2, TypeCorrect, CountsGrantedOnce, PTL
  DEF Spec, ImplementsQuota, Quota!Spec

(* Increments applied to a minute and increments on their way are no more  *)
(* than were sent.                                                         *)
OnTheirWay(m) ==
  {r \in Request : request[r].pc = "add" /\ request[r].windowKey = m}

SentBefore(m) == counter[m] + Cardinality(OnTheirWay(m)) <= made[m]

SentBeforeCounted == \A m \in Minute : SentBefore(m)

(* How one invocation that moves changes what is on its way.               *)
LEMMA OnTheirWayChange ==
  ASSUME TypeOK, NEW r \in Request, NEW s \in RequestState,
         request' = [request EXCEPT ![r] = s], NEW m \in Minute
  PROVE  /\ IsFiniteSet(OnTheirWay(m)) /\ Cardinality(OnTheirWay(m)) \in Nat
         /\ Cardinality(OnTheirWay(m)') \in Nat
         /\ Cardinality(OnTheirWay(m)') <= Cardinality(OnTheirWay(m)) + 1
         /\ ~ (s.pc = "add" /\ s.windowKey = m) =>
              Cardinality(OnTheirWay(m)') <= Cardinality(OnTheirWay(m))
         /\ r \in OnTheirWay(m) /\ ~ (s.pc = "add" /\ s.windowKey = m) =>
              Cardinality(OnTheirWay(m)') = Cardinality(OnTheirWay(m)) - 1
<1>1. IsFiniteSet(OnTheirWay(m))
  BY RequestAssumption, FS_Subset DEF OnTheirWay
<1>2. Cardinality(OnTheirWay(m)) \in Nat
  BY <1>1, FS_CardinalityType
<1>3. CASE s.pc = "add" /\ s.windowKey = m
  <2>1. OnTheirWay(m)' = OnTheirWay(m) \cup {r}
    BY <1>3 DEF OnTheirWay, TypeOK
  <2>2. IsFiniteSet(OnTheirWay(m)')
    BY <2>1, <1>1, FS_AddElement
  <2>3. Cardinality(OnTheirWay(m)') \in Nat
    BY <2>2, FS_CardinalityType
  <2>4. Cardinality(OnTheirWay(m)') = IF r \in OnTheirWay(m)
                                     THEN Cardinality(OnTheirWay(m))
                                     ELSE Cardinality(OnTheirWay(m)) + 1
    BY <2>1, <1>1, FS_AddElement
  <2> QED BY <2>3, <2>4, <1>1, <1>2, <1>3
<1>4. CASE ~ (s.pc = "add" /\ s.windowKey = m)
  <2>1. OnTheirWay(m)' = OnTheirWay(m) \ {r}
    BY <1>4 DEF OnTheirWay, TypeOK
  <2>2. IsFiniteSet(OnTheirWay(m)')
    BY <2>1, <1>1, FS_RemoveElement
  <2>3. Cardinality(OnTheirWay(m)') \in Nat
    BY <2>2, FS_CardinalityType
  <2>4. Cardinality(OnTheirWay(m)') = IF r \in OnTheirWay(m)
                                     THEN Cardinality(OnTheirWay(m)) - 1
                                     ELSE Cardinality(OnTheirWay(m))
    BY <2>1, <1>1, FS_RemoveElement
  <2> QED BY <2>3, <2>4, <1>1, <1>2, <1>4
<1> QED BY <1>3, <1>4

LEMMA StepSentBefore ==
  ASSUME TypeOK, SentBeforeCounted, [Next]_vars, NEW m \in Minute
  PROVE  SentBefore(m)' /\ made'[m] >= made[m]
<1>0. counter[m] \in Nat /\ made[m] \in Nat /\ SentBefore(m)
  BY DEF TypeOK, SentBeforeCounted
<1>s. \A pc \in {"idle", "add", "answered"}, w \in Minute, n \in Nat :
        /\ At(pc, w, n) \in RequestState
        /\ At(pc, w, n).pc = pc /\ At(pc, w, n).windowKey = w
  BY DEF At, RequestState
<1>i. Idle \in RequestState /\ Idle.pc = "idle"
  BY <1>s DEF Idle, Minute
<1>k. \A r \in Request : request[r].windowKey \in Minute
  BY DEF TypeOK, RequestState
<1>1. ASSUME NEW r \in Request, NEW w \in Minute,
             request' = [request EXCEPT ![r] = At("add", w, 0)],
             made' = [made EXCEPT ![w] = @ + 1],
             UNCHANGED counter
      PROVE  SentBefore(m)' /\ made'[m] >= made[m]
  <2>1. At("add", w, 0) \in RequestState
    BY <1>s
  <2>2. CASE w = m
    <3>1. made'[m] = made[m] + 1
      BY <1>1, <2>2 DEF TypeOK
    <3>2. /\ Cardinality(OnTheirWay(m)) \in Nat /\ Cardinality(OnTheirWay(m)') \in Nat
          /\ Cardinality(OnTheirWay(m)') <= Cardinality(OnTheirWay(m)) + 1
      BY <1>1, <2>1, OnTheirWayChange
    <3> QED BY <1>0, <1>1, <3>1, <3>2 DEF SentBefore
  <2>3. CASE w # m
    <3>1. made'[m] = made[m] /\ At("add", w, 0).windowKey # m
      BY <1>1, <1>s, <2>3 DEF TypeOK
    <3>2. /\ Cardinality(OnTheirWay(m)) \in Nat /\ Cardinality(OnTheirWay(m)') \in Nat
          /\ Cardinality(OnTheirWay(m)') <= Cardinality(OnTheirWay(m))
      BY <1>1, <2>1, <3>1, OnTheirWayChange
    <3> QED BY <1>0, <1>1, <3>1, <3>2 DEF SentBefore
  <2> QED BY <2>2, <2>3
<1>2. ASSUME NEW r \in Request, Invoke(r)
      PROVE  SentBefore(m)' /\ made'[m] >= made[m]
  BY <1>1, <1>2 DEF Invoke, TypeOK
<1>3. ASSUME NEW r \in Request, Resend(r)
      PROVE  SentBefore(m)' /\ made'[m] >= made[m]
  BY <1>1, <1>3, <1>k DEF Resend
<1>4. ASSUME NEW r \in Request, StoreAdd(r)
      PROVE  SentBefore(m)' /\ made'[m] >= made[m]
  <2> DEFINE w == request[r].windowKey
             s == At("answered", w, counter[w] + 1)
  <2>1. w \in Minute /\ counter[w] \in Nat
    BY <1>k DEF TypeOK
  <2>2. s \in RequestState /\ s.pc = "answered"
    BY <1>s, <2>1
  <2>3. /\ counter' = [counter EXCEPT ![w] = @ + 1]
        /\ request' = [request EXCEPT ![r] = s]
        /\ UNCHANGED made /\ request[r].pc = "add"
    BY <1>4 DEF StoreAdd
  <2> HIDE DEF s
  <2>4. CASE w = m
    <3>1. counter'[m] = counter[m] + 1 /\ r \in OnTheirWay(m)
      BY <2>3, <2>4 DEF TypeOK, OnTheirWay
    <3>2. Cardinality(OnTheirWay(m)') = Cardinality(OnTheirWay(m)) - 1
          /\ Cardinality(OnTheirWay(m)) \in Nat
      BY <2>2, <2>3, <3>1, OnTheirWayChange
    <3> QED BY <1>0, <2>3, <3>1, <3>2 DEF SentBefore
  <2>5. CASE w # m
    <3>1. counter'[m] = counter[m]
      BY <2>3, <2>5 DEF TypeOK
    <3>2. Cardinality(OnTheirWay(m)') <= Cardinality(OnTheirWay(m))
          /\ Cardinality(OnTheirWay(m)) \in Nat /\ Cardinality(OnTheirWay(m)') \in Nat
      BY <2>2, <2>3, OnTheirWayChange
    <3> QED BY <1>0, <2>3, <3>1, <3>2 DEF SentBefore
  <2> QED BY <2>4, <2>5
<1>5. ASSUME NEW r \in Request, Refuse(r) \/ Handle(r) \/ Abort(r)
      PROVE  SentBefore(m)' /\ made'[m] >= made[m]
  <2>1. /\ request' = [request EXCEPT ![r] = Idle]
        /\ UNCHANGED <<counter, made>>
    BY <1>5 DEF Refuse, Handle, Abort
  <2>2. Cardinality(OnTheirWay(m)') <= Cardinality(OnTheirWay(m))
        /\ Cardinality(OnTheirWay(m)) \in Nat /\ Cardinality(OnTheirWay(m)') \in Nat
    BY <1>i, <2>1, OnTheirWayChange
  <2> QED BY <1>0, <2>1, <2>2 DEF SentBefore
<1>6. CASE UNCHANGED <<counter, made, request>>
  BY <1>0, <1>6 DEF SentBefore, OnTheirWay
<1> QED
  BY <1>2, <1>3, <1>4, <1>5, <1>6 DEF Next, NextMinute, vars

(* Who is told 429 was answered a count above the limit, and at least as   *)
(* many increments had been sent under the key of that minute.             *)
THEOREM NobodyRefusedBelowLimit == Spec => []RefusedOnlyOverLimit
<1>1. Init => SentBeforeCounted /\ RefusedOnlyOverLimit
  <2> SUFFICES ASSUME Init PROVE SentBeforeCounted /\ RefusedOnlyOverLimit
    OBVIOUS
  <2>1. \A m \in Minute : OnTheirWay(m) = {}
    BY DEF Init, OnTheirWay, Idle, At
  <2>2. \A m \in Minute : counter[m] = 0 /\ made[m] = 0
    BY DEF Init
  <2>3. refused = {}
    BY DEF Init
  <2> QED BY <2>1, <2>2, <2>3, FS_EmptySet
          DEF SentBeforeCounted, SentBefore, RefusedOnlyOverLimit
<1>2. TypeOK /\ GrantedOnce /\ SentBeforeCounted /\ RefusedOnlyOverLimit
        /\ [Next]_vars => SentBeforeCounted' /\ RefusedOnlyOverLimit'
  <2> SUFFICES ASSUME TypeOK, GrantedOnce, SentBeforeCounted,
                      RefusedOnlyOverLimit, [Next]_vars
               PROVE  SentBeforeCounted' /\ RefusedOnlyOverLimit'
    OBVIOUS
  <2>1. SentBeforeCounted'
    BY StepSentBefore DEF SentBeforeCounted
  <2>2. \A m \in Minute : made'[m] >= made[m] /\ made[m] \in Nat /\ made'[m] \in Int
    <3>1. TypeOK'
      BY StepType
    <3> QED BY <3>1, StepSentBefore DEF TypeOK
  <2>3. ASSUME NEW r \in Request, Refuse(r) PROVE made[request[r].windowKey] > Limit
    <3> DEFINE w == request[r].windowKey
    <3>1. /\ w \in Minute /\ counter[w] \in Nat /\ made[w] \in Nat
          /\ request[r].requests \in Nat
      BY DEF TypeOK, RequestState
    <3>2. request[r].requests > Limit /\ request[r].requests <= counter[w]
      BY <2>3, <3>1 DEF Refuse, TooMany, GrantedOnce, AnswersUnused
    <3>3. IsFiniteSet(OnTheirWay(w)) /\ counter[w] + Cardinality(OnTheirWay(w)) <= made[w]
      BY <3>1, RequestAssumption, FS_Subset DEF OnTheirWay, SentBeforeCounted, SentBefore
    <3>4. Cardinality(OnTheirWay(w)) \in Nat
      BY <3>3, FS_CardinalityType
    <3> QED BY <3>1, <3>2, <3>3, <3>4
  <2>4. \A m \in refused' : m \in Minute /\ made[m] > Limit
    <3>1. \A m \in refused : m \in Minute /\ made[m] > Limit
      BY DEF TypeOK, RefusedOnlyOverLimit
    <3>2. ASSUME NEW r \in Request, Refuse(r)
          PROVE  \A m \in refused' : m \in Minute /\ made[m] > Limit
      BY <2>3, <3>1, <3>2 DEF Refuse, TypeOK, RequestState
    <3> QED BY <3>1, <3>2
            DEF Next, vars, NextMinute, Invoke, StoreAdd, Handle, Resend, Abort
  <2>5. RefusedOnlyOverLimit'
    BY <2>2, <2>4 DEF RefusedOnlyOverLimit
  <2> QED BY <2>1, <2>5
<1> QED BY <1>1, <1>2, TypeCorrect, CountsGrantedOnce, PTL DEF Spec

-----------------------------------------------------------------------------
(* The four together, as they are checked: every step is one of one of     *)
(* them, which leaves the others alone.                                    *)
LEMMA ServerCallsSpecs ==
  SpecServerCalls => Spec /\ KeyFunction!Spec /\ Metrics!Spec /\ Timeline!Spec
  <1>1. InitServerCalls =>
          Init /\ KeyFunction!Init /\ Metrics!Init /\ Timeline!Init
    BY DEF InitServerCalls
  <1>2. [NextServerCalls]_<<part, vars, keyVars, metricsVars, timelineVars>> =>
          /\ [Next]_vars
          /\ [KeyFunction!Next]_(KeyFunction!vars)
          /\ [Metrics!Next]_(Metrics!vars)
          /\ [Timeline!Next]_(Timeline!vars)
    BY Zenon
       DEF NextServerCalls, vars, keyVars, metricsVars, timelineVars,
           KeyFunction!vars, Metrics!vars, Timeline!vars
  <1> QED
    BY <1>1, <1>2, PTL
    DEF SpecServerCalls, Spec, KeyFunction!Spec, Metrics!Spec, Timeline!Spec

(* Limiter, key function, usage metrics and timeline keep their promises   *)
(* side by side: rate-limiter.ts, manage-keys.ts, custom-metrics.ts,       *)
(* checklist.ts.                                                           *)
THEOREM ServerCallsHold ==
  ASSUME None \notin Nat, TimelineConstants
  PROVE  SpecServerCalls =>
           /\ ImplementsQuota
           /\ [](/\ TypeOK /\ GrantedOnce /\ RefusedOnlyOverLimit
                /\ AnswersTellWhatHappened /\ CountsAddUp /\ TimelineAddsUp)
  BY ServerCallsSpecs, TypeCorrect, CountsGrantedOnce, NobodyRefusedBelowLimit,
     Refinement, AnswersTell, CountsAlwaysAddUp, TimelineHolds, PTL
=============================================================================
