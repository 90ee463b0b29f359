---------------------- MODULE RateLimitService_proofs ----------------------
(***************************************************************************)
(* The per-token limiter for any number of concurrent calls, any limit and *)
(* any window size.  GrantedOnce is the inductive invariant: it says why   *)
(* the numbers handed out in one window can be counted at all.             *)
(***************************************************************************)
EXTENDS RateLimitService, FiniteSetTheorems, TLAPS

USE LimitAssumption, WindowSizeAssumption, BoundsAssumption

(* A window that hands out one more number of 0 .. Limit counts one more,  *)
(* and still at most Limit + 1 of them.                                    *)
LEMMA OneMoreNumber ==
  ASSUME NEW S \in SUBSET (0 .. Limit), NEW n \in 0 .. Limit, n \notin S
  PROVE  /\ Cardinality(S) \in Nat
         /\ Cardinality(S \cup {n}) = Cardinality(S) + 1
         /\ Cardinality(S) + 1 <= Limit + 1
<1> DEFINE T == S \cup {n}
<1>1. IsFiniteSet(0 .. Limit) /\ Cardinality(0 .. Limit) = Limit + 1
  BY FS_Interval
<1>2. IsFiniteSet(S) /\ IsFiniteSet(T) /\ Cardinality(T) <= Limit + 1
  BY <1>1, FS_Subset
<1>3. Cardinality(T) = Cardinality(S) + 1
  BY <1>2, FS_AddElement
<1>4. Cardinality(S) \in Nat
  BY <1>2, FS_CardinalityType
<1> QED BY <1>2, <1>3, <1>4

(* Every variable keeps its type: the numbers are naturals, and the        *)
(* history has one entry per window opened so far.                         *)
THEOREM TypeCorrect == Spec => []TypeOK
<1>1. Init => TypeOK
  BY DEF Init, TypeOK, Row, CallState, Idle, At
<1>2. TypeOK /\ [Next]_vars => TypeOK'
  <2> SUFFICES ASSUME TypeOK, [Next]_vars PROVE TypeOK'
    OBVIOUS
  <2> USE DEF TypeOK, Row, CallState
  <2>1. ASSUME NEW c \in Caller, CheckRateLimit(c) PROVE TypeOK'
    BY <2>1 DEF CheckRateLimit, At
  <2>2. ASSUME NEW c \in Caller, StoreIncrement(c) PROVE TypeOK'
    BY <2>2 DEF StoreIncrement, Incremented
  <2>a. ASSUME NEW c \in Caller, ReturnTrue(c) PROVE TypeOK'
    <3>1. admitted' \in [0 .. epoch -> Nat]
      <4>1. \A e \in 0 .. epoch : admitted[e] \in Nat /\ admitted[e] + 1 \in Nat
        OBVIOUS
      <4> QED BY <2>a, <4>1 DEF ReturnTrue
    <3>2. granted' \in [0 .. epoch -> SUBSET Nat]
      BY ZenonT(30), <2>a DEF ReturnTrue
    <3>3. call' \in [Caller -> CallState]
      BY <2>a DEF ReturnTrue, Idle, At
    <3> QED BY <2>a, <3>1, <3>2, <3>3 DEF ReturnTrue
  <2>b. ASSUME NEW c \in Caller, ReturnFalse(c) PROVE TypeOK'
    BY <2>b DEF ReturnFalse, Idle, At
  <2>3. ASSUME NEW c \in Caller, Decide(c) PROVE TypeOK'
    BY <2>3, <2>a, <2>b DEF Decide
  <2>4. ASSUME NEW c \in Caller, SendReset(c) PROVE TypeOK'
    BY <2>4 DEF SendReset, Resetting
  <2>5. ASSUME NEW c \in Caller, StoreReset(c) PROVE TypeOK'
    BY SMTT(30), <2>5 DEF StoreReset, At
  <2>6. ASSUME NEW c \in Caller, AllowAfterReset(c) PROVE TypeOK'
    BY <2>6, <2>a DEF AllowAfterReset
  <2>7. ASSUME NEW c \in Caller, Resend(c) PROVE TypeOK'
    <3>1. /\ sent' \in Nat
          /\ UNCHANGED <<clock, row, epoch, admitted, granted>>
      BY <2>7 DEF Resend
    <3>2. call' = [call EXCEPT ![c] = At("increment", call[c].now)]
            \/ call' = [call EXCEPT ![c] = At("reset", call[c].now)]
      BY <2>7 DEF Resend
    <3>3. \A pc \in {"increment", "reset"} : At(pc, call[c].now) \in CallState
      BY DEF At
    <3> QED BY ZenonT(30), <3>1, <3>2, <3>3
  <2>8. ASSUME NEW c \in Caller, Abort(c) PROVE TypeOK'
    BY <2>8 DEF Abort, Idle, At
  <2>9. CASE Tick
    BY <2>9 DEF Tick
  <2>10. CASE UNCHANGED vars
    BY <2>10 DEF vars
  <2> QED
    BY <2>1, <2>2, <2>3, <2>4, <2>5, <2>6, <2>7, <2>8, <2>9, <2>10 DEF Next
<1> QED BY <1>1, <1>2, PTL DEF Spec

(* A call that answers TRUE spends a number of its window that was not     *)
(* spent before, so the counts and the numbers stay in step.               *)
LEMMA SpendsOneNumber ==
  ASSUME TypeOK, GrantedOnce, NEW c \in Caller, ReturnTrue(c),
         \/ call[c].pc = "wasReset"
         \/ call[c].pc = "answered" /\ WithinLimit(c)
  PROVE  /\ call[c].seen \in 0 .. epoch
         /\ call[c].requests \in 0 .. Limit
         /\ call[c].requests \notin granted[call[c].seen]
         /\ admitted[call[c].seen] < Limit + 1
         /\ GrantedOnce'
<1> USE DEF GrantedOnce
<1> DEFINE n == call[c].requests
           w == call[c].seen
<1>1. /\ w \in 0 .. epoch /\ n \in 0 .. Limit /\ n \notin granted[w]
      /\ w = epoch => n <= row.requests
  BY DEF AnswersUnused, ResetsUnused, WithinLimit, TypeOK, CallState, Row
<1>2. granted[w] \in SUBSET (0 .. Limit) /\ admitted[w] = Cardinality(granted[w])
  BY <1>1 DEF NumbersCounted
<1>3. /\ Cardinality(granted[w] \cup {n}) = admitted[w] + 1
      /\ admitted[w] + 1 <= Limit + 1
      /\ admitted[w] \in Nat
  BY <1>1, <1>2, OneMoreNumber
<1>4. /\ epoch' = epoch /\ row' = row
      /\ \A e \in 0 .. epoch :
           /\ granted'[e] = IF e = w THEN granted[e] \cup {n} ELSE granted[e]
           /\ admitted'[e] = IF e = w THEN admitted[e] + 1 ELSE admitted[e]
      /\ call' = [call EXCEPT ![c] = Idle]
  BY DEF ReturnTrue, TypeOK
<1>5. NumbersCounted'
  <2>1. \A e \in 0 .. epoch : /\ granted'[e] \subseteq 0 .. Limit
                             /\ admitted'[e] = Cardinality(granted'[e])
    <3> TAKE e \in 0 .. epoch
    <3>1. CASE e = w
      BY <3>1, <1>1, <1>2, <1>3, <1>4
    <3>2. CASE e # w
      BY <3>2, <1>4 DEF NumbersCounted
    <3> QED BY <3>1, <3>2
  <2>2. \A k \in granted'[epoch] : k <= row.requests
    <3>1. epoch \in 0 .. epoch
      BY DEF TypeOK
    <3>2. \A k \in granted'[epoch] :
            k \in granted[epoch] \/ (w = epoch /\ k = n)
      BY <3>1, <1>4
    <3> QED BY <3>2, <1>1 DEF NumbersCounted
  <2> QED BY <2>1, <2>2, <1>4 DEF NumbersCounted
<1>6. \A d \in Caller : d # c => call'[d] = call[d]
  BY <1>4 DEF TypeOK
<1>7. call'[c].pc = "idle"
  BY <1>4 DEF TypeOK, Idle, At
<1>8. AnswersUnused'
  <2> SUFFICES ASSUME NEW d \in Caller, call'[d].pc = "answered"
               PROVE  /\ call'[d].requests > 0
                      /\ call'[d].seen <= epoch'
                      /\ call'[d].requests \notin granted'[call'[d].seen]
                      /\ call'[d].seen = epoch' => call'[d].requests <= row'.requests
    BY DEF AnswersUnused
  <2>1. d # c /\ call'[d] = call[d] /\ call[d].pc = "answered"
    BY <1>6, <1>7
  <2>2. /\ call[d].requests > 0
        /\ call[d].seen \in 0 .. epoch
        /\ call[d].requests \notin granted[call[d].seen]
        /\ call[d].seen = epoch => call[d].requests <= row.requests
    BY <2>1 DEF AnswersUnused, TypeOK, CallState
  <2>3. call[d].seen = w => call[d].requests # n
    BY <2>1, <2>2 DEF NumbersDistinct, ResetsUnused
  <2>4. call[d].requests \notin granted'[call[d].seen]
    BY ZenonT(30), <2>2, <2>3, <1>4
  <2> QED BY <2>1, <2>2, <2>4, <1>4
<1>9. ResetsUnused'
  <2> SUFFICES ASSUME NEW d \in Caller, call'[d].pc = "wasReset"
               PROVE  /\ call'[d].requests = 0
                      /\ call'[d].seen \in 1 .. epoch'
                      /\ 0 \notin granted'[call'[d].seen]
    BY DEF ResetsUnused
  <2>1. d # c /\ call'[d] = call[d] /\ call[d].pc = "wasReset"
    BY <1>6, <1>7
  <2>2. /\ call[d].requests = 0
        /\ call[d].seen \in 1 .. epoch
        /\ 0 \notin granted[call[d].seen]
    BY <2>1 DEF ResetsUnused
  <2>3. call[d].seen = w => n # 0
    BY <2>1, <2>2 DEF NumbersDistinct, AnswersUnused
  <2>4. call[d].seen \in 0 .. epoch
    BY <2>2 DEF TypeOK
  <2>5. 0 \notin granted'[call[d].seen]
    <3>1. CASE call[d].seen = w
      <4>1. granted'[w] = granted[w] \cup {n}
        BY <1>1, <1>4
      <4>2. 0 \notin granted[w] /\ n # 0
        BY <2>2, <2>3, <3>1
      <4> QED BY <3>1, <4>1, <4>2
    <3>2. CASE call[d].seen # w
      BY <3>2, <2>2, <2>4, <1>4
    <3> QED BY <3>1, <3>2
  <2> QED BY <2>1, <2>2, <2>5, <1>4
<1>10. NumbersDistinct'
  BY <1>6, <1>7 DEF NumbersDistinct
<1> QED BY <1>1, <1>3, <1>5, <1>8, <1>9, <1>10

(* A step that leaves the item and the history alone and puts one call in  *)
(* a state that holds no number keeps the invariant.                       *)
LEMMA DropsItsNumber ==
  ASSUME TypeOK, GrantedOnce, NEW c \in Caller, NEW s,
         s.pc \notin {"answered", "wasReset"},
         call' = [call EXCEPT ![c] = s],
         UNCHANGED <<row, epoch, admitted, granted>>
  PROVE  GrantedOnce'
<1>1. \A d \in Caller : d # c => call'[d] = call[d]
  BY DEF TypeOK
<1>2. call'[c].pc \notin {"answered", "wasReset"}
  BY DEF TypeOK
<1>3. NumbersCounted'
  BY DEF GrantedOnce, NumbersCounted
<1>4. AnswersUnused'
  BY <1>1, <1>2 DEF GrantedOnce, AnswersUnused
<1>5. ResetsUnused'
  BY <1>1, <1>2 DEF GrantedOnce, ResetsUnused
<1>6. NumbersDistinct'
  BY <1>1, <1>2 DEF GrantedOnce, NumbersDistinct
<1> QED BY <1>3, <1>4, <1>5, <1>6 DEF GrantedOnce

(* The increment hands its caller a number larger than any other of the    *)
(* window.                                                                 *)
LEMMA HandsOutFreshNumber ==
  ASSUME TypeOK, GrantedOnce, NEW c \in Caller, StoreIncrement(c)
  PROVE  GrantedOnce'
<1> USE DEF GrantedOnce
<1>1. \A d \in Caller : d # c => call'[d] = call[d]
  BY DEF StoreIncrement, TypeOK
<1>2. /\ call'[c].pc = "answered"
      /\ call'[c].requests = row.requests + 1
      /\ call'[c].seen = epoch
      /\ row'.requests = row.requests + 1
      /\ UNCHANGED <<epoch, admitted, granted>>
  BY DEF StoreIncrement, Incremented, TypeOK
<1>3. row.requests \in Nat /\ epoch \in Nat
  BY DEF TypeOK, Row
<1>4. granted[epoch] \in SUBSET Nat
  BY <1>3 DEF TypeOK
<1>5. NumbersCounted'
  BY <1>2, <1>3, <1>4 DEF NumbersCounted
<1>6. AnswersUnused'
  <2>1. row.requests + 1 \notin granted[epoch]
    BY <1>3, <1>4 DEF NumbersCounted
  <2>2. \A d \in Caller : call[d].requests \in Nat
    BY DEF TypeOK, CallState
  <2> QED BY <1>1, <1>2, <1>3, <2>1, <2>2 DEF AnswersUnused
<1>7. ResetsUnused'
  BY <1>1, <1>2 DEF ResetsUnused
<1>8. NumbersDistinct'
  <2>1. \A d \in Caller : call[d].pc = "answered" /\ call[d].seen = epoch
                             => call[d].requests # row.requests + 1
    BY <1>3 DEF AnswersUnused, TypeOK, CallState
  <2> QED BY <1>1, <1>2, <2>1 DEF NumbersDistinct
<1> QED BY <1>5, <1>6, <1>7, <1>8

(* A reset opens a window of which no number was ever handed out.          *)
LEMMA OpensUnusedWindow ==
  ASSUME TypeOK, GrantedOnce, NEW c \in Caller, StoreReset(c)
  PROVE  GrantedOnce'
<1> USE DEF GrantedOnce
<1>1. \A d \in Caller : d # c => call'[d] = call[d]
  BY DEF StoreReset, TypeOK
<1>2. /\ call'[c].pc = "wasReset"
      /\ call'[c].requests = 0
      /\ call'[c].seen = epoch + 1
      /\ epoch' = epoch + 1
      /\ \A e \in 0 .. epoch : /\ granted'[e] = granted[e]
                               /\ admitted'[e] = admitted[e]
      /\ granted'[epoch + 1] = {}
      /\ admitted'[epoch + 1] = 0
  BY DEF StoreReset, At, TypeOK
<1>3. epoch \in Nat
  BY DEF TypeOK
<1>4. \A d \in Caller : call[d].seen \in Nat
  BY DEF TypeOK, CallState
<1>5. NumbersCounted'
  <2>1. \A e \in 0 .. epoch + 1 : /\ granted'[e] \subseteq 0 .. Limit
                                 /\ admitted'[e] = Cardinality(granted'[e])
    <3> TAKE e \in 0 .. epoch + 1
    <3>1. CASE e = epoch + 1
      BY <3>1, <1>2, FS_EmptySet
    <3>2. CASE e # epoch + 1
      <4>1. e \in 0 .. epoch
        BY <3>2, <1>3
      <4> QED BY <4>1, <1>2 DEF NumbersCounted
    <3> QED BY <3>1, <3>2
  <2> QED BY <2>1, <1>2 DEF NumbersCounted
<1>6. AnswersUnused'
  BY <1>1, <1>2, <1>3, <1>4 DEF AnswersUnused
<1>7. ResetsUnused'
  BY <1>1, <1>2, <1>3, <1>4 DEF ResetsUnused
<1>8. NumbersDistinct'
  <2>1. \A d \in Caller : call[d].pc = "wasReset" => call[d].seen # epoch + 1
    BY <1>3 DEF ResetsUnused
  <2> QED BY <1>1, <1>2, <2>1 DEF NumbersDistinct
<1> QED BY <1>5, <1>6, <1>7, <1>8

(* No window gives out a number twice, under any interleaving of calls,    *)
(* lost answers, resent writes and crashes.                                *)
THEOREM NumbersGrantedOnce == Spec => []GrantedOnce
<1>1. Init => GrantedOnce
  BY FS_EmptySet DEF Init, GrantedOnce, NumbersCounted, AnswersUnused,
     ResetsUnused, NumbersDistinct, Idle, At
<1>2. TypeOK /\ GrantedOnce /\ [Next]_vars => GrantedOnce'
  <2> SUFFICES ASSUME TypeOK, GrantedOnce, [Next]_vars PROVE GrantedOnce'
    OBVIOUS
  <2>1. ASSUME NEW c \in Caller, CheckRateLimit(c) PROVE GrantedOnce'
    BY <2>1, DropsItsNumber DEF CheckRateLimit, At
  <2>2. ASSUME NEW c \in Caller, StoreIncrement(c) PROVE GrantedOnce'
    BY <2>2, HandsOutFreshNumber
  <2>3. ASSUME NEW c \in Caller, Decide(c) PROVE GrantedOnce'
    <3>1. CASE WithinLimit(c)
      BY <2>3, <3>1, SpendsOneNumber DEF Decide
    <3>2. CASE ~ WithinLimit(c)
      BY <2>3, <3>2, DropsItsNumber DEF Decide, ReturnFalse, Idle, At
    <3> QED BY <3>1, <3>2
  <2>4. ASSUME NEW c \in Caller, SendReset(c) PROVE GrantedOnce'
    BY <2>4, DropsItsNumber DEF SendReset, Resetting
  <2>5. ASSUME NEW c \in Caller, StoreReset(c) PROVE GrantedOnce'
    BY <2>5, OpensUnusedWindow
  <2>6. ASSUME NEW c \in Caller, AllowAfterReset(c) PROVE GrantedOnce'
    BY <2>6, SpendsOneNumber DEF AllowAfterReset
  <2>7. ASSUME NEW c \in Caller, Resend(c) PROVE GrantedOnce'
    BY <2>7, DropsItsNumber DEF Resend, At
  <2>8. ASSUME NEW c \in Caller, Abort(c) PROVE GrantedOnce'
    BY <2>8, DropsItsNumber DEF Abort, Idle, At
  <2>9. CASE UNCHANGED <<row, call, epoch, admitted, granted>>
    BY <2>9 DEF GrantedOnce, NumbersCounted, AnswersUnused, ResetsUnused,
       NumbersDistinct
  <2> QED
    BY <2>1, <2>2, <2>3, <2>4, <2>5, <2>6, <2>7, <2>8, <2>9 DEF Next, Tick, vars
<1> QED BY <1>1, <1>2, TypeCorrect, PTL DEF Spec

(* A window never begins after the present, so it is over WindowSize after *)
(* it began, as seen by every later call.                                  *)
THEOREM WindowsBeginInThePast == Spec => []WindowBeganInThePast
<1>1. Init => WindowBeganInThePast
  BY DEF Init, WindowBeganInThePast, Idle, At
<1>2. TypeOK /\ WindowBeganInThePast /\ [Next]_vars => WindowBeganInThePast'
  <2> SUFFICES ASSUME TypeOK, WindowBeganInThePast, [Next]_vars
               PROVE  WindowBeganInThePast'
    OBVIOUS
  <2> USE DEF WindowBeganInThePast, TypeOK, Row, CallState
  <2>1. ASSUME NEW c \in Caller, CheckRateLimit(c) PROVE WindowBeganInThePast'
    BY <2>1 DEF CheckRateLimit, At
  <2>2. ASSUME NEW c \in Caller, StoreIncrement(c) PROVE WindowBeganInThePast'
    BY <2>2 DEF StoreIncrement, Incremented
  <2>3. ASSUME NEW c \in Caller, call' = [call EXCEPT ![c] = Idle],
               UNCHANGED <<clock, row>>
        PROVE  WindowBeganInThePast'
    BY <2>3 DEF Idle, At
  <2>4. ASSUME NEW c \in Caller, SendReset(c) PROVE WindowBeganInThePast'
    BY <2>4 DEF SendReset, Resetting
  <2>5. ASSUME NEW c \in Caller, StoreReset(c) PROVE WindowBeganInThePast'
    BY <2>5 DEF StoreReset, At
  <2>6. ASSUME NEW c \in Caller, Resend(c) PROVE WindowBeganInThePast'
    <3>1. \E pc : call' = [call EXCEPT ![c] = At(pc, call[c].now)]
      BY <2>6 DEF Resend
    <3> QED BY <2>6, <3>1 DEF Resend, At
  <2>7. CASE Tick
    BY <2>7 DEF Tick
  <2>8. CASE UNCHANGED vars
    BY <2>8 DEF vars
  <2> QED
    BY <2>1, <2>2, <2>3, <2>4, <2>5, <2>6, <2>7, <2>8
    DEF Next, Decide, ReturnTrue, ReturnFalse, AllowAfterReset, Abort
<1> QED BY <1>1, <1>2, TypeCorrect, PTL DEF Spec

(* What a call remembers of the window it was answered for stays true of   *)
(* the item for as long as that window is the newest, so a reset that was  *)
(* decided for the newest window comes after its end.                      *)
Remembers(c) ==
  /\ call[c].pc \in {"answered", "reset", "wasReset"} => row.exists
  /\ call[c].pc \in {"answered", "reset"} => call[c].seen <= epoch
  /\ call[c].pc = "answered" /\ call[c].seen = epoch =>
       call[c].windowStart = row.windowStart
  /\ call[c].pc = "reset" /\ call[c].seen = epoch =>
       call[c].now > row.windowStart + WindowSize

RemembersWindow == \A c \in Caller : Remembers(c)

(* A call that changes alone disturbs nobody else's memory.                *)
LEMMA OthersRemember ==
  ASSUME TypeOK, RemembersWindow, NEW c \in Caller, NEW s,
         call' = [call EXCEPT ![c] = s],
         UNCHANGED <<row, epoch>>,
         Remembers(c)'
  PROVE  RemembersWindow'
<1>1. ASSUME NEW d \in Caller, d # c PROVE Remembers(d)'
  <2>1. call'[d] = call[d] /\ Remembers(d)
    BY <1>1 DEF TypeOK, RemembersWindow
  <2> QED BY <2>1 DEF Remembers
<1> QED BY <1>1 DEF RemembersWindow

LEMMA StepRemembers ==
  ASSUME TypeOK, GrantedOnce, WindowBeganInThePast, RemembersWindow, [Next]_vars
  PROVE  RemembersWindow'
<1> USE DEF TypeOK, CallState, Row
<1>1. ASSUME NEW c \in Caller, CheckRateLimit(c) PROVE RemembersWindow'
  <2>1. Remembers(c)'
    BY <1>1 DEF CheckRateLimit, At, Remembers
  <2> QED BY <1>1, <2>1, OthersRemember DEF CheckRateLimit
<1>2. ASSUME NEW c \in Caller, StoreIncrement(c) PROVE RemembersWindow'
  <2>1. /\ row'.exists
        /\ row.exists => row'.windowStart = row.windowStart
        /\ epoch' = epoch
    BY <1>2 DEF StoreIncrement, Incremented
  <2>2. Remembers(c)'
    BY <1>2, <2>1 DEF StoreIncrement, Remembers
  <2>3. ASSUME NEW d \in Caller, d # c PROVE Remembers(d)'
    <3>1. call'[d] = call[d] /\ Remembers(d)
      BY <1>2, <2>3 DEF StoreIncrement, RemembersWindow
    <3> QED BY <3>1, <2>1 DEF Remembers
  <2> QED BY <2>2, <2>3 DEF RemembersWindow
<1>3. ASSUME NEW c \in Caller, call' = [call EXCEPT ![c] = Idle],
             UNCHANGED <<row, epoch>>
      PROVE  RemembersWindow'
  <2>1. Remembers(c)'
    BY <1>3 DEF Idle, At, Remembers
  <2> QED BY <1>3, <2>1, OthersRemember
<1>4. ASSUME NEW c \in Caller, SendReset(c) PROVE RemembersWindow'
  <2>1. call[c].now <= clock /\ Remembers(c)
    BY DEF WindowBeganInThePast, RemembersWindow
  <2>2. Remembers(c)'
    BY <1>4, <2>1 DEF SendReset, Resetting, Expired, Remembers
  <2> QED BY <1>4, <2>2, OthersRemember DEF SendReset
<1>5. ASSUME NEW c \in Caller, StoreReset(c) PROVE RemembersWindow'
  <2>1. epoch' = epoch + 1 /\ row'.exists /\ call'[c].pc = "wasReset"
    BY <1>5 DEF StoreReset, At
  <2>2. Remembers(c)'
    BY <2>1 DEF Remembers
  <2>3. ASSUME NEW d \in Caller, d # c PROVE Remembers(d)'
    <3>1. call'[d] = call[d] /\ Remembers(d)
      BY <1>5, <2>3 DEF StoreReset, RemembersWindow
    <3> QED BY <3>1, <2>1 DEF Remembers
  <2> QED BY <2>2, <2>3 DEF RemembersWindow
<1>6. ASSUME NEW c \in Caller, Resend(c) PROVE RemembersWindow'
  <2>1. Remembers(c) /\ (call[c].pc = "wasReset" => epoch > 0)
    BY DEF RemembersWindow, GrantedOnce, ResetsUnused
  <2>2. CASE call[c].pc = "answered"
    <3>1. call' = [call EXCEPT ![c] = At("increment", call[c].now)]
      BY <1>6, <2>2 DEF Resend
    <3>2. Remembers(c)'
      BY <3>1 DEF At, Remembers
    <3> QED BY <1>6, <3>1, <3>2, OthersRemember DEF Resend
  <2>3. CASE call[c].pc = "wasReset"
    <3>1. call' = [call EXCEPT ![c] = At("reset", call[c].now)]
      BY <1>6, <2>3 DEF Resend
    <3>2. row.exists
      BY <2>1, <2>3 DEF Remembers
    <3>3. Remembers(c)'
      BY <1>6, <2>1, <2>3, <3>1, <3>2 DEF Resend, At, Remembers
    <3> QED BY <1>6, <3>1, <3>3, OthersRemember DEF Resend
  <2> QED BY <1>6, <2>2, <2>3 DEF Resend
<1>7. CASE UNCHANGED <<row, call, epoch>>
  BY <1>7 DEF RemembersWindow, Remembers
<1> QED
  BY <1>1, <1>2, <1>3, <1>4, <1>5, <1>6, <1>7
  DEF Next, Tick, vars, Decide, ReturnTrue, ReturnFalse, AllowAfterReset, Abort

(* Only a reset makes the counter smaller.                                 *)
LEMMA StepForgetsOnlyLate ==
  ASSUME TypeOK, WindowBeganInThePast, RemembersWindow, [Next]_vars,
         row'.requests < row.requests
  PROVE  \/ clock > row.windowStart + WindowSize
         \/ \E c \in Caller : LateReset(c) /\ call'[c].pc = "wasReset"
<1> USE DEF TypeOK, CallState, Row
<1>1. ASSUME NEW c \in Caller, StoreIncrement(c) PROVE FALSE
  BY <1>1 DEF StoreIncrement, Incremented
<1>2. ~ UNCHANGED row
  OBVIOUS
<1>3. PICK c \in Caller : StoreReset(c)
  BY <1>1, <1>2
  DEF Next, vars, Tick, CheckRateLimit, Decide, ReturnTrue, ReturnFalse,
      SendReset, AllowAfterReset, Resend, Abort
<1>4. /\ call[c].pc = "reset" /\ call'[c].pc = "wasReset"
      /\ Remembers(c) /\ call[c].now <= clock
  BY <1>3 DEF StoreReset, At, RemembersWindow, WindowBeganInThePast
<1>5. CASE call[c].seen < epoch
  BY <1>4, <1>5 DEF LateReset
<1>6. CASE call[c].seen = epoch
  BY <1>4, <1>6 DEF Remembers
<1> QED BY <1>4, <1>5, <1>6 DEF Remembers

(* Counted requests are forgotten before their minute is over only by a    *)
(* reset that was meant for an earlier window.                             *)
THEOREM ForgetsOnlyOldWindows == Spec => OnlyLateResetsForgetTooEarly
<1>1. Init => RemembersWindow
  BY DEF Init, RemembersWindow, Remembers, Idle, At
<1>2. TypeOK /\ GrantedOnce /\ WindowBeganInThePast /\ RemembersWindow
        /\ [Next]_vars => RemembersWindow'
  BY StepRemembers
<1>3. TypeOK /\ WindowBeganInThePast /\ RemembersWindow /\ [Next]_vars =>
        [row'.requests < row.requests =>
           \/ clock > row.windowStart + WindowSize
           \/ \E c \in Caller : LateReset(c) /\ call'[c].pc = "wasReset"]_vars
  BY StepForgetsOnlyLate
<1> QED
  BY <1>1, <1>2, <1>3, TypeCorrect, NumbersGrantedOnce, WindowsBeginInThePast, PTL
  DEF Spec, OnlyLateResetsForgetTooEarly

(* A window of the counter admits Limit calls and the one that opened it,  *)
(* never more.                                                             *)
THEOREM OneOverLimitAtMost == Spec => []Quota!WithinQuota
<1>1. TypeOK /\ GrantedOnce => Quota!WithinQuota
  <2> SUFFICES ASSUME TypeOK, GrantedOnce, NEW e \in 0 .. epoch
               PROVE  admitted[e] <= Limit + 1
    BY DEF Quota!WithinQuota
  <2>1. granted[e] \in SUBSET (0 .. Limit) /\ admitted[e] = Cardinality(granted[e])
    BY DEF GrantedOnce, NumbersCounted
  <2>2. IsFiniteSet(0 .. Limit) /\ Cardinality(0 .. Limit) = Limit + 1
    BY FS_Interval
  <2> QED BY <2>1, <2>2, FS_Subset
<1> QED BY <1>1, TypeCorrect, NumbersGrantedOnce, PTL

(* The detailed service implements the abstract limiter: a reset opens a   *)
(* window, a call answered TRUE is an admission below the quota, and every *)
(* other step is invisible.                                                *)
THEOREM Refinement == Spec => ImplementsQuota
<1>1. Init => Quota!Init
  BY DEF Init, Quota!Init
<1>2. TypeOK /\ GrantedOnce /\ [Next]_vars => [Quota!Next]_(Quota!vars)
  <2> SUFFICES ASSUME TypeOK, GrantedOnce, [Next]_vars
               PROVE  Quota!Next \/ UNCHANGED Quota!vars
    OBVIOUS
  <2>1. ASSUME NEW c \in Caller, StoreReset(c) PROVE Quota!Next
    BY <2>1 DEF StoreReset, Quota!Next, Quota!OpenWindow
  <2>2. ASSUME NEW c \in Caller, ReturnTrue(c),
               \/ call[c].pc = "wasReset"
               \/ call[c].pc = "answered" /\ WithinLimit(c)
        PROVE  Quota!Next
    <3>1. /\ call[c].seen \in 0 .. epoch
          /\ admitted[call[c].seen] < Limit + 1
      BY <2>2, SpendsOneNumber
    <3>2. Quota!Admit(call[c].seen)
      BY <2>2, <3>1 DEF ReturnTrue, Quota!Admit
    <3> QED BY <3>1, <3>2 DEF Quota!Next
  <2>3. ASSUME NEW c \in Caller, Decide(c) \/ AllowAfterReset(c)
        PROVE  Quota!Next \/ UNCHANGED <<epoch, admitted>>
    BY <2>2, <2>3 DEF Decide, AllowAfterReset, ReturnFalse
  <2>4. ASSUME NEW c \in Caller,
               \/ CheckRateLimit(c) \/ StoreIncrement(c) \/ SendReset(c)
               \/ Resend(c) \/ Abort(c)
        PROVE  UNCHANGED <<epoch, admitted>>
    BY <2>4 DEF CheckRateLimit, StoreIncrement, SendReset, Resend, Abort
  <2>5. CASE Tick \/ UNCHANGED vars
    BY <2>5 DEF Tick, vars, Quota!vars
  <2> QED
    BY <2>1, <2>3, <2>4, <2>5 DEF Next, Quota!vars
<1> QED
  BY <1>1, <1>2, TypeCorrect, NumbersGrantedOnce, PTL
  DEF Spec, ImplementsQuota, Quota!Spec
=============================================================================
