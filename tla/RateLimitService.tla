-------------------------- MODULE RateLimitService --------------------------
(***************************************************************************)
(* checkRateLimit of core/services/rate-limit.service.ts: the per-token    *)
(* request counter the NestJS RateLimitGuard consults.  The counter is one *)
(* DynamoDB item per (tokenId, apiId); items of different tokens never     *)
(* touch each other, so one item is modelled.                              *)
(*                                                                         *)
(* A call reads its clock, sends an atomic increment, and on the answer    *)
(* either counts itself against the limit or, when the window it was told  *)
(* about is over, sends a second, unconditional write that starts a new    *)
(* one.  Every await is a point where other calls, on this or on another   *)
(* instance of the service, get in between.                                *)
(*                                                                         *)
(* The increment also carries a value, :windowSize, that its expression    *)
(* does not use.  DynamoDB refuses such an update, so that against it      *)
(* every call takes Abort before anything is stored; a store that ignores  *)
(* the value, which is what the other actions need, is what the service    *)
(* is meant for.  Both are behaviours of this module.                      *)
(***************************************************************************)
EXTENDS Naturals, FiniteSets

CONSTANTS
  Caller,        \* calls of checkRateLimit that may be in flight together
  Limit,         \* requests one window admits (100 in the code)
  WindowSize,    \* length of a window (60000 ms in the code)
  Lossy,         \* whether answers of the store can get lost
  MaxTime,       \* bound: last instant explored
  MaxSent        \* bound: increments sent to the store, resent ones included

ASSUME LimitAssumption == Limit \in Nat \ {0}
ASSUME WindowSizeAssumption == WindowSize \in Nat
ASSUME LossyAssumption == Lossy \in BOOLEAN
ASSUME BoundsAssumption == MaxTime \in Nat /\ MaxSent \in Nat

VARIABLES
  clock,         \* Date.now()
  row,           \* the DynamoDB item of the token
  call,          \* local state of each call
  sent,          \* increments sent so far; only bounds the model
  epoch,         \* history: resets applied to the item
  admitted,      \* history: admitted[e] counts the calls answered TRUE by
                 \* window e, the call that opened e included
  granted        \* history: the request numbers those calls were given, 0
                 \* for the call that opened the window

vars == <<clock, row, call, sent, epoch, admitted, granted>>

(* The item does not exist before the first increment.                     *)
Row == [exists : BOOLEAN, requests : Nat, windowStart : Nat]

(* now is the clock value the pending write was computed with, requests    *)
(* and windowStart are what ALL_NEW returned, seen is the window (history) *)
(* the store answered for, which is the one a reset is meant to replace.   *)
CallState ==
  [pc : {"idle", "increment", "answered", "reset", "wasReset"},
   now : Nat, requests : Nat, windowStart : Nat, seen : Nat]

At(pc, now) ==
  [pc |-> pc, now |-> now, requests |-> 0, windowStart |-> 0, seen |-> 0]

Idle == At("idle", 0)

TypeOK ==
  /\ clock \in Nat
  /\ row \in Row
  /\ call \in [Caller -> CallState]
  /\ sent \in Nat
  /\ epoch \in Nat
  /\ admitted \in [0 .. epoch -> Nat]
  /\ granted \in [0 .. epoch -> SUBSET Nat]

Init ==
  /\ clock = 0
  /\ row = [exists |-> FALSE, requests |-> 0, windowStart |-> 0]
  /\ call = [c \in Caller |-> Idle]
  /\ sent = 0
  /\ epoch = 0
  /\ admitted = [e \in {0} |-> 0]
  /\ granted = [e \in {0} |-> {}]

-----------------------------------------------------------------------------
(* const now = Date.now(), then the update is handed to the SDK.           *)
CheckRateLimit(c) ==
  /\ call[c].pc = "idle"
  /\ sent < MaxSent
  /\ sent' = sent + 1
  /\ call' = [call EXCEPT ![c] = At("increment", clock)]
  /\ UNCHANGED <<clock, row, epoch, admitted, granted>>

(* Mutant: :inc has the wrong sign.                                        *)
Decremented(r, now) ==
  [exists      |-> TRUE,
   requests    |-> r.requests - 1,
   windowStart |-> IF r.exists THEN r.windowStart ELSE now]

(* The store applies the update expression atomically: requests and        *)
(* windowStart are taken from the item, or created when it has none.       *)
Incremented(r, now) ==
  [exists      |-> TRUE,
   requests    |-> r.requests + 1,
   windowStart |-> IF r.exists THEN r.windowStart ELSE now]

(* Mutant: ReturnValues is ALL_OLD, so the call learns the count before it. *)
StoreIncrementReturningOld(c) ==
  LET new == Incremented(row, call[c].now) IN
  /\ call[c].pc = "increment"
  /\ row' = new
  /\ call' = [call EXCEPT ![c] = [pc          |-> "answered",
                                  now         |-> call[c].now,
                                  requests    |-> row.requests,
                                  windowStart |-> new.windowStart,
                                  seen        |-> epoch]]
  /\ UNCHANGED <<clock, sent, epoch, admitted, granted>>

StoreIncrement(c) ==
  LET new == Incremented(row, call[c].now) IN
  /\ call[c].pc = "increment"
  /\ row' = new
  /\ call' = [call EXCEPT ![c] = [pc          |-> "answered",
                                  now         |-> call[c].now,
                                  requests    |-> new.requests,
                                  windowStart |-> new.windowStart,
                                  seen        |-> epoch]]
  /\ UNCHANGED <<clock, sent, epoch, admitted, granted>>

(* Mutant: >= for >.                                                       *)
ExpiredAtTheEnd(c) == call[c].now >= call[c].windowStart + WindowSize

(* now - item.windowStart > windowSize                                     *)
Expired(c) == call[c].now > call[c].windowStart + WindowSize

ReturnFalse(c) ==
  /\ call' = [call EXCEPT ![c] = Idle]
  /\ UNCHANGED <<clock, row, sent, epoch, admitted, granted>>

ReturnTrue(c) ==
  /\ call' = [call EXCEPT ![c] = Idle]
  /\ admitted' = [admitted EXCEPT ![call[c].seen] = @ + 1]
  /\ granted' = [granted EXCEPT ![call[c].seen] = @ \cup {call[c].requests}]
  /\ UNCHANGED <<clock, row, sent, epoch>>

(* Mutant: the limit is off by one.                                        *)
WithinLimitAndOne(c) == call[c].requests <= Limit + 1

(* return item.requests <= 100                                             *)
WithinLimit(c) == call[c].requests <= Limit

(* Mutant: the call forgets to answer when the limit is exceeded.          *)
DecideOnlyTrue(c) ==
  /\ call[c].pc = "answered"
  /\ ~ Expired(c)
  /\ WithinLimit(c)
  /\ ReturnTrue(c)

Decide(c) ==
  /\ call[c].pc = "answered"
  /\ ~ Expired(c)
  /\ IF WithinLimit(c) THEN ReturnTrue(c) ELSE ReturnFalse(c)

Resetting(c, now) ==
  [pc |-> "reset", now |-> now, requests |-> 0, windowStart |-> 0,
   seen |-> call[c].seen]

(* The other branch: resetRateLimit evaluates its own Date.now() and sends *)
(* the reset.                                                              *)
SendReset(c) ==
  /\ call[c].pc = "answered"
  /\ Expired(c)
  /\ call' = [call EXCEPT ![c] = Resetting(c, clock)]
  /\ UNCHANGED <<clock, row, sent, epoch, admitted, granted>>

(* The reset is unconditional: it does not look at the item it overwrites. *)
StoreReset(c) ==
  /\ call[c].pc = "reset"
  /\ row' = [exists |-> TRUE, requests |-> 0, windowStart |-> call[c].now]
  /\ epoch' = epoch + 1
  /\ admitted' = [e \in 0 .. epoch + 1 |->
                    IF e = epoch + 1 THEN 0 ELSE admitted[e]]
  /\ granted' = [e \in 0 .. epoch + 1 |->
                    IF e = epoch + 1 THEN {} ELSE granted[e]]
  /\ call' = [call EXCEPT ![c] = [At("wasReset", call[c].now) EXCEPT
                                    !.seen = epoch + 1]]
  /\ UNCHANGED <<clock, sent>>

(* await resetRateLimit(...); return true                                  *)
AllowAfterReset(c) ==
  /\ call[c].pc = "wasReset"
  /\ ReturnTrue(c)

(* The answer of the store is lost and the SDK sends the same write again. *)
(* Neither write is idempotent for the counter.  The reset that is sent    *)
(* again was meant for a window that is gone: its seen is 0.               *)
Resend(c) ==
  /\ Lossy
  /\ sent < MaxSent
  /\ sent' = sent + 1
  /\ \/ /\ call[c].pc = "answered"
        /\ call' = [call EXCEPT ![c] = At("increment", call[c].now)]
     \/ /\ call[c].pc = "wasReset"
        /\ call' = [call EXCEPT ![c] = At("reset", call[c].now)]
  /\ UNCHANGED <<clock, row, epoch, admitted, granted>>

(* The store reports an error, as DynamoDB does for the unused value of    *)
(* the increment, or the process ends, before or after the pending write   *)
(* was applied: the call rejects and admits no one.                        *)
Abort(c) ==
  /\ call[c].pc # "idle"
  /\ call' = [call EXCEPT ![c] = Idle]
  /\ UNCHANGED <<clock, row, sent, epoch, admitted, granted>>

Tick ==
  /\ clock < MaxTime
  /\ clock' = clock + 1
  /\ UNCHANGED <<row, call, sent, epoch, admitted, granted>>

Next ==
  \/ Tick
  \/ \E c \in Caller :
       \/ CheckRateLimit(c)
       \/ StoreIncrement(c)
       \/ Decide(c)
       \/ SendReset(c)
       \/ StoreReset(c)
       \/ AllowAfterReset(c)
       \/ Resend(c)
       \/ Abort(c)

Spec == Init /\ [][Next]_vars

(* The store answers every request it received, and the event loop runs    *)
(* every continuation whose promise has settled.                           *)
Progress(c) ==
  StoreIncrement(c) \/ Decide(c) \/ SendReset(c) \/ StoreReset(c)
    \/ AllowAfterReset(c)

FairSpec == Spec /\ \A c \in Caller : WF_vars(Progress(c))

-----------------------------------------------------------------------------
NumbersCounted ==
  /\ \A e \in 0 .. epoch : /\ granted[e] \subseteq 0 .. Limit
                           /\ admitted[e] = Cardinality(granted[e])
  /\ \A n \in granted[epoch] : n <= row.requests

AnswersUnused ==
  \A c \in Caller :
    call[c].pc = "answered" =>
      /\ call[c].requests > 0
      /\ call[c].seen <= epoch
      /\ call[c].requests \notin granted[call[c].seen]
      /\ call[c].seen = epoch => call[c].requests <= row.requests

ResetsUnused ==
  \A c \in Caller :
    call[c].pc = "wasReset" =>
      /\ call[c].requests = 0
      /\ call[c].seen \in 1 .. epoch
      /\ 0 \notin granted[call[c].seen]

NumbersDistinct ==
  \A c, d \in Caller :
    /\ c # d
    /\ call[c].pc = call[d].pc
    /\ call[c].pc \in {"answered", "wasReset"}
    /\ call[c].seen = call[d].seen
    => call[c].requests # call[d].requests

(* Every window hands out each of the numbers 0 .. Limit at most once, and *)
(* never to two calls that are in flight together.  This is what makes the *)
(* increment safe under any interleaving, lost answer or crash: the        *)
(* numbers of one window are distinct, and none of them survives a reset.  *)
GrantedOnce ==
  /\ NumbersCounted
  /\ AnswersUnused
  /\ ResetsUnused
  /\ NumbersDistinct

(* The service keeps the promise of a limiter with one admission more than *)
(* its limit: the call that resets the counter is admitted but leaves it   *)
(* at 0, so the window it opens still has Limit admissions to give.        *)
Quota == INSTANCE WindowQuota WITH Quota <- Limit + 1,
                                   opened <- epoch, admitted <- admitted

ImplementsQuota == Quota!Spec

(* The window a counter belongs to never lies in the future, so a window   *)
(* is never longer than the code's minute: the first call made more than   *)
(* WindowSize after it began always finds it over.                         *)
WindowBeganInThePast ==
  /\ row.windowStart <= clock
  /\ \A c \in Caller : call[c].now <= clock

(* Every call is answered or fails; none waits for ever, however many      *)
(* calls reset the counter around it.                                      *)
EveryCallReturns == \A c \in Caller : call[c].pc # "idle" ~> call[c].pc = "idle"

(* Requests that were counted are forgotten only when the minute in which  *)
(* they were made is over, or by a reset that comes too late: it was       *)
(* decided before the present window was opened.                           *)
LateReset(c) == call[c].pc = "reset" /\ call[c].seen < epoch

OnlyLateResetsForgetTooEarly ==
  [][row'.requests < row.requests =>
       \/ clock > row.windowStart + WindowSize
       \/ \E c \in Caller : LateReset(c) /\ call'[c].pc = "wasReset"]_vars

(* "Default rate limit": one window of the counter admits Limit requests.  *)
LimitPerWindow == \A e \in 0 .. epoch : admitted[e] <= Limit
=============================================================================
