------------------------- MODULE LambdaRateLimiter -------------------------
(***************************************************************************)
(* rateLimiter of middleware/rate-limiter.ts: the fixed-window counter in  *)
(* front of the lambda handlers.  Each user has one DynamoDB item per      *)
(* minute, under the key userId:minute, so the items of one user are       *)
(* modelled as a function of the minute.  Of Date.now() the code only uses *)
(* the minute, and so does the model.                                      *)
(***************************************************************************)
EXTENDS Naturals, FiniteSets

CONSTANTS
  Request,       \* invocations that may be in flight together
  Limit,         \* MAX_REQUESTS_PER_WINDOW
  Lossy,         \* whether answers of the store can get lost
  MaxMinute,     \* bound: last minute explored
  MaxSent        \* bound: increments sent to the store, resent ones included

ASSUME RequestAssumption == IsFiniteSet(Request)
ASSUME LimitAssumption == Limit \in Nat
ASSUME LossyAssumption == Lossy \in BOOLEAN
ASSUME BoundsAssumption == MaxMinute \in Nat /\ MaxSent \in Nat

Minute == 0 .. MaxMinute

VARIABLES
  minute,        \* Math.floor(Date.now() / 60000)
  counter,       \* the items of the user; 0 stands for no item
  request,       \* local state of each invocation
  sent,          \* increments sent so far; only bounds the model
  made,          \* history: increments sent under this key, resent ones too
  admitted,      \* history: invocations that went on to the handler
  granted,       \* history: the counts those invocations were answered with
  refused        \* history: minutes in which somebody was told 429

vars == <<minute, counter, request, sent, made, admitted, granted, refused>>

RequestState ==
  [pc : {"idle", "add", "answered"}, windowKey : Minute, requests : Nat]

At(pc, windowKey, n) == [pc |-> pc, windowKey |-> windowKey, requests |-> n]

Idle == At("idle", 0, 0)

TypeOK ==
  /\ minute \in Minute
  /\ counter \in [Minute -> Nat]
  /\ request \in [Request -> RequestState]
  /\ sent \in Nat
  /\ made \in [Minute -> Nat]
  /\ admitted \in [Minute -> Nat]
  /\ granted \in [Minute -> SUBSET Nat]
  /\ refused \subseteq Minute

Init ==
  /\ minute = 0
  /\ counter = [m \in Minute |-> 0]
  /\ request = [r \in Request |-> Idle]
  /\ sent = 0
  /\ made = [m \in Minute |-> 0]
  /\ admitted = [m \in Minute |-> 0]
  /\ granted = [m \in Minute |-> {}]
  /\ refused = {}

-----------------------------------------------------------------------------
(* Mutant: Math.ceil for Math.floor.                                       *)
InvokeRoundingUp(r) ==
  /\ request[r].pc = "idle"
  /\ sent < MaxSent
  /\ sent' = sent + 1
  /\ made' = [made EXCEPT ![minute] = @ + 1]
  /\ request' = [request EXCEPT ![r] = At("add", minute + 1, 0)]
  /\ UNCHANGED <<minute, counter, admitted, granted, refused>>

(* The window key is computed once, before the store is asked.             *)
Invoke(r) ==
  /\ request[r].pc = "idle"
  /\ sent < MaxSent
  /\ sent' = sent + 1
  /\ made' = [made EXCEPT ![minute] = @ + 1]
  /\ request' = [request EXCEPT ![r] = At("add", minute, 0)]
  /\ UNCHANGED <<minute, counter, admitted, granted, refused>>

(* Mutant: ReturnValues is UPDATED_OLD.                                    *)
StoreAddReturningOld(r) ==
  LET w == request[r].windowKey IN
  /\ request[r].pc = "add"
  /\ counter' = [counter EXCEPT ![w] = @ + 1]
  /\ request' = [request EXCEPT ![r] = At("answered", w, counter[w])]
  /\ UNCHANGED <<minute, sent, made, admitted, granted, refused>>

(* ADD requests 1, answered with the new value.                            *)
StoreAdd(r) ==
  LET w == request[r].windowKey IN
  /\ request[r].pc = "add"
  /\ counter' = [counter EXCEPT ![w] = @ + 1]
  /\ request' = [request EXCEPT ![r] = At("answered", w, counter[w] + 1)]
  /\ UNCHANGED <<minute, sent, made, admitted, granted, refused>>

(* Mutants: one request too many, and one too few, is let through.         *)
TooManyByTwo(r) == request[r].requests > Limit + 1
AsManyAs(r) == request[r].requests >= Limit

TooMany(r) == request[r].requests > Limit

(* throw new ApiError(429, 'Too many requests')                            *)
Refuse(r) ==
  /\ request[r].pc = "answered"
  /\ TooMany(r)
  /\ refused' = refused \cup {request[r].windowKey}
  /\ request' = [request EXCEPT ![r] = Idle]
  /\ UNCHANGED <<minute, counter, sent, made, admitted, granted>>

(* return handler(event, context)                                          *)
Handle(r) ==
  LET w == request[r].windowKey IN
  /\ request[r].pc = "answered"
  /\ ~ TooMany(r)
  /\ admitted' = [admitted EXCEPT ![w] = @ + 1]
  /\ granted' = [granted EXCEPT ![w] = @ \cup {request[r].requests}]
  /\ request' = [request EXCEPT ![r] = Idle]
  /\ UNCHANGED <<minute, counter, sent, made, refused>>

(* The answer is lost and the SDK sends the same ADD again.                *)
Resend(r) ==
  /\ Lossy
  /\ request[r].pc = "answered"
  /\ sent < MaxSent
  /\ sent' = sent + 1
  /\ made' = [made EXCEPT ![request[r].windowKey] = @ + 1]
  /\ request' = [request EXCEPT ![r] = At("add", request[r].windowKey, 0)]
  /\ UNCHANGED <<minute, counter, admitted, granted, refused>>

(* The store fails, or the lambda is frozen or killed.                     *)
Abort(r) ==
  /\ request[r].pc # "idle"
  /\ request' = [request EXCEPT ![r] = Idle]
  /\ UNCHANGED <<minute, counter, sent, made, admitted, granted, refused>>

NextMinute ==
  /\ minute < MaxMinute
  /\ minute' = minute + 1
  /\ UNCHANGED <<counter, request, sent, made, admitted, granted, refused>>

Next ==
  \/ NextMinute
  \/ \E r \in Request :
       Invoke(r) \/ StoreAdd(r) \/ Refuse(r) \/ Handle(r) \/ Resend(r)
         \/ Abort(r)

Spec == Init /\ [][Next]_vars

-----------------------------------------------------------------------------
(* The counts answered for one minute are distinct, also between requests  *)
(* in flight together, and those that were let through are 1 .. Limit.     *)
CountsLetThrough ==
  \A m \in Minute :
    /\ granted[m] \subseteq 1 .. Limit
    /\ admitted[m] = Cardinality(granted[m])
    /\ \A n \in granted[m] : n <= counter[m]
    /\ m > minute => admitted[m] = 0

AnswersUnused ==
  \A r \in Request :
    /\ request[r].windowKey <= minute
    /\ request[r].pc = "answered" =>
         /\ request[r].requests \in 1 .. counter[request[r].windowKey]
         /\ request[r].requests \notin granted[request[r].windowKey]

CountsDistinct ==
  \A r, s \in Request :
    /\ r # s
    /\ request[r].pc = "answered"
    /\ request[s].pc = "answered"
    /\ request[r].windowKey = request[s].windowKey
    => request[r].requests # request[s].requests

GrantedOnce == CountsLetThrough /\ AnswersUnused /\ CountsDistinct

(* However the invocations interleave, and whatever is lost, resent or     *)
(* killed, no minute lets more than MAX_REQUESTS_PER_WINDOW through.       *)
Quota == INSTANCE WindowQuota WITH
           Quota <- Limit,
           opened <- minute,
           admitted <- [m \in 0 .. minute |-> admitted[m]]

ImplementsQuota == Quota!Spec

(* Nobody is told 429 in a minute in which no more than                    *)
(* MAX_REQUESTS_PER_WINDOW increments were sent.  Requests of the user and *)
(* increments are the same number as long as no answer is lost.            *)
RefusedOnlyOverLimit == \A m \in refused : made[m] > Limit
=============================================================================
