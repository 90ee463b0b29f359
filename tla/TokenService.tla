----------------------------- MODULE TokenService -----------------------------
(***************************************************************************)
(* API tokens (modules/token/token.service.ts) and the two guards that ask *)
(* about them: AuthGuard and RateLimitGuard (core/guards).                 *)
(*                                                                         *)
(* Tokens are created, used and revoked by id in the table, but validated  *)
(* by key in the index TokenKeyIndex, which the store maintains behind the *)
(* table: a query may be answered by any replica, from any state of the    *)
(* item between the last one every replica has and the current one.  A     *)
(* request therefore validates against the past.                           *)
(***************************************************************************)
EXTENDS Naturals, Sequences

CONSTANTS
  Token,         \* token ids
  Request,       \* requests that may be in flight together
  LifeTime,      \* default life of a token (30 days in the code)
  MaxTime,       \* bound: last instant explored
  MaxCalls       \* bound: uses recorded per token

ASSUME LifeTimeAssumption == LifeTime \in Nat
ASSUME BoundsAssumption == MaxTime \in Nat /\ MaxCalls \in Nat

VARIABLES
  clock,         \* Date.now()
  written,       \* the states each item of the table went through
  replicated,    \* replicated[t]: how many of them every replica of the
                 \* index has
  request        \* local state of each request

vars == <<clock, written, replicated, request>>

(* keyed tells an item createToken wrote from one that revokeToken left    *)
(* behind for an id that has none: the latter has no key, so no index      *)
(* entry, and no usage.                                                    *)
Item ==
  [keyed : BOOLEAN, status : {"active", "revoked"}, expiresAt : Nat, calls : Nat]

Guard == {"AuthGuard", "RateLimitGuard"}

(* seen is the state of the item the query answered, 0 for none; began and *)
(* floor are the clock and replicated[token] when the request arrived.     *)
RequestState ==
  [pc : {"idle", "query", "validate", "limit", "passed"}, guard : Guard,
   token : Token, seen : Nat, began : Nat, floor : Nat]

At(pc, guard, t, began, floor) ==
  [pc |-> pc, guard |-> guard, token |-> t, seen |-> 0,
   began |-> began, floor |-> floor]

Exists(t) == written[t] # <<>>
Current(t) == written[t][Len(written[t])]
Revoked(t) == Exists(t) /\ Current(t).status = "revoked"

TypeOK ==
  /\ clock \in Nat
  /\ written \in [Token -> Seq(Item)]
  /\ replicated \in [Token -> Nat]
  /\ request \in [Request -> RequestState]

Init ==
  /\ clock = 0
  /\ written = [t \in Token |-> <<>>]
  /\ replicated = [t \in Token |-> 0]
  /\ \E t \in Token : request = [r \in Request |-> At("idle", "AuthGuard", t, 0, 0)]

-----------------------------------------------------------------------------
(* The store applies a write to the item of t.  A write that changes       *)
(* nothing leaves the index alone.                                         *)
Write(t, item) ==
  /\ written' = IF Exists(t) /\ item = Current(t)
                THEN written
                ELSE [written EXCEPT ![t] = Append(@, item)]
  /\ UNCHANGED <<clock, replicated, request>>

(* uuidv4 never returns an id twice.  The expiry is the caller's, any date *)
(* at all, or the default.                                                 *)
CreateToken(t) ==
  /\ ~ Exists(t)
  /\ \E expiresAt \in 0 .. MaxTime \cup {clock + LifeTime} :
       Write(t, [keyed |-> TRUE, status |-> "active",
                 expiresAt |-> expiresAt, calls |-> 0])

(* Mutant: a status the interface does not know.                           *)
RevokeTokenAsInactive(t) ==
  Write(t, IF Exists(t)
           THEN [Current(t) EXCEPT !.status = "inactive"]
           ELSE [keyed |-> FALSE, status |-> "inactive",
                 expiresAt |-> 0, calls |-> 0])

(* The update sets the status, whatever it was, and creates the item when  *)
(* the id has none.                                                        *)
RevokeToken(t) ==
  Write(t, IF Exists(t)
           THEN [Current(t) EXCEPT !.status = "revoked"]
           ELSE [keyed |-> FALSE, status |-> "revoked",
                 expiresAt |-> 0, calls |-> 0])

(* Mutant: the item is put back as it was read, status included.           *)
UpdateTokenUsageByPut(t) ==
  /\ Exists(t)
  /\ Current(t).keyed
  /\ Current(t).calls < MaxCalls
  /\ Write(t, [written[t][1] EXCEPT !.calls = @ + 1])

(* usage.calls is a path into the item: the update of an item without      *)
(* usage is rejected.  DynamoDB reserves the word usage and rejects all of *)
(* them; what is modelled is the update under another name.                *)
UpdateTokenUsage(t) ==
  /\ Exists(t)
  /\ Current(t).keyed
  /\ Current(t).calls < MaxCalls
  /\ Write(t, [Current(t) EXCEPT !.calls = @ + 1])

(* One more state of the item has reached every replica of the index.      *)
Replicate(t) ==
  /\ replicated[t] < Len(written[t])
  /\ replicated' = [replicated EXCEPT ![t] = @ + 1]
  /\ UNCHANGED <<clock, written, request>>

-----------------------------------------------------------------------------
(* canActivate of either guard for a request that carries an x-api-key; a  *)
(* request without one, or with the administrator's, concerns no token.    *)
CanActivate(r, t, guard) ==
  /\ request[r].pc = "idle"
  /\ request' = [request EXCEPT ![r] = At("query", guard, t, clock, replicated[t])]
  /\ UNCHANGED <<clock, written, replicated>>

Pass(r, pc) ==
  /\ request' = [request EXCEPT ![r].pc = pc]
  /\ UNCHANGED <<clock, written, replicated>>

Finish(r) ==
  /\ request' = [request EXCEPT ![r] = At("idle", @.guard, @.token, 0, 0)]
  /\ UNCHANGED <<clock, written, replicated>>

(* validateToken: the query of TokenKeyIndex, result.Items[0]              *)
Query(r) ==
  LET t == request[r].token IN
  /\ request[r].pc = "query"
  /\ \E version \in replicated[t] .. Len(written[t]) :
       request' = [request EXCEPT ![r].pc = "validate",
         ![r].seen = IF version > 0 /\ written[t][version].keyed
                     THEN version ELSE 0]
  /\ UNCHANGED <<clock, written, replicated>>

(* Mutant: the expiry is not looked at.                                    *)
ActiveToken(r) ==
  /\ request[r].seen > 0
  /\ written[request[r].token][request[r].seen].status = "active"

(* Mutant: the status is not looked at.                                    *)
UnexpiredToken(r) ==
  LET token == written[request[r].token][request[r].seen] IN
  /\ request[r].seen > 0
  /\ ~ token.expiresAt < clock

(* Mutant: a token expires an instant early.                               *)
UnexpiredActiveToken(r) ==
  LET token == written[request[r].token][request[r].seen] IN
  /\ request[r].seen > 0
  /\ token.status = "active"
  /\ token.expiresAt > clock

(* Negation of: !token || token.status !== 'active' || expired             *)
ValidToken(r) ==
  LET token == written[request[r].token][request[r].seen] IN
  /\ request[r].seen > 0
  /\ token.status = "active"
  /\ ~ token.expiresAt < clock

Validate(r) ==
  /\ request[r].pc = "validate"
  /\ IF ValidToken(r)
     THEN Pass(r, IF request[r].guard = "RateLimitGuard" THEN "limit" ELSE "passed")
     ELSE Finish(r)

(* checkRateLimit, the subject of RateLimitService, may say either.        *)
CheckRateLimit(r) ==
  /\ request[r].pc = "limit"
  /\ Pass(r, "passed") \/ Finish(r)

(* The handler of the request has answered.                                *)
Handle(r) ==
  /\ request[r].pc = "passed"
  /\ Finish(r)

(* The store or the limiter rejects, or the process ends.                  *)
Fail(r) ==
  /\ request[r].pc \in {"query", "limit"}
  /\ Finish(r)

Tick ==
  /\ clock < MaxTime
  /\ clock' = clock + 1
  /\ UNCHANGED <<written, replicated, request>>

Next ==
  \/ Tick
  \/ \E t \in Token :
       \/ CreateToken(t)
       \/ RevokeToken(t)
       \/ UpdateTokenUsage(t)
       \/ Replicate(t)
  \/ \E r \in Request :
       \/ \E t \in Token, guard \in Guard : CanActivate(r, t, guard)
       \/ Query(r)
       \/ Validate(r)
       \/ CheckRateLimit(r)
       \/ Handle(r)
       \/ Fail(r)

Spec == Init /\ [][Next]_vars

(* The index catches up with the table, the store and the limiter answer,  *)
(* and handlers return.                                                    *)
FairSpec ==
  /\ Spec
  /\ \A t \in Token : WF_vars(Replicate(t))
  /\ \A r \in Request :
       WF_vars(Query(r) \/ Validate(r) \/ CheckRateLimit(r) \/ Handle(r))

-----------------------------------------------------------------------------
(* A guard refuses a token only because not every replica had it when the  *)
(* request arrived, because it never was one, or because by now it has     *)
(* been revoked or has expired: uses, revocations of other ids and an      *)
(* index that lags never turn away the bearer of a good token.             *)
RefusesOnlyWithReason ==
  [][\A r \in Request :
       LET q == request[r] IN
       q.pc = "validate" /\ request'[r].pc = "idle" =>
         \/ q.floor = 0
         \/ ~ written[q.token][1].keyed
         \/ Revoked(q.token)
         \/ Current(q.token).expiresAt < clock]_vars

(* A revocation is final: no later use of the token, and no retry of the   *)
(* revocation, ever makes the item active again.                           *)
RevokedForGood ==
  [][\A t \in Token : Revoked(t) => Revoked(t)']_vars

Passing(r) == request[r].pc \in {"limit", "passed"}

(* A guard lets a request go on only with a token that existed, that was   *)
(* not yet revoked in the whole index and that had not expired when the    *)
(* request arrived; whatever happened to it since.                         *)
PassesOnlyValidTokens ==
  \A r \in Request :
    LET q == request[r] IN
    Passing(r) =>
      /\ Exists(q.token) /\ written[q.token][1].keyed
      /\ q.floor > 0 => written[q.token][q.floor].status = "active"
      /\ q.seen > 0 /\ written[q.token][q.seen].expiresAt >= q.began

(* A token that is revoked or has expired stops opening the door: from     *)
(* some time on no request passes a guard with it.                         *)
Ended(t) == Exists(t) /\ (Revoked(t) \/ Current(t).expiresAt < clock)

EndTakesEffect ==
  \A t \in Token :
    Ended(t) ~> [](\A r \in Request : request[r].token = t => ~ Passing(r))
=============================================================================
