------------------------------ MODULE ManageKeys ------------------------------
(***************************************************************************)
(* The Lambda function functions/admin/manage-keys.ts: its handler inside  *)
(* the wrappers of src/middleware, in the order of the last statement of   *)
(* the file: errorHandler, authMiddleware, rateLimiter, metricsCollector,  *)
(* auditLogger, validateRequest, baseHandler.  Each of them awaits what it *)
(* wraps or what it asks of AWS; what is thrown inside passes through all  *)
(* of them up to errorHandler.  (The file does not import rateLimiter,     *)
(* metricsCollector and ApiError; it is read as if it did.  The counter of *)
(* rateLimiter is LambdaRateLimiter's: here either answer may come.)       *)
(***************************************************************************)
EXTENDS Naturals

CONSTANTS Request, None   \* invocations; no status

VARIABLES
  request,  \* local state of each invocation
  keys,     \* API_KEYS_TABLE: the invocations that stored a key
  audit,    \* AUDIT_LOG_TABLE: audit[r], the status recorded for r
  metered   \* CloudWatch: metered[r], the status of the request counted

vars == <<request, keys, audit, metered>>

Method == {"GET", "POST", "PUT"}
Token == {"none", "bad", "good"}
Body == {"none", "malformed", "invalid", "valid"}

Idle == [pc |-> "idle"]

Init ==
  /\ request = [r \in Request |-> Idle]
  /\ keys = {}
  /\ audit = [r \in Request |-> None]
  /\ metered = [r \in Request |-> None]

-----------------------------------------------------------------------------
At(r, pc) == request[r].pc = pc
InFlight(r) == request[r].pc \notin {"idle", "answered", "dead"}

Goto(r, pc) == request' = [request EXCEPT ![r].pc = pc]

Answer(r, status) ==
  request' = [request EXCEPT ![r].pc = "answered", ![r].status = status]

(* Mutant: authMiddleware awaits the handler, and so catches what it throws.*)
ThrowIntoAuth(r, status) ==
  Answer(r, IF At(r, "verify") THEN status ELSE 401)

(* Only errorHandler catches: authMiddleware and validateRequest return the*)
(* promise of what they wrap from their try without awaiting it.           *)
Throw(r, status) == Answer(r, status)

(* authMiddleware: 'No token provided'                                     *)
Receive(r, method, token, body) ==
  /\ request[r] = Idle
  /\ request' = [request EXCEPT ![r] =
       [method |-> method, token |-> token, body |-> body,
        pc |-> IF token = "none" THEN "answered" ELSE "verify",
        status |-> IF token = "none" THEN 401 ELSE None]]
  /\ UNCHANGED <<keys, audit, metered>>

(* verifier.verify: 'Invalid token'                                        *)
Verify(r) ==
  /\ At(r, "verify")
  /\ IF request[r].token = "good" THEN Goto(r, "limit") ELSE Answer(r, 401)
  /\ UNCHANGED <<keys, audit, metered>>

(* rateLimiter: 'Too many requests'                                        *)
LimitRate(r) ==
  /\ At(r, "limit")
  /\ Goto(r, "validate") \/ Throw(r, 429)
  /\ UNCHANGED <<keys, audit, metered>>

(* validateRequest: a body that is no JSON is an error like any other, an  *)
(* absent one is not looked at; then baseHandler, 'Method not allowed'.    *)
Validate(r) ==
  /\ At(r, "validate")
  /\ CASE request[r].body = "malformed" -> Throw(r, 500)
       [] request[r].body = "invalid" -> Throw(r, 400)
       [] OTHER -> CASE request[r].method = "GET" -> Goto(r, "scan")
                     [] request[r].method = "POST" -> Goto(r, "put")
                     [] OTHER -> Throw(r, 405)
  /\ UNCHANGED <<keys, audit, metered>>

Respond(r, status) ==
  request' = [request EXCEPT ![r].pc = "audit", ![r].status = status]

Scan(r) ==
  /\ At(r, "scan")
  /\ Respond(r, 200)
  /\ UNCHANGED <<keys, audit, metered>>

Put(r) ==
  /\ At(r, "put")
  /\ keys' = keys \cup {r}
  /\ Respond(r, 201)
  /\ UNCHANGED <<audit, metered>>

(* auditLogger, after the handler                                          *)
Audit(r) ==
  /\ At(r, "audit")
  /\ audit' = [audit EXCEPT ![r] = request[r].status]
  /\ Goto(r, "meter")
  /\ UNCHANGED <<keys, metered>>

(* metricsCollector, after auditLogger                                     *)
Meter(r) ==
  /\ At(r, "meter")
  /\ metered' = [metered EXCEPT ![r] = request[r].status]
  /\ Goto(r, "return")
  /\ UNCHANGED <<keys, audit>>

Return(r) ==
  /\ At(r, "return")
  /\ Answer(r, request[r].status)
  /\ UNCHANGED <<keys, audit, metered>>

(* A service refuses a request, or its answer is lost: the call that was   *)
(* awaited throws, whether or not it took effect.                          *)
Fail(r) ==
  /\ request[r].pc \in {"verify", "limit", "scan", "put", "audit", "meter", "return"}
  /\ IF At(r, "verify") THEN Answer(r, 401) ELSE Throw(r, 500)
  /\ UNCHANGED <<keys, audit, metered>>

(* The invocation runs into its timeout, or its process ends.              *)
Kill(r) ==
  /\ InFlight(r)
  /\ Goto(r, "dead")
  /\ UNCHANGED <<keys, audit, metered>>

Next ==
  \E r \in Request :
    \/ \E method \in Method, token \in Token, body \in Body :
         Receive(r, method, token, body)
    \/ Verify(r) \/ LimitRate(r) \/ Validate(r)
    \/ Scan(r) \/ Put(r) \/ Audit(r) \/ Meter(r) \/ Return(r)
    \/ Fail(r) \/ Kill(r)

Spec == Init /\ [][Next]_vars

-----------------------------------------------------------------------------
Answered(r, statuses) == At(r, "answered") /\ request[r].status \in statuses

(* "errorHandler(authMiddleware(...))": a request that is refused has      *)
(* changed nothing and left no trace; one that is answered with success is *)
(* in the audit log and in the metrics as what it was; and a stored key    *)
(* that the log does not have was never acknowledged to its client.        *)
AnswersTellWhatHappened ==
  \A r \in Request :
    /\ Answered(r, {400, 401, 405, 429}) =>
         r \notin keys /\ audit[r] = None /\ metered[r] = None
    /\ Answered(r, {200, 201}) =>
         /\ audit[r] = request[r].status /\ metered[r] = request[r].status
         /\ r \in keys <=> request[r].status = 201
    /\ r \in keys /\ audit[r] = None =>
         InFlight(r) \/ At(r, "dead") \/ Answered(r, {500})
    /\ r \in keys => request[r].token = "good" /\ request[r].body \in {"none", "valid"}
=============================================================================
