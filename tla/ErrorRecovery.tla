----------------------------- MODULE ErrorRecovery -----------------------------
(***************************************************************************)
(* ErrorRecoveryService of services/errorRecovery.ts, and useErrorRecovery,*)
(* the hook that shows it.  A recovery is an attempt out of a budget that  *)
(* belongs to the type of the error; attempts may overlap.  The recoveries *)
(* of two of the types load another page, which begins with a new service. *)
(***************************************************************************)
EXTENDS Naturals

CONSTANTS Attempt, MaxBegun   \* attempts under way together; bound: begun

VARIABLES
  attempts,        \* recoveryAttempts; a missing type counts as 0
  status,          \* recoveryStatus
  shownStatus,     \* recoveryStatus of the hook, which subscribes to it
  recovering,      \* its flag
  attempt,         \* local state of each call of attemptRecovery
  leaving,         \* another page has been asked for
  begun            \* history: attempts begun since the budget was reset

vars == <<attempts, status, shownStatus, recovering, attempt, leaving, begun>>

(* strategies: maxAttempts, and whether the callback leaves the page       *)
Type == {"network", "auth", "session", "data", "unknown"}
MaxAttempts == [t \in Type |-> CASE t = "network" -> 3
                                 [] t = "data" -> 2
                                 [] t = "unknown" -> 0
                                 [] OTHER -> 1]
LeavesPage == {"auth", "session"}

Idle == [pc |-> "idle", type |-> "unknown", alone |-> TRUE]

Init ==
  /\ attempts = [t \in Type |-> 0] /\ begun = [t \in Type |-> 0]
  /\ status = "idle" /\ shownStatus = "idle" /\ recovering = FALSE
  /\ attempt = [a \in Attempt |-> Idle]
  /\ leaving = FALSE

-----------------------------------------------------------------------------
Recovering == {a \in Attempt : attempt[a].pc \in {"delay", "callback"}}

(* recoveryStatus.next, and the subscription of the hook                   *)
Tell(s) ==
  /\ status' = s /\ shownStatus' = s
  /\ recovering' = (s = "recovering")

(* attemptRecovery, recover: an attempt that is in the budget              *)
Recover(a, t) ==
  /\ attempt[a] = Idle
  /\ attempts[t] < MaxAttempts[t]
  /\ begun[t] < MaxBegun
  /\ attempts' = [attempts EXCEPT ![t] = @ + 1]
  /\ begun' = [begun EXCEPT ![t] = @ + 1]
  /\ attempt' = [b \in Attempt |->
       IF b = a THEN [pc |-> "delay", type |-> t, alone |-> Recovering = {}]
       ELSE [attempt[b] EXCEPT !.alone = FALSE]]
  /\ Tell("recovering")
  /\ UNCHANGED leaving

(* No strategy, or no attempt left: the flag is set, and taken back in the *)
(* same breath, though another attempt may be under way.                   *)
Refuse(t) ==
  /\ attempts[t] >= MaxAttempts[t]
  /\ recovering' = FALSE
  /\ attempt' = [a \in Attempt |-> [attempt[a] EXCEPT !.alone = FALSE]]
  /\ UNCHANGED <<attempts, status, shownStatus, leaving, begun>>

(* The delay is over, and the callback called.                             *)
Delay(a) ==
  /\ attempt[a].pc = "delay"
  /\ attempt' = [attempt EXCEPT ![a].pc = "callback"]
  /\ leaving' = (leaving \/ attempt[a].type \in LeavesPage)
  /\ UNCHANGED <<attempts, status, shownStatus, recovering, begun>>

Succeed(a) ==
  /\ attempt[a].pc = "callback"
  /\ attempt' = [attempt EXCEPT ![a] = Idle]
  /\ Tell("recovered")
  /\ UNCHANGED <<attempts, leaving, begun>>

(* Mutant: the catch forgets to tell.                                      *)
FailSilently(a) ==
  /\ attempt[a].pc = "callback" /\ attempt[a].type \notin LeavesPage
  /\ attempt' = [attempt EXCEPT ![a] = Idle]
  /\ UNCHANGED <<attempts, status, shownStatus, recovering, leaving, begun>>

(* checkConnectivity or clearCache throws.                                 *)
Fail(a) ==
  /\ attempt[a].pc = "callback" /\ attempt[a].type \notin LeavesPage
  /\ attempt' = [attempt EXCEPT ![a] = Idle]
  /\ Tell("failed")
  /\ UNCHANGED <<attempts, leaving, begun>>

ResetAttempts(t) ==
  /\ attempts' = [attempts EXCEPT ![t] = 0]
  /\ begun' = [begun EXCEPT ![t] = 0]
  /\ UNCHANGED <<status, shownStatus, recovering, attempt, leaving>>

(* The other page is there: its service knows nothing of this one's.       *)
Leave ==
  /\ leaving /\ leaving' = FALSE
  /\ attempts' = [t \in Type |-> 0] /\ begun' = [t \in Type |-> 0]
  /\ status' = "idle" /\ shownStatus' = "idle" /\ recovering' = FALSE
  /\ attempt' = [a \in Attempt |-> Idle]

Next ==
  \/ \E t \in Type : (\E a \in Attempt : Recover(a, t)) \/ Refuse(t) \/ ResetAttempts(t)
  \/ \E a \in Attempt : Delay(a) \/ Succeed(a) \/ Fail(a)
  \/ Leave

Spec == Init /\ [][Next]_vars

-----------------------------------------------------------------------------
(* "recover": of one type no more attempts are begun than its budget has,  *)
(* overlapping ones included, until the budget is reset; nothing is shown  *)
(* as recovering when no attempt is under way; and an attempt that nothing *)
(* crossed is shown as recovering for as long as it takes.                 *)
RecoveryIsToldAndBounded ==
  /\ \A t \in Type : begun[t] <= MaxAttempts[t]
  /\ Recovering = {} => status # "recovering" /\ ~ recovering
  /\ \A a \in Recovering : attempt[a].alone => status = "recovering" /\ recovering
=============================================================================
