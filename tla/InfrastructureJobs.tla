-------------------------- MODULE InfrastructureJobs --------------------------
(***************************************************************************)
(* Runs of the jobs of JobScripts against AWS.  Runs of one job overlap    *)
(* when a schedule is shorter than the job, or follow each other.  A call  *)
(* fails, with or without having had its effect; the await that rejects    *)
(* ends the method, while the other branches of its Promise.all go on; a   *)
(* process may end anywhere.                                               *)
(***************************************************************************)
EXTENDS JobScripts

CONSTANTS
  Run,           \* runs of a job, numbered in the order they begin
  Scenario       \* what is explored: a job, the items its account has, how many
                 \* runs of the job there are, one after or beside the other, and
                 \* (a bound) how many calls fail and processes end

ASSUME ScenarioAssumption ==
  \A s \in Scenario :
    s.job \in DOMAIN Script /\ s.items \subseteq Item
      /\ s.runs \subseteq Run /\ s.failures \in Nat
ASSUME RunAssumption == Run \subseteq Nat

VARIABLES
  scenario,      \* the scenario of this behaviour
  run,           \* run[r]: what has become of run r
  aws,           \* the resources that exist, and creating, those that are not
  creating,      \* ready yet
  effects,       \* effects[r]: what the calls of run r have changed
  failures       \* calls that failed and processes that ended, against the bound

vars == <<scenario, run, aws, creating, effects, failures>>

Resource(c, r) ==
  IF c.of = "copy" THEN <<c.of, c.item, r>> ELSE <<c.of, c.item>>

job == scenario.job
Stages == Script[job]
Calls(j) ==
  UNION {UNION {ToSet(b) : b \in ToSet(s.branches)} : s \in ToSet(Script[j])}
Conditions(j) == (UNION {c.needs : c \in Calls(j)}) \cap {<<n, 0>> : n \in
  {"KMS key", "a day without DynamoDB", "DynamoDB is expensive",
   "latency is degrading"}}
(* What a run of the job may find when it begins.                          *)
Found(j, I) ==
  {<<c.of, i>> : c \in {d \in Calls(j) : d.kind \in {"list", "delete"} /\ d.of # "copy"},
                 i \in I}
-----------------------------------------------------------------------------
(* The next call of a branch after its n-th: conditions and listed items   *)
(* decide; one past the end when there is none.                            *)
NextCall(branch, n, seen) ==
  CHOOSE m \in n + 1 .. Len(branch) + 1 :
    /\ m <= Len(branch) => branch[m].needs \subseteq seen
    /\ \A k \in n + 1 .. m - 1 : ~(branch[k].needs \subseteq seen)

Idle == [state |-> "idle", stage |-> 0, at |-> <<>>, seen |-> {}, failed |-> {}]

AtEnd(x) == x.stage > Len(Stages)
BranchOver(x, b) == x.at[b] > Len(Stages[x.stage].branches[b])
StageOver(x) == \A b \in DOMAIN x.at : BranchOver(x, b)

Enter(x, n) ==
  [x EXCEPT
     !.stage = n,
     !.at = IF n > Len(Stages) THEN <<>>
            ELSE [b \in DOMAIN Stages[n].branches |->
                    NextCall(Stages[n].branches[b], 0, x.seen)]]

(* Branch b of run x goes on to its next call.                             *)
Advance(x, b, seen) ==
  [x EXCEPT !.seen = seen,
            !.at[b] = NextCall(Stages[x.stage].branches[b], x.at[b], seen)]

(* The call of branch b throws: it is swallowed, the rejection of a run    *)
(* that has already rejected, caught, or rejects the run.                  *)
Throw(x, b, c, why) ==
  LET y == [x EXCEPT !.failed = @ \cup {c},
                     !.at[b] = Len(Stages[x.stage].branches[b]) + 1]
      caught == Stages[x.stage].catch
  IN IF c.own THEN [Advance(x, b, x.seen) EXCEPT !.failed = @ \cup {c}]
     ELSE IF x.state = "rejected" THEN y
     ELSE IF caught = 0 THEN [y EXCEPT !.state = "rejected"]
     ELSE Enter([y EXCEPT !.seen = @ \cup {<<why, 0>>}], x.stage + caught)
-----------------------------------------------------------------------------
(* AWS, as the jobs use it.                                                *)

Refused(c, r) ==
  LET it == Resource(c, r)
  IN \/ c.kind = "broken"
     \/ c.kind = "create" /\ it \in aws
     \/ c.kind = "delete" /\ it \notin aws \ creating
     \/ c.kind = "scan" /\ it \notin aws \ creating
     \/ c.kind = "require" /\ ~\E s \in run[r].seen :
                                s[1] = c.of /\ c.item \in {0, s[2]}

Effect(c, r) ==
  LET it == Resource(c, r)
  IN /\ aws' = CASE c.kind \in {"create", "restore"} -> aws \cup {it}
                 [] c.kind = "delete" -> aws \ {it}
                 [] OTHER -> aws
     /\ creating' = IF c.kind = "restore" THEN creating \cup {it} ELSE creating
     /\ effects' = IF c.kind \in {"create", "restore", "delete", "put"}
                   THEN [effects EXCEPT ![r] = @ \cup {it}] ELSE effects

Answer(c, r) ==
  IF c.kind = "list"
  THEN run[r].seen \cup {s \in aws : s[1] = c.of /\ c.item \in {0, s[2]}}
  ELSE run[r].seen
-----------------------------------------------------------------------------
Init ==
  /\ scenario \in Scenario
  /\ aws = Found(scenario.job, scenario.items)
  /\ creating = {} /\ failures = 0
  /\ run = [r \in Run |-> Idle]
  /\ effects = [r \in Run |-> {}]

(* A schedule or a person starts the job; the data and the environment     *)
(* decide on its conditions.                                               *)
Start(r) ==
  /\ r \in scenario.runs /\ run[r].state = "idle"
  /\ \A q \in scenario.runs : q < r => run[q].state # "idle"
  /\ \E C \in SUBSET Conditions(job) :
       run' = [run EXCEPT ![r] = Enter([Idle EXCEPT !.state = "running", !.seen = C], 1)]
  /\ UNCHANGED <<scenario, aws, creating, effects, failures>>

(* The branches that wait for an answer, and the call they wait for.       *)
Waiting(r) ==
  IF run[r].state \in {"running", "rejected"} /\ ~AtEnd(run[r])
  THEN {b \in DOMAIN run[r].at : ~BranchOver(run[r], b)} ELSE {}
Awaited(r, b) == Stages[run[r].stage].branches[b][run[r].at[b]]

Settle(r) ==
  \E b \in Waiting(r) :
    LET c == Awaited(r, b)
    IN /\ ~Refused(c, r)
       /\ Effect(c, r)
       /\ run' = [run EXCEPT ![r] = Advance(@, b, Answer(c, r))]
       /\ UNCHANGED <<scenario, failures>>

(* The service refuses the call, or the code's own check throws.           *)
Refuse(r) ==
  \E b \in Waiting(r) :
    LET c == Awaited(r, b)
    IN /\ Refused(c, r)
       /\ run' = [run EXCEPT ![r] =
                    Throw(@, b, c, IF c.kind = "create" THEN "refused" ELSE "failed")]
       /\ UNCHANGED <<scenario, aws, creating, effects, failures>>

(* The call fails, possibly after it had its effect.                       *)
Fail(r) ==
  \E b \in Waiting(r) :
    LET c == Awaited(r, b)
    IN /\ failures < scenario.failures
       /\ c.kind \notin {"stub", "require"} /\ ~Refused(c, r)
       /\ Effect(c, r) \/ UNCHANGED <<aws, creating, effects>>
       /\ run' = [run EXCEPT ![r] = Throw(@, b, c, "failed")]
       /\ failures' = failures + 1
       /\ UNCHANGED scenario

(* Every branch is through: on to the next stage, or throw again.          *)
Continue(r) ==
  /\ run[r].state = "running" /\ ~AtEnd(run[r])
  /\ StageOver(run[r])
  /\ LET s == Stages[run[r].stage]
     IN run' = [run EXCEPT ![r] =
                  IF s.rethrow \cap @.seen # {} THEN [@ EXCEPT !.state = "rejected"]
                  ELSE Enter(@, @.stage + s.next)]
  /\ UNCHANGED <<scenario, aws, creating, effects, failures>>

Resolve(r) ==
  /\ run[r].state = "running" /\ AtEnd(run[r])
  /\ run' = [run EXCEPT ![r].state = "resolved"]
  /\ UNCHANGED <<scenario, aws, creating, effects, failures>>

(* The process ends where it is: out of memory, or out of time.  The        *)
(* process.exit of a script comes after its run has rejected.              *)
Kill(r) ==
  /\ failures < scenario.failures
  /\ run[r].state \in {"running", "rejected"}
  /\ run' = [run EXCEPT ![r].state = "killed"]
  /\ failures' = failures + 1
  /\ UNCHANGED <<scenario, aws, creating, effects>>

(* DynamoDB has finished a restore.                                        *)
Restored ==
  \E it \in creating :
    /\ creating' = creating \ {it}
    /\ UNCHANGED <<scenario, run, aws, effects, failures>>

Steps(r) == Settle(r) \/ Refuse(r) \/ Continue(r) \/ Resolve(r)

Next ==
  \/ \E r \in Run : Start(r) \/ Steps(r) \/ Fail(r) \/ Kill(r)
  \/ Restored

Spec == Init /\ [][Next]_vars
-----------------------------------------------------------------------------
(* A run rejects only because a call failed, because another run of the    *)
(* job began before it, because nothing was found to fail over to, or at a *)
(* call that always throws.  In particular a table that is already there,  *)
(* or a copy that cannot be deleted yet, does not make a job reject.       *)
RejectsOnlyWithReason ==
  \A r \in Run : run[r].state = "rejected" =>
    \/ failures > 0
    \/ \E q \in Run \ {r} : run[q].state # "idle"
    \/ \E c \in run[r].failed : c.kind \in {"require", "broken"}

(* backup-verifier.ts restores every table into a copy.  When the run is   *)
(* over, a copy is left behind only if its deletion was tried and failed,  *)
(* or was refused because the restore was not finished.                    *)
CopiesAreCleanedUp ==
  \A r \in Run : run[r].state \in {"resolved", "rejected"} =>
    \A i \in Item : <<"copy", i, r>> \in aws =>
      \E c \in run[r].failed : c.kind = "delete" /\ Resource(c, r) = <<"copy", i, r>>

(* The metric of backup-scheduler.ts says success only if this run has     *)
(* backed up every table, and a run that rejects has said failure, unless  *)
(* that could not be published either.  Success and failure are both said  *)
(* only if the answer to publishing success was lost.                      *)
MetricsTellTheOutcome ==
  \A r \in Run :
    LET said(m) == <<m, 0>> \in effects[r]
        failed(m) == Put(m) \in run[r].failed
    IN job = "performDailyBackup" =>
         /\ said("success metric") => \A i \in Item : <<"backup", i>> \in effects[r]
         /\ said("success metric") /\ said("failure metric") => failed("success metric")
         /\ run[r].state = "rejected" => said("failure metric") \/ failed("failure metric")

(* dr-manager.ts switches traffic only after this run has found tables and *)
(* functions in the region of its own clients, and a failover that rejects,*)
(* whose rollback does nothing, has moved traffic only if the answer to    *)
(* the switch was lost.                                                    *)
TrafficMovesOnlyWithReason ==
  \A r \in Run : <<"traffic", 0>> \in effects[r] =>
    /\ \A t \in {"table", "function"} : \E s \in run[r].seen : s[1] = t /\ s[2] = 1
    /\ run[r].state = "rejected" => Put("traffic") \in run[r].failed

(* The error of validateSecondaryRegion names the region of the failover:  *)
(* traffic moves only to one that has tables and functions.                *)
TrafficMovesToConfiguredRegion ==
  \A r \in Run : <<"traffic", 0>> \in effects[r] =>
    {<<"table", 2>>, <<"function", 2>>} \subseteq aws

(* A clean-up always rejects, and nobody waits for its loops.  When they    *)
(* are over all the same, a snapshot or a volume is left only because      *)
(* deleting it, or one before it in its own loop, failed or was refused,   *)
(* or because they could not be listed.                                    *)
LoopsStopOnlyThemselves ==
  \A r \in Run :
    job = "performCleanup" /\ run[r].state = "rejected" /\ StageOver(run[r]) =>
      \A s \in aws : s[1] \in {"snapshot", "volume"} =>
        \E c \in run[r].failed : c.of = s[1] /\ c.item <= s[2]
=============================================================================
