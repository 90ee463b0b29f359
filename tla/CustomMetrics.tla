----------------------------- MODULE CustomMetrics -----------------------------
(***************************************************************************)
(* CustomMetricsCollector of infrastructure/monitoring/custom-metrics.ts:  *)
(* counters in memory that a cron job publishes every minute and then      *)
(* clears.  The map is read before putMetricData is awaited and cleared    *)
(* after it, whatever was counted meanwhile; the cron does not wait for a  *)
(* publication to end before it starts the next.                           *)
(***************************************************************************)
EXTENDS Naturals

CONSTANTS
  Api,          \* the APIs whose calls are tracked
  Publication,  \* runs of publishMetrics that may overlap
  MaxCalls,     \* bound: calls tracked of one API
  MaxTotal      \* bound: the sums CloudWatch has

VARIABLES
  metrics,      \* this.metrics; a missing key counts as 0
  publication,  \* local state of each run of publishMetrics
  cloudwatch,   \* the sums of what CloudWatch has taken
  made,         \* history: the calls that were tracked
  atRisk,       \* history: those of them tracked during a publication
  lost,         \* history: what the counters held when the process ended
  repeated      \* history: publications overlapped, or one was taken twice

vars == <<metrics, publication, cloudwatch, made, atRisk, lost, repeated>>

(* api_${apiId}_calls, api_${apiId}_success, api_${apiId}_error            *)
Key == Api \X {"calls", "success", "error"}
Zero == [k \in Key |-> 0]
Idle == [pc |-> "idle", metricData |-> Zero]

Init ==
  /\ metrics = Zero /\ cloudwatch = Zero /\ made = Zero
  /\ atRisk = Zero /\ lost = Zero
  /\ publication = [p \in Publication |-> Idle]
  /\ repeated = FALSE

-----------------------------------------------------------------------------
Publishing == {p \in Publication : publication[p] # Idle}

Plus(f, keys) == [k \in Key |-> IF k \in keys THEN f[k] + 1 ELSE f[k]]

(* The response time is sent on its own, and nobody waits for that.        *)
TrackApiUsage(api, success) ==
  LET keys == {<<api, "calls">>, <<api, IF success THEN "success" ELSE "error">>} IN
  /\ made[<<api, "calls">>] < MaxCalls
  /\ metrics' = Plus(metrics, keys)
  /\ made' = Plus(made, keys)
  /\ atRisk' = IF Publishing = {} THEN atRisk ELSE Plus(atRisk, keys)
  /\ UNCHANGED <<publication, cloudwatch, lost, repeated>>

(* if (metricData.length > 0)                                              *)
PublishMetrics(p) ==
  /\ publication[p] = Idle
  /\ metrics # Zero
  /\ publication' = [publication EXCEPT ![p] = [pc |-> "sent", metricData |-> metrics]]
  /\ repeated' = (repeated \/ Publishing # {})
  /\ UNCHANGED <<metrics, cloudwatch, made, atRisk, lost>>

(* CloudWatch takes the data.                                              *)
PutMetricData(p) ==
  /\ publication[p].pc = "sent"
  /\ cloudwatch' = [k \in Key |-> cloudwatch[k] + publication[p].metricData[k]]
  /\ \A k \in Key : cloudwatch'[k] <= MaxTotal
  /\ publication' = [publication EXCEPT ![p].pc = "taken"]
  /\ UNCHANGED <<metrics, made, atRisk, lost, repeated>>

(* this.metrics.clear()                                                    *)
Clear(p) ==
  /\ publication[p].pc = "taken"
  /\ metrics' = Zero
  /\ publication' = [publication EXCEPT ![p] = Idle]
  /\ UNCHANGED <<cloudwatch, made, atRisk, lost, repeated>>

(* Mutant: the counters are cleared in a finally.                          *)
FailAndClear(p) ==
  /\ publication[p] # Idle
  /\ metrics' = Zero
  /\ publication' = [publication EXCEPT ![p] = Idle]
  /\ repeated' = (repeated \/ publication[p].pc = "taken")
  /\ UNCHANGED <<cloudwatch, made, atRisk, lost>>

(* putMetricData is refused, or its answer is lost: nothing is cleared.    *)
Fail(p) ==
  /\ publication[p] # Idle
  /\ publication' = [publication EXCEPT ![p] = Idle]
  /\ repeated' = (repeated \/ publication[p].pc = "taken")
  /\ UNCHANGED <<metrics, cloudwatch, made, atRisk, lost>>

(* The answer is lost, and the SDK sends the data again.                   *)
Resend(p) ==
  /\ publication[p].pc = "taken"
  /\ publication' = [publication EXCEPT ![p].pc = "sent"]
  /\ repeated' = TRUE
  /\ UNCHANGED <<metrics, cloudwatch, made, atRisk, lost>>

(* The process ends, and the map, which is in its memory, with it.         *)
End ==
  /\ metrics # Zero \/ Publishing # {}
  /\ lost' = [k \in Key |-> lost[k] + metrics[k]]
  /\ metrics' = Zero
  /\ publication' = [p \in Publication |-> Idle]
  /\ UNCHANGED <<cloudwatch, made, atRisk, repeated>>

Next ==
  \/ \E api \in Api, success \in BOOLEAN : TrackApiUsage(api, success)
  \/ \E p \in Publication :
       PublishMetrics(p) \/ PutMetricData(p) \/ Clear(p) \/ Fail(p) \/ Resend(p)
  \/ End

Spec == Init /\ [][Next]_vars

-----------------------------------------------------------------------------
(* "publishMetrics": of the calls that were tracked none is missing from   *)
(* CloudWatch and the counters, except some that were tracked while a      *)
(* publication was on its way and those the counters held when the process *)
(* ended; and none is published twice unless two publications overlapped,  *)
(* or one that CloudWatch took was sent again.                             *)
CountsAddUp ==
  \A k \in Key :
    /\ made[k] <= cloudwatch[k] + metrics[k] + atRisk[k] + lost[k]
    /\ cloudwatch[k] <= made[k] \/ repeated
=============================================================================
