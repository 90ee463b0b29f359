---------------------------- MODULE MCServerCalls ----------------------------
(* LambdaRateLimiter, ManageKeys, CustomMetrics and TaskTimeline for TLC.  *)
(* They share nothing but the services they call, so each is explored      *)
(* while the others stand still.                                           *)
EXTENDS LambdaRateLimiter, TLC

CONSTANTS Invocation, Api, Publication, MaxCalls, MaxTotal,
          Update, Status, Pending, MaxTime, None

VARIABLES part, invocation, keys, audit, metered,
          metrics, publication, cloudwatch, tracked, atRisk, lost, repeated,
          item, replica, now, timeline, update, disturbed

KeyFunction == INSTANCE ManageKeys WITH Request <- Invocation, request <- invocation
Metrics == INSTANCE CustomMetrics WITH made <- tracked
Timeline == INSTANCE TaskTimeline

keyVars == <<invocation, keys, audit, metered>>
metricsVars == <<metrics, publication, cloudwatch, tracked, atRisk, lost, repeated>>
timelineVars == <<item, replica, now, timeline, update, disturbed>>

InitServerCalls ==
  /\ part \in {"limiter", "keys", "metrics", "timeline"}
  /\ Init /\ KeyFunction!Init /\ Metrics!Init /\ Timeline!Init

NextServerCalls ==
  /\ UNCHANGED part
  /\ \/ /\ part = "limiter" /\ Next
        /\ UNCHANGED <<keyVars, metricsVars, timelineVars>>
     \/ /\ part = "keys" /\ KeyFunction!Next
        /\ UNCHANGED <<vars, metricsVars, timelineVars>>
     \/ /\ part = "metrics" /\ Metrics!Next
        /\ UNCHANGED <<vars, keyVars, timelineVars>>
     \/ /\ part = "timeline" /\ Timeline!Next
        /\ UNCHANGED <<vars, keyVars, metricsVars>>

SpecServerCalls ==
  InitServerCalls /\
    [][NextServerCalls]_<<part, vars, keyVars, metricsVars, timelineVars>>

(* The updates make most of the states; the other sets are not worth the  *)
(* time that their permutations take.                                      *)
Symmetry == Permutations(Update)

(* A key that was refused was not stored, one that was stored is on record *)
(* or was not acknowledged: manage-keys.ts.                                *)
AnswersTellWhatHappened == KeyFunction!AnswersTellWhatHappened

(* Calls are missing from CloudWatch and the counters only if they were    *)
(* tracked during a publication or the process ended before they were      *)
(* published, and doubled only by publications that overlapped or were     *)
(* sent again: custom-metrics.ts.                                          *)
CountsAddUp == Metrics!CountsAddUp

(* The timeline of undisturbed updates tells how the item got where it is: *)
(* checklist.ts, analytics.ts.                                             *)
TimelineAddsUp == Timeline!TimelineAddsUp
=============================================================================
