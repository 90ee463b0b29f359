----------------------------- MODULE TaskTimeline -----------------------------
(***************************************************************************)
(* What updateItemStatus of infrastructure/project/checklist.ts leaves of  *)
(* a change of status: the item, and in TaskAnalytics of analytics.ts a    *)
(* metric and an event of the item's timeline, whose key is the time in    *)
(* milliseconds.  One item; the check of its dependencies, which refuses   *)
(* nothing, is ProjectChecklist's.                                         *)
(***************************************************************************)
EXTENDS Naturals

CONSTANTS
  Update,   \* calls of updateItemStatus
  Status,   \* the statuses of the item
  Pending,  \* the one it has first
  MaxTime,  \* bound: the clock
  None      \* no event, no update

VARIABLES
  item,       \* the status of the item
  replica,    \* what a read may return while replicas lag
  now,        \* Date.now()
  timeline,   \* timeline[t]: the event of millisecond t
  update,     \* local state of each call
  disturbed   \* history: something happened that may break the timeline

vars == <<item, replica, now, timeline, update, disturbed>>

Idle == [pc |-> "idle"]

Init ==
  /\ item = Pending /\ replica = Pending
  /\ now = 0
  /\ timeline = [t \in 0 .. MaxTime |-> None]
  /\ update = [u \in Update |-> Idle]
  /\ disturbed = FALSE

-----------------------------------------------------------------------------
InFlight(u) == update[u].pc \notin {"idle", "done", "failed"}

UpdateItemStatus(u, status) ==
  /\ update[u] = Idle
  /\ update' = [update EXCEPT ![u] =
       [pc |-> "read", status |-> status, oldStatus |-> status, timestamp |-> None]]
  /\ disturbed' = (disturbed \/ \E v \in Update : InFlight(v))
  /\ UNCHANGED <<item, replica, now, timeline>>

(* getItem, which does not ask for a consistent read                       *)
Read(u) ==
  /\ update[u].pc = "read"
  /\ \E read \in {item, replica} :
       /\ update' = [update EXCEPT ![u].pc = "write", ![u].oldStatus = read]
       /\ disturbed' = (disturbed \/ read # item)
  /\ UNCHANGED <<item, replica, now, timeline>>

Write(u) ==
  /\ update[u].pc = "write"
  /\ item' = update[u].status
  /\ update' = [update EXCEPT ![u].pc = "metric"]
  /\ UNCHANGED <<replica, now, timeline, disturbed>>

(* trackStatusChange: the metric is in, the event gets its timestamp.      *)
TrackStatusChange(u) ==
  /\ update[u].pc = "metric"
  /\ update' = [update EXCEPT ![u].pc = "event", ![u].timestamp = now]
  /\ UNCHANGED <<item, replica, now, timeline, disturbed>>

(* Mutant: the two statuses are handed over in the wrong order.            *)
RecordTimelineEventSwapped(u) ==
  LET s == update[u] IN
  /\ s.pc = "event"
  /\ timeline' = [timeline EXCEPT ![s.timestamp] =
       [oldStatus |-> s.status, newStatus |-> s.oldStatus, update |-> u]]
  /\ update' = [update EXCEPT ![u].pc = "recorded"]
  /\ UNCHANGED <<item, replica, now, disturbed>>

(* recordTimelineEvent: a put, which replaces an event of the same time.   *)
RecordTimelineEvent(u) ==
  LET s == update[u] IN
  /\ s.pc = "event"
  /\ timeline' = [timeline EXCEPT ![s.timestamp] =
       [oldStatus |-> s.oldStatus, newStatus |-> s.status, update |-> u]]
  /\ update' = [update EXCEPT ![u].pc = "recorded"]
  /\ UNCHANGED <<item, replica, now, disturbed>>

Acknowledge(u) ==
  /\ update[u].pc = "recorded"
  /\ update' = [update EXCEPT ![u].pc = "done"]
  /\ UNCHANGED <<item, replica, now, timeline, disturbed>>

(* The answer to a write is lost, and the SDK sends it again.              *)
Resend(u) ==
  /\ update[u].pc \in {"metric", "recorded"}
  /\ update' = [update EXCEPT ![u].pc = IF @ = "metric" THEN "write" ELSE "event"]
  /\ UNCHANGED <<item, replica, now, timeline, disturbed>>

(* A request is refused, or the process ends.                              *)
Fail(u) ==
  /\ InFlight(u)
  /\ update' = [update EXCEPT ![u].pc = "failed"]
  /\ disturbed' = (disturbed \/ update[u].pc \in {"write", "metric", "event"})
  /\ UNCHANGED <<item, replica, now, timeline>>

(* initializeChecklist puts the whole item, run again or sent again, and    *)
(* with it the first status: the timeline, in a table of its own, stays.   *)
InitializeChecklist ==
  /\ item' = Pending
  /\ disturbed' = (disturbed \/ item # Pending)
  /\ UNCHANGED <<replica, now, timeline, update>>

Replicate ==
  /\ replica' = item
  /\ UNCHANGED <<item, now, timeline, update, disturbed>>

Tick ==
  /\ now < MaxTime
  /\ now' = now + 1
  /\ UNCHANGED <<item, replica, timeline, update, disturbed>>

Next ==
  \/ \E u \in Update :
       \/ \E status \in Status : UpdateItemStatus(u, status)
       \/ Read(u) \/ Write(u) \/ TrackStatusChange(u) \/ RecordTimelineEvent(u)
       \/ Acknowledge(u) \/ Resend(u) \/ Fail(u)
  \/ InitializeChecklist
  \/ Replicate
  \/ Tick

Spec == Init /\ [][Next]_vars

-----------------------------------------------------------------------------
Events == {t \in 0 .. MaxTime : timeline[t] # None}
Dated == {u \in Update : update[u] # Idle /\ update[u].timestamp # None}
Collided(u) == \E v \in Dated \ {u} : update[v].timestamp = update[u].timestamp

(* "getTaskTimeline": a change that was acknowledged is in the timeline    *)
(* unless another fell into its millisecond; and as long as no two updates *)
(* overlapped, none failed half-way and none read a replica that lagged,   *)
(* and the item was not initialised again, the timeline tells, step by     *)
(* step, how the item got from PENDING to the status that it has.          *)
TimelineAddsUp ==
  LET quiet == ~ disturbed /\ (\A u \in Update : ~ InFlight(u))
                 /\ (\A u \in Dated : ~ Collided(u))
      Before(t) == {e \in Events : e < t}
      Last(E) == CHOOSE e \in E : \A d \in E : d <= e
      StatusAfter(E) == IF E = {} THEN Pending ELSE timeline[Last(E)].newStatus
  IN /\ \A u \in Update : update[u].pc = "done" =>
          Collided(u) \/ timeline[update[u].timestamp].update = u
     /\ quiet => /\ \A t \in Events : timeline[t].oldStatus = StatusAfter(Before(t))
                 /\ item = StatusAfter(Events)
=============================================================================
