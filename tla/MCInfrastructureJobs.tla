------------------------- MODULE MCInfrastructureJobs -------------------------
(* InfrastructureJobs for TLC.                                             *)
EXTENDS InfrastructureJobs

MCItem == 1 .. 2

(* One run of every job, in which two calls fail or its process ends.  Two *)
(* runs of the jobs that meet in something created or deleted once fail    *)
(* only by each other; the runs of other jobs do not touch each other.     *)
MCScenario ==
  LET Of(jobs, items, runs, most) ==
        {[job |-> j, items |-> I, runs |-> runs, failures |-> most] :
           j \in jobs, I \in SUBSET items}
      Meeting == {"setupBackupStrategy", "setupFailover", "setupReplication",
        "setupContinuousTests", "setupAutoScaling", "createTables", "deploy",
        "performRecovery", "performCleanup"}
  IN Of(DOMAIN Script, MCItem, {1}, 2)
       \cup Of(Meeting, MCItem, {1, 2}, 0)
=============================================================================
