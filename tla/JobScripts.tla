------------------------------ MODULE JobScripts ------------------------------
(***************************************************************************)
(* What the jobs of src/infrastructure and of scripts/ await, in order.    *)
(*                                                                         *)
(* A job is a sequence of stages.  A stage is a sequence of branches that  *)
(* run side by side (Promise.all, or the one branch of plain awaits), a    *)
(* branch a sequence of calls that are awaited one after the other.  What  *)
(* a call is told or answers is left out, as are reports that are only     *)
(* logged; a method with an empty body is a "stub".                        *)
(***************************************************************************)
EXTENDS Naturals, Sequences, FiniteSets, SequencesExt

CONSTANT Item      \* a loop runs over these: tables, instances, regions, ...

ASSUME ItemAssumption == IsFiniteSet(Item) /\ Item = 1 .. Cardinality(Item)

-----------------------------------------------------------------------------
(* Calls.  A resource is a kind of thing and an Item, 0 where there is only *)
(* one.  needs are the resources the run must have listed for the call to  *)
(* be made; own says that the call has a try/catch of its own.             *)

Call(kind, of, item, needs) ==
  [kind |-> kind, of |-> of, item |-> item, needs |-> needs, own |-> FALSE]

Read(of) == Call("read", of, 0, {})       \* a query
List(of) == Call("list", of, 0, {})       \* a query whose answer is looped over
Put(of) == Call("put", of, 0, {})         \* a write that may be repeated
Create(of) == Call("create", of, 0, {})   \* refused when the resource exists
Local(of) == Call("local", of, 0, {})     \* a file, a child process
Stub(of) == Call("stub", of, 0, {})       \* an empty method
(* A call that throws, whatever AWS holds: of a method that the class does  *)
(* not have, on undefined, or with parameters that the SDK or the service  *)
(* refuses.  What the code would do behind it is left out.                 *)
Broken(of) == Call("broken", of, 0, {})

Swallowed(c) == [c EXCEPT !.own = TRUE]
(* c is made under a condition on the data, or on the environment.         *)
If(condition, c) == [c EXCEPT !.needs = @ \cup {<<condition, 0>>}]
(* c for item i of a list of the code, or of one the run has asked for.    *)
For(c, i) == [c EXCEPT !.item = i]
Listed(c, type, i) == [c EXCEPT !.item = i, !.needs = @ \cup {<<type, i>>}]

(* A function of the items is a sequence, of a call for each: Item counts   *)
(* from 1.  calls has k calls, or stages, for each.                        *)
Each(k, calls) ==
  [n \in 1 .. k * Cardinality(Item) |->
     calls[((n - 1) \div k) + 1][((n - 1) % k) + 1]]

(* next and catch are how many stages on a stage goes when it is over and    *)
(* when a call of it throws, 0 that it does not catch.                     *)
Stage(branches, next, catch) ==
  [branches |-> branches, next |-> next, catch |-> catch, rethrow |-> {}]
Do(calls) == Stage(<<calls>>, 1, 0)
All(branches) == Stage(branches, 1, 0)
Try(calls, next, catch) == Stage(<<calls>>, next, catch)
(* Throws again what was caught, which is "failed", or "refused" where the *)
(* code can tell that the resource existed.                                *)
Rethrow(caught) ==
  [Stage(<<>>, 1, 0) EXCEPT !.rethrow = {<<c, 0>> : c \in caught}]
-----------------------------------------------------------------------------
(* Backup and recovery.                                                    *)

CreateBackup(i) == For(Put("backup"), i)
BackupAllTables == [i \in Item |-> CreateBackup(i)]

(* Mutant: success is published before the backups are made.               *)
PerformDailyBackupTooEarly ==
  <<Try(<<Put("success metric")>> \o BackupAllTables, 3, 1),
    Do(<<Put("failure metric")>>), Rethrow({"failed", "refused"})>>
(* The catch publishes failure, also when it was publishing success that   *)
(* failed, and throws again.                                               *)
PerformDailyBackup ==
  <<Try(Append(BackupAllTables, Put("success metric")), 3, 1),
    Do(<<Put("failure metric")>>), Rethrow({"failed", "refused"})>>

(* scripts/backup.ts: the error is logged and ends the process.            *)
RunBackup == <<Do(BackupAllTables)>>

PerformRecovery ==
  <<Do(<<Call("restore", "recovered table", 0, {})>>)>>
ValidateRecovery == <<Do(<<Swallowed(Read("recovered table"))>>)>>

Had(c, i) == Listed(c, "table backup", i)
Copy(kind, i) == Had(Call(kind, "copy", i, {}), i)
(* Mutant: the deletion is the last step of the try, not in a finally.     *)
VerifyTableNoFinally(i) ==
  <<Do(<<For(List("table backup"), i)>>),
    Try(<<Copy("restore", i), Had(Read("table"), i), Copy("scan", i),
          Swallowed(Copy("delete", i))>>, 1, 1),
    Do(<<>>)>>
(* Mutant: the deletion has no try/catch of its own.                       *)
VerifyTableNoCatch(i) ==
  <<Do(<<For(List("table backup"), i)>>),
    Try(<<Copy("restore", i), Had(Read("table"), i), Copy("scan", i)>>, 1, 1),
    Do(<<Copy("delete", i)>>)>>
(* One table: skipped without a backup; otherwise restored and compared,   *)
(* an error counting as invalid, and in the end the copy is deleted.       *)
VerifyTable(i) ==
  <<Do(<<For(List("table backup"), i)>>),
    Try(<<Copy("restore", i), Had(Read("table"), i), Copy("scan", i)>>, 1, 1),
    Do(<<Swallowed(Copy("delete", i))>>)>>
VerifyBackups ==
  Each(3, [i \in Item |-> VerifyTable(i)])
    \o <<Do(<<Put("verification report")>>)>>

SetupBackupStrategy ==
  <<Do(<<Create("backup vault"), Create("backup plan"), List("table")>>
       \o [i \in Item |-> Listed(Read("table description"), "table", i)]
       \o <<List("database")>>
       \o [i \in Item |-> Listed(Put("table selection"), "table", i)]
       \o [i \in Item |-> Listed(Put("database selection"), "database", i)]
       \o <<Stub("configureRetentionRules"), Stub("setupCrossRegionCopy")>>)>>

(* A failover has regions for items: 1 is AWS_REGION, the region of both   *)
(* clients, and 2 the targetRegion that traffic is switched to.            *)
Here(c) == For(c, 1)
Require(of) == Call("require", of, 0, {})
(* Mutant: traffic is switched before anything is looked at.               *)
InitiateFailoverUnchecked ==
  <<Try(<<Put("traffic"), Here(List("table")), Here(List("function")),
          Here(Require("table")), Here(Require("function")),
          Stub("verifyFailover")>>, 3, 1),
    Do(<<Stub("rollback")>>), Rethrow({"failed", "refused"})>>
(* validateSecondaryRegion looks for tables and functions in the region of *)
(* its clients, not in the one that traffic is switched to.  The catch     *)
(* rolls back, by an empty method, and throws.                             *)
InitiateFailover ==
  <<Try(<<Here(List("table")), Here(List("function")),
          Here(Require("table")), Here(Require("function")),
          Put("traffic"), Stub("verifyFailover")>>, 3, 1),
    Do(<<Stub("rollback")>>), Rethrow({"failed", "refused"})>>
PerformDrTest ==
  <<Try(<<Stub("validateBackups"), Stub("restoreInRegion"),
          Stub("verifyRestoration")>>, 1, 1),
    Do(<<Stub("cleanupTestResources")>>), Rethrow({"failed", "refused"})>>

(* The health check of a region names one region, where three are the least. *)
SetupFailover ==
  <<Do([i \in Item |-> For(Create("global table"), i)]
       \o <<Put("dns health check"), Broken("region health check")>>)>>
(* A replica of createGlobalTable has no KMSMasterKeyId.                   *)
SetupReplication ==
  <<Do(<<If("KMS key", Broken("KMSMasterKeyId"))>>
       \o [i \in Item |-> For(Create("global table"), i)])>>
VerifyReplication ==
  <<All([i \in Item |-> <<For(Read("table checksum"), i)>>])>>
-----------------------------------------------------------------------------
(* Clean-up, maintenance and security.                                     *)

Loop(type, call(_)) ==
  <<List(type)>> \o [i \in Item |-> Listed(call(type), type, i)]
Delete(type) == Call("delete", type, 0, {})
(* Mutant: one loop after the other.                                       *)
PerformCleanupInTurn ==
  <<Do(Loop("stopped instance", Put) \o Loop("snapshot", Delete)
         \o Loop("volume", Delete) \o <<Broken("describeLogGroups")>>)>>
(* Terminating an instance again is accepted, deleting what has been deleted *)
(* is not.  describeLogGroups is no method of CloudWatch: performCleanup    *)
(* always rejects, while the loops beside it go on.                        *)
PerformCleanup ==
  <<All(<<Loop("stopped instance", Put), Loop("snapshot", Delete),
          Loop("volume", Delete), <<Broken("describeLogGroups")>>,
          <<Stub("cleanupOldMetrics")>> >>)>>

PerformMaintenance ==
  <<All(<< <<Read("instances")>>, <<Read("databases")>>,
           <<List("table")>>
              \o [i \in Item |-> Listed(Stub("optimizeDynamoDBTable"), "table", i)]>>),
    Do(<<Local("maintenance report")>>)>>

ApplyTags ==
  <<All(<< <<List("instance")>>
             \o [i \in Item |-> Listed(Put("tag"), "instance", i)],
           <<List("database")>>
             \o [i \in Item |-> Listed(Put("database tag"), "database", i)],
           <<List("table")>>
             \o Each(2, [i \in Item |-> <<Listed(Read("table description"), "table", i),
                                              Listed(Put("table tag"), "table", i)>>]) >>),
    Do(<<Stub("verifyTags")>>)>>

(* Neither class has the method that it calls first.                       *)
PerformSecurityScan == <<Do(<<Broken("enableSecurityServices")>>)>>
RunComplianceChecks == <<Do(<<Broken("checkMFAEnabled")>>)>>
(* scripts/security-scan.ts: three tools; an error ends the process.       *)
RunSecurityScan ==
  <<Do(<<Local("npm audit"), Local("dependency-check"), Local("sonar-scanner")>>)>>
-----------------------------------------------------------------------------
(* Changes, cost and capacity.                                             *)

(* lookupEvents takes one attribute, and is given three.                   *)
TrackChanges == <<Do(<<Broken("trail events")>>)>>

(* Above a daily cost, every table is switched to on-demand.  The average  *)
(* is taken over all days, also those whose costs name no DynamoDB.        *)
AnalyzeCosts ==
  LET Optimized(c) == If("DynamoDB is expensive", c)
  IN <<Do(<<Read("costs"), If("a day without DynamoDB", Broken("day.Metrics")),
            Optimized(List("table"))>>
          \o [i \in Item |-> Optimized(Listed(Put("table capacity"), "table", i))])>>
AllocateCosts == <<Do(<<Read("costs"), Put("cost allocation")>>)>>
GenerateForecast == <<Do(<<Read("costs"), Read("cost forecast")>>)>>
PlanCapacity == <<Do(<<Read("usage metrics"), Put("capacity plan")>>)>>
-----------------------------------------------------------------------------
(* Monitoring and reporting.                                               *)

(* The item that is put lacks apiId, the partition key of its table.       *)
AggregateMetrics ==
  <<All(<< <<Read("api metrics")>>, <<Read("infrastructure metrics")>>,
           <<Read("performance metrics")>> >>),
    Do(<<Broken("aggregated metrics")>>)>>
AnalyzeUsage ==
  <<Do(<<Read("compute usage"), Stub("analyzeStorageUsage"),
         Stub("analyzeNetworkUsage"), Stub("analyzeDatabaseUsage"),
         Put("usage analytics")>>)>>
(* The report is on disk before the alarm is set, which has no Statistic.  *)
AnalyzeTrends ==
  <<Do(<<Read("performance metrics"), Local("trend report"),
         If("latency is degrading", Broken("degradation alarm"))>>)>>
CollectInventory ==
  <<Do(<<Read("instances"), Read("databases"), List("table")>>),
    All([i \in Item |-> <<Listed(Read("table description"), "table", i)>>]),
    Do(<<Read("functions"), Read("buckets"), Local("inventory report")>>)>>
(* Each endpoint has a try/catch that counts it as unhealthy.  The query   *)
(* for errors has its StartTime and EndTime in the wrong place.            *)
RunTests ==
  <<Do(<<Read("stack"), Stub("validateStackResources")>>),
    All([i \in Item |-> <<For(Swallowed(Read("endpoint")), i)>>]),
    Do(<<Broken("error metrics")>>)>>
GenerateDocs ==
  <<Do(<<Local("docs directory"), List("stack")>>
       \o [i \in Item |-> Listed(Read("stack resources"), "stack", i)]
       \o <<Local("README.md"), Local("architecture.dot")>>)>>
(* loadBenchmarks writes the defaults when it cannot read the baseline.    *)
GenerateReport ==
  <<Try(<<Local("baseline")>>, 2, 1), Do(<<Local("default baseline")>>),
    Do(<<Put("performance report")>>)>>
(* generateReport takes result.requests, an object, for an array, before   *)
(* it writes anything.                                                     *)
PerformanceTest ==
  <<Do(<<Local("autocannon"), Broken("result.requests.map")>>)>>
(* Both cron jobs, daily and weekly: an error is only logged.              *)
RunDailyPerformanceTest == <<Do(<<Swallowed(Local("performance:test"))>>)>>
RunWeeklyLoadTest ==
  <<Do(<<Swallowed(Local("performance:test --connections 500"))>>)>>
-----------------------------------------------------------------------------
(* Set-up of alarms, dashboards, logs and machines.                        *)

(* The alarms of both lists have no Statistic: the first one is refused.   *)
CreateAlerts == <<Do(<<Broken("alarm")>>)>>
SetupPerformanceAlerts == <<Do(<<Broken("performance alarm")>>)>>
CreateDashboard == <<Do(<<Put("dashboard")>>)>>
CreateApiDashboard == <<Do(<<Put("api dashboard")>>)>>
CreatePerformanceDashboard == <<Do(<<Put("performance dashboard")>>)>>
CreateHealthDashboard == <<Do(<<Put("health dashboard")>>)>>
(* putRule is no method of CloudWatch.                                     *)
SetupContinuousTests ==
  <<Do(<<Create("test function"), Broken("putRule")>>)>>
(* CPUUtilization is no predefined metric of a scaling policy.             *)
SetupAutoScaling ==
  <<Do(<<Create("scaling group"), Broken("scaling policy")>>)>>
(* Creating a load balancer or target group again, with the same settings, *)
(* answers with the one there is; a HTTPS listener needs a certificate.    *)
SetupLoadBalancer ==
  <<Do(<<Put("load balancer"), Put("target group"), Broken("listener")>>)>>
(* An existing table is expected, and any other error only logged.         *)
CreateTables ==
  <<Do([i \in Item |-> For(Swallowed(Create("table")), i)])>>
(* scripts/deploy.ts: an existing stack is updated instead.                *)
Deploy ==
  <<Do(<<Local("template")>>), Try(<<Create("stack")>>, 3, 1),
    Do(<<If("refused", Put("stack update"))>>), Rethrow({"failed"})>>
-----------------------------------------------------------------------------
(* Every job, by the name of its method or command.                        *)
Script ==
  [performDailyBackup |-> PerformDailyBackup,
   runBackup |-> RunBackup,
   performRecovery |-> PerformRecovery,
   validateRecovery |-> ValidateRecovery,
   verifyBackups |-> VerifyBackups,
   setupBackupStrategy |-> SetupBackupStrategy,
   initiateFailover |-> InitiateFailover,
   performDrTest |-> PerformDrTest,
   setupFailover |-> SetupFailover,
   setupReplication |-> SetupReplication,
   verifyReplication |-> VerifyReplication,
   performCleanup |-> PerformCleanup,
   performMaintenance |-> PerformMaintenance,
   applyTags |-> ApplyTags,
   performSecurityScan |-> PerformSecurityScan,
   runComplianceChecks |-> RunComplianceChecks,
   runSecurityScan |-> RunSecurityScan,
   trackChanges |-> TrackChanges,
   analyzeCosts |-> AnalyzeCosts,
   allocateCosts |-> AllocateCosts,
   generateForecast |-> GenerateForecast,
   planCapacity |-> PlanCapacity,
   aggregateMetrics |-> AggregateMetrics,
   analyzeUsage |-> AnalyzeUsage,
   analyzeTrends |-> AnalyzeTrends,
   collectInventory |-> CollectInventory,
   runTests |-> RunTests,
   generateDocs |-> GenerateDocs,
   generateReport |-> GenerateReport,
   performanceTest |-> PerformanceTest,
   runDailyPerformanceTest |-> RunDailyPerformanceTest,
   runWeeklyLoadTest |-> RunWeeklyLoadTest,
   createAlerts |-> CreateAlerts,
   setupPerformanceAlerts |-> SetupPerformanceAlerts,
   createDashboard |-> CreateDashboard,
   createApiDashboard |-> CreateApiDashboard,
   createPerformanceDashboard |-> CreatePerformanceDashboard,
   createHealthDashboard |-> CreateHealthDashboard,
   setupContinuousTests |-> SetupContinuousTests,
   setupAutoScaling |-> SetupAutoScaling,
   setupLoadBalancer |-> SetupLoadBalancer,
   createTables |-> CreateTables,
   deploy |-> Deploy]
=============================================================================
