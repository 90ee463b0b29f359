--------------------------- MODULE ProjectChecklist ---------------------------
(***************************************************************************)
(* The project checklist of infrastructure/project/checklist.ts: items in  *)
(* a DynamoDB table, and beside them the DependencyGraph, which one        *)
(* process keeps in memory.  The methods of the class read an item, decide *)
(* and write, with an await in between; a dependency is written to the     *)
(* table first and shown to the graph afterwards.                          *)
(*                                                                         *)
(* checklist.ts closes its class too early, after getCriticalPath; it is   *)
(* read here without that brace.                                           *)
(***************************************************************************)
EXTENDS Naturals, Sequences, FiniteSets, SequencesExt

CONSTANTS
  Task,            \* ids of the items
  Subtask,         \* indices into the subtasks of an item
  Status,          \* the members of ProjectStatus that are explored
  Call,            \* calls of the class that may be in flight together
  Now,             \* Date.now(), in the unit of the graph's durations
  MaxDependencies, \* bound: entries in the dependency lists of the table
  Restarts         \* whether the process may end and be started again

ASSUME TaskAssumption == IsFiniteSet(Task)
ASSUME StatusAssumption ==
  /\ "PENDING" \in Status
  /\ Status \subseteq {"PENDING", "IN_PROGRESS", "COMPLETED", "BLOCKED"}
ASSUME BoundsAssumption == Now \in Nat /\ MaxDependencies \in Nat
ASSUME RestartsAssumption == Restarts \in BOOLEAN

VARIABLES
  stored,          \* the items the table has
  item,            \* their contents
  visible,         \* visible[t]: the subtasks a read of item t may return
  call,            \* local state of each call
  parted,          \* history: <<t, d>> where the table and the graph were
                   \* brought apart by an initialisation, a failure or a restart
  order, dependencies, dependents, timing   \* the DependencyGraph

Graph == INSTANCE DependencyGraph

graph == <<order, dependencies, dependents, timing>>
vars == <<stored, item, visible, call, parted, graph>>

Item == [status : Status, subtasks : [Subtask -> BOOLEAN],
         dependencies : Seq(Task)]

(* stale tells that the subtasks this call read were not the last ones     *)
(* written, or were written by another call since.                         *)
CallState ==
  [pc : {"idle"}]
    \cup [pc : {"addRead", "addWrite", "addGraph"}, task : Task, other : Task]
    \cup [pc : {"statusRead", "statusWrite", "statusWritten"},
          task : Task, status : Status]
    \cup [pc : {"subtaskRead"}, task : Task, index : Subtask, completed : BOOLEAN]
    \cup [pc : {"subtaskWrite", "subtaskWritten"}, task : Task, index : Subtask,
          subtasks : [Subtask -> BOOLEAN], stale : BOOLEAN]

Idle == [pc |-> "idle"]

(* An item as initializeChecklist puts it.  One of the four is put as      *)
(* IN_PROGRESS, which makes no difference to any method.                   *)
Unstarted == [status |-> "PENDING", dependencies |-> <<>>,
              subtasks |-> [i \in Subtask |-> FALSE]]

TypeOK ==
  /\ stored \subseteq Task
  /\ item \in [Task -> Item]
  /\ visible \in [Task -> SUBSET [Subtask -> BOOLEAN]]
  /\ call \in [Call -> CallState]
  /\ parted \in SUBSET (Task \X Task)
  /\ Graph!TypeOK

Init ==
  /\ stored = {}
  /\ item = [t \in Task |-> Unstarted]
  /\ visible = [t \in Task |-> {item[t].subtasks}]
  /\ call = [c \in Call |-> Idle]
  /\ parted = {}
  /\ Graph!Init

-----------------------------------------------------------------------------
Writing(c) == call[c].pc \in {"subtaskWrite", "subtaskWritten"}

(* What the calls know of the subtasks of t is no longer what it has.      *)
Overtaken(t) ==
  [b \in Call |-> IF Writing(b) /\ call[b].task = t
                  THEN [call[b] EXCEPT !.stale = TRUE] ELSE call[b]]

(* initializeChecklist puts its items in no particular order, each of them *)
(* may fail, and the other methods do not wait for it.  It may be run, and *)
(* each put sent, again: the put replaces the whole item, its subtasks and *)
(* its dependencies, which the graph keeps and is still to be told of.     *)
InitializeChecklist(t) ==
  /\ stored' = stored \cup {t}
  /\ item' = [item EXCEPT ![t] = Unstarted]
  /\ visible' = [visible EXCEPT ![t] = @ \cup {Unstarted.subtasks}]
  /\ call' = Overtaken(t)
  /\ parted' = parted
       \cup {<<t, d>> : d \in ToSet(dependencies[t])}
       \cup {<<t, call[c].other>> : c \in {b \in Call : /\ call[b].pc = "addGraph"
                                                      /\ call[b].task = t}}
  /\ UNCHANGED graph

Begin(c, state) ==
  /\ call[c] = Idle
  /\ call' = [call EXCEPT ![c] = state]
  /\ UNCHANGED <<stored, item, visible, parted, graph>>

Continue(c, state) ==
  /\ call' = [call EXCEPT ![c] = state]
  /\ UNCHANGED <<stored, item, visible, parted, graph>>

AddDependency(c, t, d) ==
  Begin(c, [pc |-> "addRead", task |-> t, other |-> d])

(* 'Task or dependency not found'                                          *)
GetItems(c) ==
  /\ call[c].pc = "addRead"
  /\ Continue(c, IF {call[c].task, call[c].other} \subseteq stored
                 THEN [call[c] EXCEPT !.pc = "addWrite"]
                 ELSE Idle)

Entries == FoldFunction(LAMBDA i, sum : Len(i.dependencies) + sum, 0, item)

(* Mutant: the new entry of the list is itself a list.                     *)
StoreDependencyAsList(c) ==
  /\ call[c].pc = "addWrite"
  /\ Entries < MaxDependencies
  /\ item' = [item EXCEPT ![call[c].task].dependencies = Append(@, <<call[c].other>>)]
  /\ call' = [call EXCEPT ![c].pc = "addGraph"]
  /\ UNCHANGED <<stored, visible, parted, graph>>

(* list_append(if_not_exists(dependencies, :empty), :newDep)               *)
StoreDependency(c) ==
  /\ call[c].pc = "addWrite"
  /\ Entries < MaxDependencies
  /\ item' = [item EXCEPT ![call[c].task].dependencies = Append(@, call[c].other)]
  /\ call' = [call EXCEPT ![c].pc = "addGraph"]
  /\ parted' = parted \ {<<call[c].task, call[c].other>>}
  /\ UNCHANGED <<stored, visible, graph>>

(* Mutant: the graph is told while the table has not yet answered.         *)
UpdateGraphFirst(c) ==
  /\ call[c].pc \in {"addWrite", "addGraph"}
  /\ \/ Graph!AddDependency(call[c].task, call[c].other)
     \/ Graph!RejectDependency(call[c].task, call[c].other)
  /\ call' = [call EXCEPT ![c] = Idle]
  /\ UNCHANGED <<stored, item, visible, parted>>

(* The graph takes the dependency or throws; a call whose dependency was   *)
(* taken fails next, on a notification the class does not have.            *)
UpdateGraph(c) ==
  /\ call[c].pc = "addGraph"
  /\ \/ Graph!AddDependency(call[c].task, call[c].other)
     \/ Graph!RejectDependency(call[c].task, call[c].other)
  /\ call' = [call EXCEPT ![c] = Idle]
  /\ UNCHANGED <<stored, item, visible, parted>>

UpdateItemStatus(c, t, status) ==
  Begin(c, [pc |-> "statusRead", task |-> t, status |-> status])

(* getUnfinishedDependencies: dependencies that finish in the future.      *)
UnfinishedDependencies(t) ==
  {d \in ToSet(dependencies[t]) : timing[d].earliestFinish > Now}

(* The item is there, and if it is to be completed nothing stands against  *)
(* it; else 'Item not found', or 'Cannot complete task: ...'.              *)
CheckStatus(c) ==
  LET t == call[c].task IN
  /\ call[c].pc = "statusRead"
  /\ Continue(c, IF /\ t \in stored
                    /\ \/ call[c].status # "COMPLETED"
                       \/ UnfinishedDependencies(t) = {}
                 THEN [call[c] EXCEPT !.pc = "statusWrite"]
                 ELSE Idle)

StoreStatus(c) ==
  /\ call[c].pc = "statusWrite"
  /\ item' = [item EXCEPT ![call[c].task].status = call[c].status]
  /\ call' = [call EXCEPT ![c].pc = "statusWritten"]
  /\ UNCHANGED <<stored, visible, parted, graph>>

UpdateSubtaskStatus(c, t, index, completed) ==
  Begin(c, [pc |-> "subtaskRead", task |-> t, index |-> index,
            completed |-> completed])

(* Mutant: every other subtask is taken for one that was never completed.  *)
ReadSubtasksAsStrings(c) ==
  LET t == call[c].task IN
  /\ call[c].pc = "subtaskRead"
  /\ t \in stored
  /\ \E read \in visible[t] :
       Continue(c, [pc |-> "subtaskWrite", task |-> t, index |-> call[c].index,
                    subtasks |-> [i \in Subtask |-> i = call[c].index
                                                      /\ call[c].completed],
                    stale |-> read # item[t].subtasks])

(* The whole array is computed from the one that was read, which need not  *)
(* be the last one written: getItem does not ask for a consistent read.    *)
ReadSubtasks(c) ==
  LET t == call[c].task IN
  /\ call[c].pc = "subtaskRead"
  /\ t \in stored
  /\ \E read \in visible[t] :
       Continue(c, [pc |-> "subtaskWrite", task |-> t, index |-> call[c].index,
                    subtasks |-> [read EXCEPT ![call[c].index] = call[c].completed],
                    stale |-> read # item[t].subtasks])

StoreSubtasks(c) ==
  LET t == call[c].task IN
  /\ call[c].pc = "subtaskWrite"
  /\ item' = [item EXCEPT ![t].subtasks = call[c].subtasks]
  /\ call' = [Overtaken(t) EXCEPT ![c] = [call[c] EXCEPT !.pc = "subtaskWritten"]]
  /\ visible' = [visible EXCEPT ![t] = @ \cup {call[c].subtasks}]
  /\ UNCHANGED <<stored, parted, graph>>

(* The last write of the subtasks has reached every replica of the table.  *)
Replicate(t) ==
  /\ visible' = [visible EXCEPT ![t] = {item[t].subtasks}]
  /\ UNCHANGED <<stored, item, call, parted, graph>>

(* The notifications and the analytics, whose outcome changes no item.     *)
Notify(c) ==
  /\ call[c].pc \in {"statusWritten", "subtaskWritten"}
  /\ Continue(c, Idle)

(* The answer to a write is lost, and the SDK sends the write again.       *)
Resend(c) ==
  /\ call[c].pc \in {"addGraph", "statusWritten", "subtaskWritten"}
  /\ Continue(c, [call[c] EXCEPT !.pc =
       CASE call[c].pc = "addGraph" -> "addWrite"
         [] call[c].pc = "statusWritten" -> "statusWrite"
         [] call[c].pc = "subtaskWritten" -> "subtaskWrite"])

(* The table rejects a request, or has no item for an id: the method       *)
(* throws.  A read may miss an item that was only just put.                *)
Fail(c) ==
  /\ call[c].pc # "idle"
  /\ call' = [call EXCEPT ![c] = Idle]
  /\ parted' = IF call[c].pc \in {"addWrite", "addGraph"}
               THEN parted \cup {<<call[c].task, call[c].other>>} ELSE parted
  /\ UNCHANGED <<stored, item, visible, graph>>

(* The process ends with all its calls, and another one starts with an     *)
(* empty graph: nothing reads the stored dependencies back.                *)
Restart ==
  /\ Restarts
  /\ call' = [c \in Call |-> Idle]
  /\ order' = <<>>
  /\ dependencies' = [t \in Task |-> <<>>]
  /\ dependents' = [t \in Task |-> <<>>]
  /\ timing' = [t \in Task |-> [earliestStart |-> 0, earliestFinish |-> 0,
                                latestStart |-> 0, latestFinish |-> 0]]
  /\ parted' = {e \in Task \X Task : e[2] \in ToSet(item[e[1]].dependencies)}
  /\ UNCHANGED <<stored, item, visible>>

(* The graph brings its timings up to date, after a scan.                  *)
GetCriticalPath ==
  /\ Graph!CalculateCriticalPath
  /\ UNCHANGED <<stored, item, visible, call, parted>>

Next ==
  \/ \E t \in Task : InitializeChecklist(t) \/ Replicate(t)
  \/ \E c \in Call :
       \/ \E t, d \in Task : AddDependency(c, t, d)
       \/ GetItems(c)
       \/ StoreDependency(c)
       \/ UpdateGraph(c)
       \/ \E t \in Task, status \in Status : UpdateItemStatus(c, t, status)
       \/ CheckStatus(c)
       \/ StoreStatus(c)
       \/ \E t \in Task, i \in Subtask, completed \in BOOLEAN :
            UpdateSubtaskStatus(c, t, i, completed)
       \/ ReadSubtasks(c)
       \/ StoreSubtasks(c)
       \/ Notify(c)
       \/ Resend(c)
       \/ Fail(c)
  \/ Restart
  \/ GetCriticalPath

Spec == Init /\ [][Next]_vars

-----------------------------------------------------------------------------
UnderWay(t, d) ==
  \E c \in Call : /\ call[c].pc \in {"addWrite", "addGraph"}
                 /\ call[c].task = t /\ call[c].other = d

(* The table and the graph have the same dependencies.  Where the table    *)
(* has one that the graph has not, a call is on its way from the one to    *)
(* the other, or the graph refused it for a cycle that it still has; and   *)
(* otherwise they differ only where a call failed between the two, the     *)
(* item was initialised again since or the process was restarted: other    *)
(* calls, writes that are sent twice and refusals bring nothing apart.     *)
TableAndGraphAgree ==
  \A t, d \in Task :
    LET inTable == d \in ToSet(item[t].dependencies)
        inGraph == d \in ToSet(dependencies[t])
    IN \/ inTable = inGraph
       \/ <<t, d>> \in parted
       \/ inTable /\ (UnderWay(t, d) \/ Graph!WillCreateCycle(t, d))

(* The step puts item t again, for no call.                                *)
PutAgain(t) ==
  item'[t] = Unstarted /\ \A c \in Call : call'[c].pc = call[c].pc

(* "updateSubtaskStatus": a subtask that was completed is open again only  *)
(* because a call asked for that, because the call that wrote it had not   *)
(* seen what somebody else wrote before it, or because the checklist was   *)
(* initialised again.                                                      *)
SubtasksReopenOnlyWithReason ==
  [][\A t \in Task, i \in Subtask :
       item[t].subtasks[i] /\ ~ item'[t].subtasks[i] =>
         \/ PutAgain(t)
         \/ \E c \in Call :
              /\ call[c].pc = "subtaskWrite" /\ call[c].task = t
              /\ call[c].stale \/ call[c].index = i]_vars

(* "Check dependencies before marking as complete": a call that has passed *)
(* the check completes no item that waits, as the graph knows, for one     *)
(* that is not complete.                                                   *)
CompletesAfterDependencies ==
  \A c \in Call :
    call[c].pc = "statusWrite" /\ call[c].status = "COMPLETED" =>
      \A d \in ToSet(dependencies[call[c].task]) : item[d].status = "COMPLETED"
=============================================================================
