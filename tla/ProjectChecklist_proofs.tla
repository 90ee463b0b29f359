----------------------- MODULE ProjectChecklist_proofs -----------------------
(***************************************************************************)
(* The table and the in-memory graph of the checklist agree but where a    *)
(* failure, a restart or an initialisation has parted them, for any number *)
(* of items, subtasks and calls: the table is written first, the graph is  *)
(* told what was written, and what it refuses would have closed a cycle.   *)
(***************************************************************************)
EXTENDS ProjectChecklist, TLAPS

(* What has to be known of the variables: the calls that add a dependency  *)
(* hold two ids, and the lists are lists of ids.                           *)
Typed ==
  /\ item \in [Task -> Item]
  /\ call \in [Call -> CallState]
  /\ visible \in [Task -> SUBSET [Subtask -> BOOLEAN]]
  /\ parted \in SUBSET (Task \X Task)
  /\ dependencies \in [Task -> Seq(Task)]

InTable(t, d) == d \in ToSet(item[t].dependencies)
InGraph(t, d) == d \in ToSet(dependencies[t])

(* A call that is about to tell the graph has told the table, and what it  *)
(* told is there unless the item was initialised again.                    *)
Told ==
  \A c \in Call :
    call[c].pc = "addGraph" =>
      \/ InTable(call[c].task, call[c].other)
      \/ <<call[c].task, call[c].other>> \in parted

AgreeOn(t, d) ==
  \/ InTable(t, d) /\ InGraph(t, d)
  \/ ~ InTable(t, d) /\ ~ InGraph(t, d)
  \/ <<t, d>> \in parted
  \/ InTable(t, d) /\ (UnderWay(t, d) \/ Graph!WillCreateCycle(t, d))

Agree == \A t, d \in Task : AgreeOn(t, d)

IInv == Typed /\ Told /\ Agree

LEMMA AppendedSet ==
  ASSUME NEW S, NEW s \in Seq(S), NEW e \in S
  PROVE  /\ Append(s, e) \in Seq(S)
         /\ ToSet(Append(s, e)) = ToSet(s) \cup {e}
<1>1. /\ Append(s, e) \in Seq(S)
      /\ Len(Append(s, e)) = Len(s) + 1
      /\ \A i \in 1 .. Len(s) : Append(s, e)[i] = s[i]
      /\ Append(s, e)[Len(s) + 1] = e
      /\ Len(s) \in Nat
  OBVIOUS
<1>2. \A x : x \in ToSet(Append(s, e)) => x \in ToSet(s) \cup {e}
  BY <1>1 DEF ToSet
<1>3. \A x \in ToSet(s) : x \in ToSet(Append(s, e))
  BY <1>1 DEF ToSet
<1>4. e \in ToSet(Append(s, e))
  BY <1>1 DEF ToSet
<1> QED BY <1>1, <1>2, <1>3, <1>4

(* A graph that only gains dependencies keeps its paths: what would have   *)
(* closed a cycle still would.                                             *)
LEMMA CyclesStay ==
  ASSUME NEW t \in Task, NEW d \in Task, Graph!WillCreateCycle(t, d),
         \A u \in Task : ToSet(dependencies[u]) \subseteq ToSet(dependencies'[u])
  PROVE  Graph!WillCreateCycle(t, d)'
<1> SUFFICES ASSUME NEW S \in SUBSET Task, d \in S,
                    \A u \in S : ToSet(dependencies'[u]) \subseteq S
             PROVE  t \in S
  BY DEF Graph!WillCreateCycle, Graph!Reaches, Graph!ClosedUnderDependencies,
         Graph!ToSet, ToSet
<1>1. \A u \in S : ToSet(dependencies[u]) \subseteq S
  OBVIOUS
<1> QED
  BY <1>1 DEF Graph!WillCreateCycle, Graph!Reaches, Graph!ClosedUnderDependencies,
              Graph!ToSet, ToSet

(* A step that leaves the lists and the graph alone: each call on its way  *)
(* from the table to the graph stays on it, or is known to have failed.    *)
LEMMA Harmless ==
  ASSUME IInv, Typed', parted \subseteq parted',
         \A d \in Call : call'[d].pc = "addGraph" => call'[d] = call[d],
         \A d \in Call :
           call[d].pc \in {"addWrite", "addGraph"} =>
             \/ /\ call'[d].pc \in {"addWrite", "addGraph"}
                /\ call'[d].task = call[d].task /\ call'[d].other = call[d].other
             \/ <<call[d].task, call[d].other>> \in parted',
         \A t \in Task : item'[t].dependencies = item[t].dependencies,
         UNCHANGED dependencies
  PROVE  IInv'
<1>1. ASSUME NEW d \in Call, call'[d].pc = "addGraph"
      PROVE  call[d].task \in Task /\ call'[d] = call[d]
  BY <1>1 DEF IInv, Typed, CallState
<1>2. Told'
  BY <1>1 DEF IInv, Told, InTable
<1>3. ASSUME NEW t \in Task, NEW d \in Task PROVE AgreeOn(t, d)'
  <2>1. InTable(t, d)' <=> InTable(t, d)
    BY DEF InTable
  <2>2. InGraph(t, d)' <=> InGraph(t, d)
    BY DEF InGraph
  <2>3. UnderWay(t, d) => UnderWay(t, d)' \/ <<t, d>> \in parted'
    BY DEF UnderWay
  <2>4. Graph!WillCreateCycle(t, d) => Graph!WillCreateCycle(t, d)'
    BY CyclesStay
  <2>5. AgreeOn(t, d)
    BY DEF IInv, Agree
  <2> QED BY <2>1, <2>2, <2>3, <2>4, <2>5 DEF AgreeOn
<1> QED BY <1>2, <1>3 DEF IInv, Agree

(* The steps of a call that write nothing: it becomes idle, or a call of   *)
(* which the lists need not know.                                          *)
LEMMA ContinuesHarmlessly ==
  ASSUME IInv, NEW c \in Call, NEW s \in CallState, s.pc # "addGraph",
         call[c].pc \in {"addWrite", "addGraph"} =>
           s.pc = "addWrite" /\ s.task = call[c].task /\ s.other = call[c].other,
         call' = [call EXCEPT ![c] = s],
         UNCHANGED <<item, visible, parted, dependencies>>
  PROVE  IInv'
<1>1. Typed'
  BY DEF IInv, Typed
<1>2. \A d \in Call : d # c => call'[d] = call[d]
  BY DEF IInv, Typed
<1>3. call'[c] = s
  BY DEF IInv, Typed
<1> QED BY <1>1, <1>2, <1>3, Harmless

(* A call that fails on the way is known to have parted the two.           *)
LEMMA FailsHarmlessly ==
  ASSUME IInv, NEW c \in Call, Fail(c) PROVE IInv'
<1>1. /\ call' = [call EXCEPT ![c] = Idle]
      /\ parted' = IF call[c].pc \in {"addWrite", "addGraph"}
                   THEN parted \cup {<<call[c].task, call[c].other>>} ELSE parted
      /\ UNCHANGED <<item, visible, dependencies>>
  BY DEF Fail, graph
<1>2. Idle \in CallState /\ Idle.pc = "idle"
  BY DEF Idle, CallState
<1>3. call[c].pc \in {"addWrite", "addGraph"} =>
        call[c].task \in Task /\ call[c].other \in Task
  BY DEF IInv, Typed, CallState
<1>4. Typed'
  BY <1>1, <1>2, <1>3 DEF IInv, Typed
<1>5. \A d \in Call : d # c => call'[d] = call[d]
  BY <1>1 DEF IInv, Typed
<1>6. call'[c] = Idle
  BY <1>1 DEF IInv, Typed
<1>7. parted \subseteq parted'
  BY <1>1
<1>8. call[c].pc \in {"addWrite", "addGraph"} =>
        <<call[c].task, call[c].other>> \in parted'
  BY <1>1
<1> QED BY <1>1, <1>2, <1>4, <1>5, <1>6, <1>7, <1>8, Harmless

LEMMA StoresDependency ==
  ASSUME IInv, NEW c \in Call, StoreDependency(c) PROVE IInv'
<1>0. call[c].task \in Task /\ call[c].other \in Task
  BY DEF IInv, Typed, CallState, StoreDependency
<1> PICK t \in Task, o \in Task : t = call[c].task /\ o = call[c].other
  BY <1>0
<1>1. item[t] \in Item /\ item[t].dependencies \in Seq(Task)
  BY DEF IInv, Typed, Item
<1>2. /\ Append(item[t].dependencies, o) \in Seq(Task)
      /\ ToSet(Append(item[t].dependencies, o)) = ToSet(item[t].dependencies) \cup {o}
  BY <1>1, AppendedSet
<1>3. item' = [item EXCEPT ![t].dependencies = Append(item[t].dependencies, o)]
  BY DEF StoreDependency
<1>4. call' = [call EXCEPT ![c].pc = "addGraph"] /\ call[c].pc = "addWrite"
  BY DEF StoreDependency
<1>5. /\ UNCHANGED <<visible, dependencies>>
      /\ parted' = parted \ {<<t, o>>}
  BY DEF StoreDependency, graph
<1>6. item' \in [Task -> Item]
  BY <1>1, <1>2, <1>3 DEF IInv, Typed, Item
<1>7. call[c] \in [pc : {"addRead", "addWrite", "addGraph"}, task : Task, other : Task]
  BY <1>4 DEF IInv, Typed, CallState
<1>8. call'[c] = [pc |-> "addGraph", task |-> t, other |-> o]
  BY <1>4, <1>7 DEF IInv, Typed
<1>9. call' \in [Call -> CallState]
  BY <1>1, <1>4, <1>8 DEF IInv, Typed, CallState
<1>10. Typed'
  BY <1>5, <1>6, <1>9 DEF IInv, Typed
<1>11. ASSUME NEW u \in Task, NEW x \in Task
       PROVE  InTable(u, x)' <=> InTable(u, x) \/ (u = t /\ x = o)
  <2>1. CASE u = t
    <3>1. item'[u].dependencies = Append(item[t].dependencies, o)
      BY <2>1, <1>1, <1>3 DEF IInv, Typed, Item
    <3> QED BY <3>1, <2>1, <1>2 DEF InTable
  <2>2. CASE u # t
    BY <2>2, <1>3 DEF IInv, Typed, InTable
  <2> QED BY <2>1, <2>2
<1>12. \A d \in Call : d # c => call'[d] = call[d]
  BY <1>4 DEF IInv, Typed
<1>13. ASSUME NEW d \in Call, call'[d].pc = "addGraph"
       PROVE  \/ call'[d].other \in ToSet(item'[call'[d].task].dependencies)
              \/ <<call'[d].task, call'[d].other>> \in parted'
  <2>1. CASE d = c
    <3>1. InTable(t, o)'
      BY <1>11
    <3> QED BY <3>1, <2>1, <1>8 DEF InTable
  <2>2. CASE d # c
    <3>1. call'[d] = call[d] /\ call[d].pc = "addGraph"
      BY <2>2, <1>12, <1>13
    <3>2. call[d].task \in Task /\ call[d].other \in Task
      BY <3>1 DEF IInv, Typed, CallState
    <3> PICK u \in Task, x \in Task : u = call[d].task /\ x = call[d].other
      BY <3>2
    <3>3. InTable(u, x) \/ <<u, x>> \in parted
      BY <3>1 DEF IInv, Told, InTable
    <3>4. InTable(u, x)' \/ <<u, x>> \in parted'
      BY <3>3, <1>5, <1>11
    <3> QED BY <3>1, <3>4 DEF InTable
  <2> QED BY <2>1, <2>2
<1>15. Told'
  BY <1>13 DEF Told, InTable
<1>16. ASSUME NEW u \in Task, NEW x \in Task PROVE AgreeOn(u, x)'
  <2>1. CASE u = t /\ x = o
    <3>1. UnderWay(u, x)'
      BY <2>1, <1>8 DEF UnderWay
    <3> QED BY <2>1, <3>1, <1>11 DEF AgreeOn
  <2>2. CASE ~ (u = t /\ x = o)
    <3>1. InTable(u, x)' <=> InTable(u, x)
      BY <2>2, <1>11
    <3>2. InGraph(u, x)' <=> InGraph(u, x)
      BY <1>5 DEF InGraph
    <3>3. <<u, x>> \in parted => <<u, x>> \in parted'
      BY <2>2, <1>5
    <3>4. UnderWay(u, x) => UnderWay(u, x)'
      BY <1>8, <1>12 DEF UnderWay
    <3>5. Graph!WillCreateCycle(u, x) => Graph!WillCreateCycle(u, x)'
      BY <1>5, CyclesStay
    <3>6. AgreeOn(u, x)
      BY DEF IInv, Agree
    <3> QED BY <3>1, <3>2, <3>3, <3>4, <3>5, <3>6 DEF AgreeOn
  <2> QED BY <2>1, <2>2
<1> QED BY <1>10, <1>15, <1>16 DEF IInv, Agree

LEMMA UpdatesGraph ==
  ASSUME IInv, NEW c \in Call, UpdateGraph(c) PROVE IInv'
<1>0. call[c].task \in Task /\ call[c].other \in Task
  BY DEF IInv, Typed, CallState, UpdateGraph
<1> PICK t \in Task, o \in Task : t = call[c].task /\ o = call[c].other
  BY <1>0
<1>1. dependencies[t] \in Seq(Task)
  BY DEF IInv, Typed
<1>2. InTable(t, o) \/ <<t, o>> \in parted
  BY DEF IInv, Told, UpdateGraph, InTable
<1>3. /\ Append(dependencies[t], o) \in Seq(Task)
      /\ ToSet(Append(dependencies[t], o)) = ToSet(dependencies[t]) \cup {o}
  BY <1>1, AppendedSet
<1>4. \/ dependencies' = [dependencies EXCEPT ![t] = Append(dependencies[t], o)]
      \/ dependencies' = dependencies /\ Graph!WillCreateCycle(t, o)
  BY DEF UpdateGraph, Graph!AddDependency, Graph!RejectDependency
<1>5. /\ call' = [call EXCEPT ![c] = Idle] /\ call[c].pc = "addGraph"
      /\ UNCHANGED <<item, visible, parted>>
  BY DEF UpdateGraph
<1>6. \A d \in Call : d # c => call'[d] = call[d]
  BY <1>5 DEF IInv, Typed
<1>7. Typed'
  <2>1. dependencies' \in [Task -> Seq(Task)]
    BY <1>3, <1>4 DEF IInv, Typed
  <2>2. call' \in [Call -> CallState]
    <3>1. Idle \in CallState
      BY DEF CallState, Idle
    <3> QED BY <1>5, <3>1 DEF IInv, Typed
  <2> QED BY <2>1, <2>2, <1>5 DEF IInv, Typed
<1>8. Told'
  <2>1. call'[c].pc = "idle"
    BY <1>5 DEF IInv, Typed, Idle
  <2> QED BY <2>1, <1>5, <1>6 DEF IInv, Told, InTable
<1>9. ASSUME NEW u \in Task
      PROVE  /\ ToSet(dependencies[u]) \subseteq ToSet(dependencies'[u])
             /\ \A x \in Task : ~ (u = t /\ x = o) =>
                  (x \in ToSet(dependencies'[u]) <=> x \in ToSet(dependencies[u]))
  <2>1. CASE u # t \/ dependencies' = dependencies
    <3>1. dependencies'[u] = dependencies[u]
      BY <2>1, <1>4 DEF IInv, Typed
    <3> QED BY <3>1
  <2>2. CASE u = t /\ dependencies' # dependencies
    <3>1. dependencies'[u] = Append(dependencies[t], o)
      BY <2>2, <1>1, <1>4 DEF IInv, Typed
    <3> QED BY <3>1, <2>2, <1>3
  <2> QED BY <2>1, <2>2
<1>10. \A u, x \in Task :
         Graph!WillCreateCycle(u, x) => Graph!WillCreateCycle(u, x)'
  BY <1>9, CyclesStay
<1>11. AgreeOn(t, o)'
  <2>1. CASE <<t, o>> \in parted
    BY <2>1, <1>5 DEF AgreeOn
  <2>2. CASE InTable(t, o) /\ dependencies' = dependencies /\ Graph!WillCreateCycle(t, o)
    <3>1. InTable(t, o)' /\ Graph!WillCreateCycle(t, o)'
      BY <2>2, <1>1, <1>5, <1>10 DEF InTable
    <3> QED BY <3>1 DEF AgreeOn
  <2>3. CASE InTable(t, o) /\ dependencies' = [dependencies EXCEPT
                                  ![t] = Append(dependencies[t], o)]
    <3>1. dependencies'[t] = Append(dependencies[t], o)
      BY <2>3, <1>1 DEF IInv, Typed
    <3>2. InTable(t, o)' /\ InGraph(t, o)'
      BY <3>1, <2>3, <1>3, <1>5 DEF InTable, InGraph
    <3> QED BY <3>2 DEF AgreeOn
  <2> QED BY <2>1, <2>2, <2>3, <1>2, <1>4
<1>12. ASSUME NEW u \in Task, NEW x \in Task, ~ (u = t /\ x = o)
       PROVE  AgreeOn(u, x)'
  <2>1. InTable(u, x)' <=> InTable(u, x)
    BY <1>5 DEF InTable
  <2>2. InGraph(u, x)' <=> InGraph(u, x)
    BY <1>9, <1>12 DEF InGraph
  <2>3. UnderWay(u, x) => UnderWay(u, x)'
    BY <1>6, <1>12 DEF UnderWay
  <2>4. AgreeOn(u, x)
    BY DEF IInv, Agree
  <2> QED BY <2>1, <2>2, <2>3, <2>4, <1>5, <1>10 DEF AgreeOn
<1>13. Agree'
  BY <1>11, <1>12 DEF Agree
<1> QED BY <1>7, <1>8, <1>13 DEF IInv

LEMMA StoresStatus ==
  ASSUME IInv, NEW c \in Call, StoreStatus(c) PROVE IInv'
<1> DEFINE t == call[c].task
<1>1. /\ call[c] \in [pc : {"statusRead", "statusWrite", "statusWritten"},
                     task : Task, status : Status]
      /\ item[t] \in Item /\ call[c].pc = "statusWrite"
  BY DEF IInv, Typed, CallState, StoreStatus
<1>2. /\ item' = [item EXCEPT ![t].status = call[c].status]
      /\ call' = [call EXCEPT ![c].pc = "statusWritten"]
      /\ UNCHANGED <<visible, parted, dependencies>>
  BY DEF StoreStatus, graph
<1>3. item' \in [Task -> Item]
  BY <1>1, <1>2 DEF IInv, Typed, Item
<1>4. /\ call'[c] \in CallState /\ call'[c].pc = "statusWritten"
      /\ \A d \in Call : d # c => call'[d] = call[d]
  BY <1>1, <1>2 DEF IInv, Typed, CallState
<1>5. call' \in [Call -> CallState]
  BY <1>2, <1>4 DEF IInv, Typed
<1>6. \A u \in Task : item'[u].dependencies = item[u].dependencies
  BY <1>1, <1>2 DEF IInv, Typed, Item
<1>7. Typed'
  BY <1>2, <1>3, <1>5 DEF IInv, Typed
<1> QED BY <1>1, <1>2, <1>4, <1>6, <1>7, Harmless

(* What a write of the subtasks of t makes of the calls that hold them.    *)
LEMMA OvertakenCalls ==
  ASSUME IInv, NEW t, NEW d \in Call
  PROVE  /\ Overtaken(t)[d] \in CallState
         /\ Overtaken(t)[d].pc = call[d].pc
         /\ ~ Writing(d) => Overtaken(t)[d] = call[d]
<1> DEFINE Writer == [pc : {"subtaskWrite", "subtaskWritten"}, task : Task,
                      index : Subtask, subtasks : [Subtask -> BOOLEAN],
                      stale : BOOLEAN]
<1>1. CASE Writing(d) /\ call[d].task = t
  <2>1. Overtaken(t)[d] = [call[d] EXCEPT !.stale = TRUE]
    BY <1>1 DEF Overtaken
  <2>2. call[d] \in Writer
    BY <1>1 DEF Writing, IInv, Typed, CallState
  <2>3. Overtaken(t)[d] \in Writer /\ Overtaken(t)[d].pc = call[d].pc
    BY <2>1, <2>2
  <2> QED BY <2>3, <1>1 DEF CallState
<1>2. CASE ~ (Writing(d) /\ call[d].task = t)
  <2>1. Overtaken(t)[d] = call[d]
    BY <1>2 DEF Overtaken
  <2> QED BY <2>1 DEF IInv, Typed
<1> QED BY <1>1, <1>2

LEMMA StoresSubtasks ==
  ASSUME IInv, NEW c \in Call, StoreSubtasks(c) PROVE IInv'
<1> DEFINE t == call[c].task
           Writer == [pc : {"subtaskWrite", "subtaskWritten"}, task : Task,
                      index : Subtask, subtasks : [Subtask -> BOOLEAN],
                      stale : BOOLEAN]
           written == [call[c] EXCEPT !.pc = "subtaskWritten"]
<1>1. call[c] \in Writer /\ item[t] \in Item /\ call[c].pc = "subtaskWrite"
  BY DEF IInv, Typed, CallState, StoreSubtasks
<1>2. /\ item' = [item EXCEPT ![t].subtasks = call[c].subtasks]
      /\ visible' = [visible EXCEPT ![t] = @ \cup {call[c].subtasks}]
      /\ call' = [Overtaken(t) EXCEPT ![c] = written]
      /\ UNCHANGED <<parted, dependencies>>
  BY DEF StoreSubtasks, graph
<1>3. item' \in [Task -> Item] /\ visible' \in [Task -> SUBSET [Subtask -> BOOLEAN]]
  BY <1>1, <1>2 DEF IInv, Typed, Item
<1>4. written \in CallState /\ written.pc = "subtaskWritten"
  BY <1>1 DEF CallState
<1>5. /\ call'[c] = written
      /\ \A d \in Call : d # c => call'[d] = Overtaken(t)[d]
      /\ DOMAIN call' = Call
  <2> HIDE DEF written
  <2> QED BY <1>2 DEF Overtaken
<1>6. call' \in [Call -> CallState]
  <2>1. \A d \in Call : call'[d] \in CallState
    BY <1>4, <1>5, OvertakenCalls
  <2>2. call' = [d \in Call |-> call'[d]]
    <3> HIDE DEF written
    <3> QED BY <1>2 DEF Overtaken
  <2> QED BY <2>1, <2>2
<1>7. \A u \in Task : item'[u].dependencies = item[u].dependencies
  BY <1>1, <1>2 DEF IInv, Typed, Item
<1>8. Typed'
  BY <1>2, <1>3, <1>6 DEF IInv, Typed
<1>9. \A d \in Call :
        call'[d].pc \in {"addGraph"} \/ call[d].pc \in {"addWrite", "addGraph"} =>
          call'[d] = call[d]
  BY <1>1, <1>4, <1>5, OvertakenCalls DEF Writing
<1> QED BY <1>2, <1>7, <1>8, <1>9, Harmless

(* The item loses its dependencies: where the graph has one, or is still   *)
(* to be told of one, the two are parted.                                  *)
LEMMA InitializesItem ==
  ASSUME IInv, NEW t \in Task, InitializeChecklist(t) PROVE IInv'
<1>1. /\ item' = [item EXCEPT ![t] = Unstarted]
      /\ visible' = [visible EXCEPT ![t] = @ \cup {Unstarted.subtasks}]
      /\ call' = Overtaken(t)
      /\ UNCHANGED dependencies
  BY DEF InitializeChecklist, graph
<1>2. /\ parted \subseteq parted'
      /\ \A d \in ToSet(dependencies[t]) : <<t, d>> \in parted'
      /\ \A c \in Call : call[c].pc = "addGraph" /\ call[c].task = t =>
           <<t, call[c].other>> \in parted'
  BY DEF InitializeChecklist
<1>3. Unstarted \in Item /\ Unstarted.subtasks \in [Subtask -> BOOLEAN]
      /\ Unstarted.dependencies = <<>>
  BY StatusAssumption DEF Unstarted, Item
<1>4. ToSet(dependencies[t]) \subseteq Task
  BY DEF IInv, Typed, ToSet
<1>5. \A c \in Call : call[c].pc = "addGraph" => call[c].other \in Task
  BY DEF IInv, Typed, CallState
<1>6. parted' \in SUBSET (Task \X Task)
  BY <1>4, <1>5 DEF InitializeChecklist, IInv, Typed
<1>7. call' \in [Call -> CallState]
  <2>1. \A d \in Call : call'[d] \in CallState
    BY <1>1, OvertakenCalls
  <2>2. call' = [d \in Call |-> call'[d]]
    BY <1>1 DEF Overtaken
  <2> QED BY <2>1, <2>2
<1>8. Typed'
  BY <1>1, <1>3, <1>6, <1>7 DEF IInv, Typed
<1>9. \A d \in Call :
        call'[d].pc = "addGraph" \/ call[d].pc \in {"addWrite", "addGraph"} =>
          call'[d] = call[d]
  BY <1>1, OvertakenCalls DEF Writing
<1>10. /\ item'[t].dependencies = <<>>
       /\ \A u \in Task : u # t => item'[u] = item[u]
  BY <1>1, <1>3 DEF IInv, Typed
<1>11. \A d : ~ InTable(t, d)'
  BY <1>10 DEF InTable, ToSet
<1>12. ASSUME NEW d \in Call, call'[d].pc = "addGraph"
       PROVE  \/ call'[d].other \in ToSet(item'[call'[d].task].dependencies)
              \/ <<call'[d].task, call'[d].other>> \in parted'
  <2>1. call'[d] = call[d] /\ call[d].task \in Task
    BY <1>9, <1>12 DEF IInv, Typed, CallState
  <2>2. CASE call[d].task = t
    BY <2>1, <2>2, <1>2, <1>12
  <2>3. CASE call[d].task # t
    BY <2>1, <2>3, <1>2, <1>10, <1>12 DEF IInv, Told, InTable
  <2> QED BY <2>2, <2>3
<1>13. Told'
  BY <1>12 DEF Told, InTable
<1>14. ASSUME NEW u \in Task, NEW d \in Task PROVE AgreeOn(u, d)'
  <2>1. InGraph(u, d)' <=> InGraph(u, d)
    BY <1>1 DEF InGraph
  <2>2. CASE u = t
    <3>1. InGraph(u, d) => <<u, d>> \in parted'
      BY <2>2, <1>2 DEF InGraph
    <3> QED BY <2>1, <2>2, <3>1, <1>11 DEF AgreeOn
  <2>3. CASE u # t
    <3>1. InTable(u, d)' <=> InTable(u, d)
      BY <2>3, <1>10 DEF InTable
    <3>2. UnderWay(u, d) => UnderWay(u, d)'
      BY <1>9 DEF UnderWay
    <3>3. Graph!WillCreateCycle(u, d) => Graph!WillCreateCycle(u, d)'
      BY <1>1, CyclesStay
    <3>4. AgreeOn(u, d)
      BY DEF IInv, Agree
    <3> QED BY <2>1, <3>1, <3>2, <3>3, <3>4, <1>2 DEF AgreeOn
  <2> QED BY <2>2, <2>3
<1> QED BY <1>8, <1>13, <1>14 DEF IInv, Agree

(* Only Restart takes dependencies from the graph, and it takes them all.  *)
LEMMA RestartEmptiesGraph ==
  ASSUME IInv, Restart PROVE IInv'
<1>1. /\ call' = [c \in Call |-> Idle]
      /\ dependencies' = [t \in Task |-> <<>>]
      /\ parted' = {e \in Task \X Task : InTable(e[1], e[2])}
      /\ UNCHANGED <<item, visible>>
  BY DEF Restart, InTable
<1>2. Idle \in CallState /\ Idle.pc # "addGraph"
  BY DEF CallState, Idle
<1>3. Typed'
  BY <1>1, <1>2 DEF IInv, Typed
<1>4. ToSet(<<>>) = {}
  BY DEF ToSet
<1>5. ASSUME NEW t \in Task, NEW d \in Task PROVE AgreeOn(t, d)'
  <2>1. ~ InGraph(t, d)'
    BY <1>1, <1>4 DEF InGraph
  <2>2. InTable(t, d)' => <<t, d>> \in parted'
    BY <1>1 DEF InTable
  <2> QED BY <2>1, <2>2 DEF AgreeOn
<1>6. Told'
  BY <1>1, <1>2 DEF Told
<1> QED BY <1>3, <1>5, <1>6 DEF IInv, Agree

(* The three shapes of call that are taken further step by step.           *)
AddCall ==
  [pc : {"addRead", "addWrite", "addGraph"}, task : Task, other : Task]
StatusCall ==
  [pc : {"statusRead", "statusWrite", "statusWritten"}, task : Task,
   status : Status]
WriterCall ==
  [pc : {"subtaskWrite", "subtaskWritten"}, task : Task, index : Subtask,
   subtasks : [Subtask -> BOOLEAN], stale : BOOLEAN]

LEMMA CallShapes ==
  ASSUME IInv, NEW c \in Call
  PROVE  /\ call[c].pc \in {"addRead", "addWrite", "addGraph"} =>
              call[c] \in AddCall
         /\ call[c].pc \in {"statusRead", "statusWrite", "statusWritten"} =>
              call[c] \in StatusCall
         /\ call[c].pc \in {"subtaskWrite", "subtaskWritten"} =>
              call[c] \in WriterCall
         /\ AddCall \cup StatusCall \cup WriterCall \subseteq CallState
BY DEF IInv, Typed, CallState, AddCall, StatusCall, WriterCall

(* A call that starts, reads, is done or is sent again writes nothing.     *)
LEMMA BeginsAndReads ==
  ASSUME IInv, NEW c \in Call,
         \/ \E t, d \in Task : AddDependency(c, t, d)
         \/ \E t \in Task, status \in Status : UpdateItemStatus(c, t, status)
         \/ \E t \in Task, i \in Subtask, completed \in BOOLEAN :
              UpdateSubtaskStatus(c, t, i, completed)
         \/ GetItems(c) \/ CheckStatus(c) \/ ReadSubtasks(c)
         \/ Notify(c) \/ Resend(c)
  PROVE  IInv'
<1> DEFINE OnItsWay == call[c].pc \in {"addWrite", "addGraph"}
<1>a. ASSUME NEW s \in CallState, s.pc # "addGraph", ~ OnItsWay,
             Begin(c, s) \/ Continue(c, s)
      PROVE  IInv'
  BY <1>a, ContinuesHarmlessly DEF Begin, Continue, graph
<1>b. ASSUME NEW s \in CallState, Begin(c, s) PROVE ~ OnItsWay
  BY <1>b DEF Begin, Idle
<1>0. Idle \in CallState /\ Idle.pc # "addGraph"
  BY DEF Idle, CallState
<1>1. ASSUME NEW t \in Task, NEW d \in Task, AddDependency(c, t, d) PROVE IInv'
  <2> DEFINE s == [pc |-> "addRead", task |-> t, other |-> d]
  <2>1. s \in CallState /\ s.pc # "addGraph"
    BY DEF CallState
  <2>2. Begin(c, s)
    BY <1>1 DEF AddDependency
  <2> HIDE DEF s
  <2> QED BY <2>1, <2>2, <1>a, <1>b
<1>2. ASSUME NEW t \in Task, NEW status \in Status, UpdateItemStatus(c, t, status)
      PROVE  IInv'
  <2> DEFINE s == [pc |-> "statusRead", task |-> t, status |-> status]
  <2>1. s \in CallState /\ s.pc # "addGraph"
    BY DEF CallState
  <2>2. Begin(c, s)
    BY <1>2 DEF UpdateItemStatus
  <2> HIDE DEF s
  <2> QED BY <2>1, <2>2, <1>a, <1>b
<1>3. ASSUME NEW t \in Task, NEW i \in Subtask, NEW completed \in BOOLEAN,
             UpdateSubtaskStatus(c, t, i, completed)
      PROVE  IInv'
  <2> DEFINE s == [pc |-> "subtaskRead", task |-> t, index |-> i,
                   completed |-> completed]
  <2>1. s \in CallState /\ s.pc # "addGraph"
    BY DEF CallState
  <2>2. Begin(c, s)
    BY <1>3 DEF UpdateSubtaskStatus
  <2> HIDE DEF s
  <2> QED BY <2>1, <2>2, <1>a, <1>b
<1>4. CASE GetItems(c)
  <2> DEFINE s == [call[c] EXCEPT !.pc = "addWrite"]
  <2>1. call[c] \in AddCall /\ ~ OnItsWay
    BY <1>4, CallShapes DEF GetItems
  <2>2. s \in CallState /\ s.pc # "addGraph"
    BY <2>1, CallShapes DEF AddCall
  <2>3. Continue(c, s) \/ Continue(c, Idle)
    BY <1>4 DEF GetItems
  <2> HIDE DEF s
  <2> QED BY <1>0, <1>a, <2>1, <2>2, <2>3
<1>5. CASE CheckStatus(c)
  <2> DEFINE s == [call[c] EXCEPT !.pc = "statusWrite"]
  <2>1. call[c] \in StatusCall /\ ~ OnItsWay
    BY <1>5, CallShapes DEF CheckStatus
  <2>2. s \in CallState /\ s.pc # "addGraph"
    BY <2>1, CallShapes DEF StatusCall
  <2>3. Continue(c, s) \/ Continue(c, Idle)
    BY <1>5 DEF CheckStatus
  <2> HIDE DEF s
  <2> QED BY <1>0, <1>a, <2>1, <2>2, <2>3
<1>6. CASE ReadSubtasks(c)
  <2> DEFINE t == call[c].task
             S(read) == [pc |-> "subtaskWrite", task |-> t, index |-> call[c].index,
                         subtasks |-> [read EXCEPT ![call[c].index] = call[c].completed],
                         stale |-> read # item[t].subtasks]
  <2>1. /\ t \in Task /\ call[c].index \in Subtask
        /\ call[c].completed \in BOOLEAN
        /\ visible[t] \in SUBSET [Subtask -> BOOLEAN]
    BY <1>6 DEF ReadSubtasks, IInv, Typed, CallState
  <2>2. PICK read \in visible[t] : Continue(c, S(read))
    BY <1>6 DEF ReadSubtasks
  <2>3. S(read) \in CallState
    BY <2>1 DEF CallState
  <2>4. S(read).pc # "addGraph" /\ ~ OnItsWay
    BY <1>6 DEF ReadSubtasks
  <2> HIDE DEF S
  <2> QED BY <1>a, <2>2, <2>3, <2>4
<1>7. CASE Notify(c)
  BY <1>7, <1>0, <1>a DEF Notify
<1>8. CASE Resend(c)
  <2>2. CASE call[c].pc = "addGraph"
    <3> DEFINE s == [call[c] EXCEPT !.pc = "addWrite"]
    <3>1. call[c] \in AddCall
      BY <2>2, CallShapes
    <3>2. /\ s \in AddCall /\ s.pc = "addWrite"
          /\ s.task = call[c].task /\ s.other = call[c].other
      BY <3>1 DEF AddCall
    <3>3. Continue(c, s)
      BY <1>8, <2>2 DEF Resend
    <3>4. s \in CallState
      BY <3>2, CallShapes
    <3> HIDE DEF s
    <3> QED BY <3>2, <3>3, <3>4, ContinuesHarmlessly DEF Continue, graph
  <2>3. CASE call[c].pc = "statusWritten"
    <3> DEFINE s == [call[c] EXCEPT !.pc = "statusWrite"]
    <3>1. call[c] \in StatusCall
      BY <2>3, CallShapes
    <3>2. s \in StatusCall /\ s.pc # "addGraph"
      BY <3>1 DEF StatusCall
    <3>3. Continue(c, s)
      BY <1>8, <2>3 DEF Resend
    <3>4. s \in CallState
      BY <3>2, CallShapes
    <3> HIDE DEF s
    <3> QED BY <2>3, <3>2, <3>3, <3>4, <1>a
  <2>4. CASE call[c].pc = "subtaskWritten"
    <3> DEFINE s == [call[c] EXCEPT !.pc = "subtaskWrite"]
    <3>1. call[c] \in WriterCall
      BY <2>4, CallShapes
    <3>2. s \in WriterCall /\ s.pc # "addGraph"
      BY <3>1 DEF WriterCall
    <3>3. Continue(c, s)
      BY <1>8, <2>4 DEF Resend
    <3>4. s \in CallState
      BY <3>2, CallShapes
    <3> HIDE DEF s
    <3> QED BY <2>4, <3>2, <3>3, <3>4, <1>a
  <2> QED BY <1>8, <2>2, <2>3, <2>4 DEF Resend
<1> QED BY <1>1, <1>2, <1>3, <1>4, <1>5, <1>6, <1>7, <1>8

LEMMA Inductive == Spec => []IInv
<1>1. Init => IInv
  <2> SUFFICES ASSUME Init PROVE IInv
    OBVIOUS
  <2>1. /\ item = [t \in Task |-> Unstarted]
        /\ visible = [t \in Task |-> {item[t].subtasks}]
        /\ call = [c \in Call |-> Idle]
        /\ parted = {}
        /\ dependencies = [t \in Task |-> <<>>]
    BY DEF Init, Graph!Init
  <2>2. Unstarted \in Item /\ Unstarted.dependencies = <<>>
    BY StatusAssumption DEF Item, Unstarted
  <2>3. visible \in [Task -> SUBSET [Subtask -> BOOLEAN]]
    BY <2>1, <2>2 DEF Item
  <2>4. Idle \in CallState /\ Idle.pc # "addGraph"
    BY DEF Idle, CallState
  <2>5. Typed
    <3>1. dependencies \in [Task -> Seq(Task)]
      BY <2>1
    <3>2. call \in [Call -> CallState]
      BY <2>1, <2>4
    <3> QED BY <2>1, <2>2, <2>3, <3>1, <3>2 DEF Typed
  <2>6. Told
    BY <2>1, <2>4 DEF Told
  <2>7. ASSUME NEW t \in Task, NEW d \in Task PROVE AgreeOn(t, d)
    BY <2>1, <2>2 DEF AgreeOn, InTable, InGraph, ToSet
  <2> QED BY <2>5, <2>6, <2>7 DEF IInv, Agree
<1>2. IInv /\ [Next]_vars => IInv'
  <2> SUFFICES ASSUME IInv, [Next]_vars PROVE IInv'
    OBVIOUS
  <2>1. ASSUME NEW t \in Task, Replicate(t) PROVE IInv'
    <3>1. item[t].subtasks \in [Subtask -> BOOLEAN]
      BY DEF IInv, Typed, Item
    <3>2. UNCHANGED <<item, call, parted, dependencies>>
      BY <2>1 DEF Replicate, graph
    <3>3. Typed'
      BY <2>1, <3>1, <3>2 DEF Replicate, IInv, Typed
    <3> QED BY <3>2, <3>3, Harmless
  <2>2. CASE GetCriticalPath \/ UNCHANGED vars
    <3>1. UNCHANGED <<item, visible, call, parted, dependencies>>
      BY <2>2 DEF GetCriticalPath, Graph!CalculateCriticalPath, vars, graph
    <3>2. Typed'
      BY <3>1 DEF IInv, Typed
    <3> QED BY <3>1, <3>2, Harmless
  <2> QED
    BY <2>1, <2>2, BeginsAndReads, FailsHarmlessly, StoresDependency, UpdatesGraph,
       StoresStatus, StoresSubtasks, InitializesItem, RestartEmptiesGraph
    DEF Next
<1> QED BY <1>1, <1>2, PTL DEF Spec

(* addDependency, initializeChecklist: the table and the graph have the    *)
(* same dependencies, whatever calls are in flight.  A dependency that is  *)
(* only in the table is on its way to the graph or was refused for a cycle *)
(* the graph still has; else a call failed between the two, the item was   *)
(* initialised again or the process restarted.                             *)
THEOREM TableAndGraphStayTogether == Spec => []TableAndGraphAgree
<1>1. IInv => TableAndGraphAgree
  <2> SUFFICES ASSUME Agree, NEW t \in Task, NEW d \in Task
               PROVE  LET inTable == InTable(t, d)
                          inGraph == InGraph(t, d)
                      IN \/ inTable = inGraph
                         \/ <<t, d>> \in parted
                         \/ inTable /\ (UnderWay(t, d) \/ Graph!WillCreateCycle(t, d))
    BY DEF IInv, TableAndGraphAgree, InTable, InGraph
  <2>1. AgreeOn(t, d) /\ InTable(t, d) \in BOOLEAN /\ InGraph(t, d) \in BOOLEAN
    BY DEF Agree, InTable, InGraph
  <2> QED BY <2>1 DEF AgreeOn
<1> QED BY <1>1, Inductive, PTL

-----------------------------------------------------------------------------
(* A call that is about to write the subtasks of an item, and to whose     *)
(* knowledge nobody has written them since it read, holds them as they     *)
(* are, but for the one it was asked to change.                            *)
WritersSawTheRest ==
  \A c \in Call :
    Writing(c) /\ call[c].stale = FALSE =>
      \A i \in Subtask :
        i # call[c].index => call[c].subtasks[i] = item[call[c].task].subtasks[i]

Fits(s) ==
  s.pc \in {"subtaskWrite", "subtaskWritten"} /\ s.stale = FALSE =>
    \A i \in Subtask : i # s.index => s.subtasks[i] = item[s.task].subtasks[i]

(* A step in which one call moves on, and no subtask is written.           *)
LEMMA KeepsTheRest ==
  ASSUME IInv, WritersSawTheRest, NEW c \in Call, NEW s, Fits(s),
         s.pc \in {"subtaskWrite", "subtaskWritten"} => s.task \in Task,
         call' = [call EXCEPT ![c] = s],
         \A t \in Task : item'[t].subtasks = item[t].subtasks
  PROVE  WritersSawTheRest'
<1> SUFFICES ASSUME NEW d \in Call,
                    call'[d].pc \in {"subtaskWrite", "subtaskWritten"},
                    call'[d].stale = FALSE,
                    NEW i \in Subtask, i # call'[d].index
             PROVE  call'[d].subtasks[i] = item'[call'[d].task].subtasks[i]
  BY DEF WritersSawTheRest, Writing
<1>1. call'[d] = IF d = c THEN s ELSE call[d]
  BY DEF IInv, Typed
<1>2. CASE d = c
  BY <1>1, <1>2 DEF Fits
<1>3. CASE d # c
  <2>1. call'[d] = call[d] /\ call[d].task \in Task
    BY <1>1, <1>3, CallShapes DEF WriterCall
  <2>2. call[d].subtasks[i] = item[call[d].task].subtasks[i]
    BY <2>1 DEF WritersSawTheRest, Writing
  <2> QED BY <2>1, <2>2
<1> QED BY <1>2, <1>3

(* What is read is not stale only if it is what the item holds.            *)
LEMMA ReadsTheRest ==
  ASSUME IInv, WritersSawTheRest, NEW c \in Call, ReadSubtasks(c)
  PROVE  WritersSawTheRest'
<1> DEFINE t == call[c].task
           S(read) == [pc |-> "subtaskWrite", task |-> t, index |-> call[c].index,
                       subtasks |-> [read EXCEPT ![call[c].index] = call[c].completed],
                       stale |-> read # item[t].subtasks]
<1>1. /\ t \in Task /\ visible[t] \in SUBSET [Subtask -> BOOLEAN]
  BY DEF ReadSubtasks, IInv, Typed, CallState
<1>2. PICK read \in visible[t] : Continue(c, S(read))
  BY DEF ReadSubtasks
<1>3. read \in [Subtask -> BOOLEAN]
  BY <1>1
<1>4. S(read).task \in Task
  BY <1>1
<1>5. Fits(S(read))
  BY <1>3 DEF Fits
<1>6. call' = [call EXCEPT ![c] = S(read)] /\ UNCHANGED item
  BY <1>2 DEF Continue
<1> HIDE DEF S
<1> QED BY <1>4, <1>5, <1>6, KeepsTheRest

(* A call that holds subtasks and is not stale after a write of t is as it *)
(* was, and holds those of another item.                                   *)
LEMMA NotOvertaken ==
  ASSUME IInv, NEW t, NEW d \in Call,
         Overtaken(t)[d].pc \in {"subtaskWrite", "subtaskWritten"},
         Overtaken(t)[d].stale = FALSE
  PROVE  /\ Overtaken(t)[d] = call[d] /\ Writing(d)
         /\ call[d].task \in Task /\ call[d].task # t
<1>1. Writing(d)
  BY OvertakenCalls DEF Writing
<1>2. call[d] \in WriterCall
  BY <1>1, CallShapes DEF Writing
<1>3. call[d].task # t
  <2> SUFFICES ASSUME call[d].task = t PROVE FALSE
    OBVIOUS
  <2>1. Overtaken(t)[d] = [call[d] EXCEPT !.stale = TRUE]
    BY <1>1 DEF Overtaken
  <2>2. Overtaken(t)[d].stale = TRUE
    BY <2>1, <1>2 DEF WriterCall
  <2> QED BY <2>2
<1>4. Overtaken(t)[d] = call[d]
  BY <1>3 DEF Overtaken
<1> QED BY <1>1, <1>2, <1>3, <1>4 DEF WriterCall

(* A write makes every other call on the same item stale.                  *)
LEMMA WritesTheRest ==
  ASSUME IInv, WritersSawTheRest, NEW c \in Call, StoreSubtasks(c)
  PROVE  WritersSawTheRest'
<1> DEFINE t == call[c].task
           written == [call[c] EXCEPT !.pc = "subtaskWritten"]
<1>1. /\ call[c] \in WriterCall /\ t \in Task /\ call[c].pc = "subtaskWrite"
      /\ item[t] \in Item
  BY CallShapes DEF StoreSubtasks, WriterCall, IInv, Typed
<1>2. \A u \in Task :
        item'[u].subtasks = IF u = t THEN call[c].subtasks ELSE item[u].subtasks
  BY <1>1 DEF StoreSubtasks, IInv, Typed, Item
<1>3. /\ call'[c] = written
      /\ \A d \in Call : d # c => call'[d] = Overtaken(t)[d]
  <2>1. call' = [Overtaken(t) EXCEPT ![c] = written]
    BY DEF StoreSubtasks
  <2> HIDE DEF written
  <2> QED BY <2>1 DEF Overtaken
<1> SUFFICES ASSUME NEW d \in Call,
                    call'[d].pc \in {"subtaskWrite", "subtaskWritten"},
                    call'[d].stale = FALSE,
                    NEW i \in Subtask, i # call'[d].index
             PROVE  call'[d].subtasks[i] = item'[call'[d].task].subtasks[i]
  BY DEF WritersSawTheRest, Writing
<1>4. CASE d = c
  <2>1. call'[d].subtasks = call[c].subtasks /\ call'[d].task = t
    BY <1>1, <1>3, <1>4 DEF WriterCall
  <2> QED BY <2>1, <1>1, <1>2
<1>5. CASE d # c
  <2>1. call'[d] = Overtaken(t)[d]
    BY <1>3, <1>5
  <2>2. /\ call'[d] = call[d] /\ Writing(d)
        /\ call[d].task \in Task /\ call[d].task # t
    <3>1. /\ Overtaken(t)[d].pc \in {"subtaskWrite", "subtaskWritten"}
          /\ Overtaken(t)[d].stale = FALSE
      BY <2>1
    <3> HIDE DEF t
    <3>2. /\ Overtaken(t)[d] = call[d] /\ Writing(d)
          /\ call[d].task \in Task /\ call[d].task # t
      BY <3>1, NotOvertaken
    <3> QED BY <2>1, <3>2
  <2>3. call[d].subtasks[i] = item[call[d].task].subtasks[i]
    BY <2>2 DEF WritersSawTheRest
  <2> QED BY <2>2, <2>3, <1>2
<1> QED BY <1>4, <1>5

(* An item that is put again makes every call that writes its subtasks     *)
(* stale too.                                                              *)
LEMMA InitializesTheRest ==
  ASSUME IInv, WritersSawTheRest, NEW t \in Task, InitializeChecklist(t)
  PROVE  WritersSawTheRest'
<1> SUFFICES ASSUME NEW d \in Call,
                    call'[d].pc \in {"subtaskWrite", "subtaskWritten"},
                    call'[d].stale = FALSE,
                    NEW i \in Subtask, i # call'[d].index
             PROVE  call'[d].subtasks[i] = item'[call'[d].task].subtasks[i]
  BY DEF WritersSawTheRest, Writing
<1>1. call'[d] = Overtaken(t)[d]
  BY DEF InitializeChecklist
<1>2. /\ call'[d] = call[d] /\ Writing(d)
      /\ call[d].task \in Task /\ call[d].task # t
  <2>1. /\ Overtaken(t)[d].pc \in {"subtaskWrite", "subtaskWritten"}
        /\ Overtaken(t)[d].stale = FALSE
    BY <1>1
  <2>2. /\ Overtaken(t)[d] = call[d] /\ Writing(d)
        /\ call[d].task \in Task /\ call[d].task # t
    BY <2>1, NotOvertaken
  <2> QED BY <1>1, <2>2
<1>3. call[d].subtasks[i] = item[call[d].task].subtasks[i]
  BY <1>2 DEF WritersSawTheRest
<1>4. item'[call[d].task] = item[call[d].task]
  BY <1>2 DEF InitializeChecklist, IInv, Typed
<1> QED BY <1>2, <1>3, <1>4

(* Of the other steps, some end a call or start one that writes no         *)
(* subtasks, and one sends a write again as it was.                        *)
LEMMA OthersKeepTheRest ==
  ASSUME IInv, WritersSawTheRest, NEW c \in Call,
         \/ \E t, d \in Task : AddDependency(c, t, d)
         \/ \E t \in Task, status \in Status : UpdateItemStatus(c, t, status)
         \/ \E t \in Task, i \in Subtask, completed \in BOOLEAN :
              UpdateSubtaskStatus(c, t, i, completed)
         \/ GetItems(c) \/ StoreDependency(c) \/ UpdateGraph(c)
         \/ CheckStatus(c) \/ StoreStatus(c)
         \/ Notify(c) \/ Resend(c) \/ Fail(c)
  PROVE  WritersSawTheRest'
<1> DEFINE Other(s) == s.pc \notin {"subtaskWrite", "subtaskWritten"}
<1>0. ASSUME NEW s, Other(s), call' = [call EXCEPT ![c] = s],
             \A t \in Task : item'[t].subtasks = item[t].subtasks
      PROVE  WritersSawTheRest'
  BY <1>0, KeepsTheRest DEF Fits
<1>i. Other(Idle)
  BY DEF Idle
<1> HIDE DEF Other
<1>1. ASSUME NEW t \in Task, NEW d \in Task, AddDependency(c, t, d)
      PROVE  WritersSawTheRest'
  <2> DEFINE s == [pc |-> "addRead", task |-> t, other |-> d]
  <2>1. call' = [call EXCEPT ![c] = s] /\ UNCHANGED item
    BY <1>1 DEF AddDependency, Begin
  <2>2. Other(s)
    BY DEF Other
  <2> QED BY <1>0, <2>1, <2>2
<1>2. ASSUME NEW t \in Task, NEW status \in Status, UpdateItemStatus(c, t, status)
      PROVE  WritersSawTheRest'
  <2> DEFINE s == [pc |-> "statusRead", task |-> t, status |-> status]
  <2>1. call' = [call EXCEPT ![c] = s] /\ UNCHANGED item
    BY <1>2 DEF UpdateItemStatus, Begin
  <2>2. Other(s)
    BY DEF Other
  <2> QED BY <1>0, <2>1, <2>2
<1>3. ASSUME NEW t \in Task, NEW i \in Subtask, NEW completed \in BOOLEAN,
             UpdateSubtaskStatus(c, t, i, completed)
      PROVE  WritersSawTheRest'
  <2> DEFINE s == [pc |-> "subtaskRead", task |-> t, index |-> i,
                   completed |-> completed]
  <2>1. call' = [call EXCEPT ![c] = s] /\ UNCHANGED item
    BY <1>3 DEF UpdateSubtaskStatus, Begin
  <2>2. Other(s)
    BY DEF Other
  <2> QED BY <1>0, <2>1, <2>2
<1>4. CASE GetItems(c)
  <2> DEFINE s == [call[c] EXCEPT !.pc = "addWrite"]
  <2>1. call[c] \in AddCall
    BY <1>4, CallShapes DEF GetItems
  <2>2. Other(s)
    BY <2>1 DEF AddCall, Other
  <2>3. /\ call' = [call EXCEPT ![c] = s] \/ call' = [call EXCEPT ![c] = Idle]
        /\ UNCHANGED item
    BY <1>4 DEF GetItems, Continue
  <2> QED BY <1>0, <1>i, <2>2, <2>3
<1>5. CASE StoreDependency(c)
  <2> DEFINE s == [call[c] EXCEPT !.pc = "addGraph"]
  <2>1. call[c] \in AddCall
    BY <1>5, CallShapes DEF StoreDependency
  <2>2. Other(s)
    BY <2>1 DEF AddCall, Other
  <2>3. call' = [call EXCEPT ![c] = s]
    BY <1>5 DEF StoreDependency
  <2>4. \A t \in Task : item'[t].subtasks = item[t].subtasks
    BY <1>5, <2>1 DEF StoreDependency, AddCall, IInv, Typed, Item
  <2> QED BY <1>0, <2>2, <2>3, <2>4
<1>6. CASE UpdateGraph(c) \/ Notify(c) \/ Fail(c)
  BY <1>6, <1>0, <1>i DEF UpdateGraph, Notify, Fail, Continue
<1>7. CASE CheckStatus(c)
  <2> DEFINE s == [call[c] EXCEPT !.pc = "statusWrite"]
  <2>1. call[c] \in StatusCall
    BY <1>7, CallShapes DEF CheckStatus
  <2>2. Other(s)
    BY <2>1 DEF StatusCall, Other
  <2>3. /\ call' = [call EXCEPT ![c] = s] \/ call' = [call EXCEPT ![c] = Idle]
        /\ UNCHANGED item
    BY <1>7 DEF CheckStatus, Continue
  <2> QED BY <1>0, <1>i, <2>2, <2>3
<1>8. CASE StoreStatus(c)
  <2> DEFINE s == [call[c] EXCEPT !.pc = "statusWritten"]
  <2>1. call[c] \in StatusCall
    BY <1>8, CallShapes DEF StoreStatus
  <2>2. Other(s)
    BY <2>1 DEF StatusCall, Other
  <2>3. call' = [call EXCEPT ![c] = s]
    BY <1>8 DEF StoreStatus
  <2>4. \A t \in Task : item'[t].subtasks = item[t].subtasks
    BY <1>8, <2>1 DEF StoreStatus, StatusCall, IInv, Typed, Item
  <2> QED BY <1>0, <2>2, <2>3, <2>4
<1>9. CASE Resend(c)
  <2>1. CASE call[c].pc = "addGraph"
    <3> DEFINE s == [call[c] EXCEPT !.pc = "addWrite"]
    <3>1. call[c] \in AddCall
      BY <2>1, CallShapes
    <3>2. Other(s)
      BY <3>1 DEF AddCall, Other
    <3>3. call' = [call EXCEPT ![c] = s] /\ UNCHANGED item
      BY <1>9, <2>1 DEF Resend, Continue
    <3> QED BY <1>0, <3>2, <3>3
  <2>2. CASE call[c].pc = "statusWritten"
    <3> DEFINE s == [call[c] EXCEPT !.pc = "statusWrite"]
    <3>1. call[c] \in StatusCall
      BY <2>2, CallShapes
    <3>2. Other(s)
      BY <3>1 DEF StatusCall, Other
    <3>3. call' = [call EXCEPT ![c] = s] /\ UNCHANGED item
      BY <1>9, <2>2 DEF Resend, Continue
    <3> QED BY <1>0, <3>2, <3>3
  <2>3. CASE call[c].pc = "subtaskWritten"
    <3> DEFINE s == [call[c] EXCEPT !.pc = "subtaskWrite"]
    <3>1. call[c] \in WriterCall
      BY <2>3, CallShapes
    <3>2. /\ s.task = call[c].task /\ s.stale = call[c].stale
          /\ s.index = call[c].index /\ s.subtasks = call[c].subtasks
          /\ call[c].task \in Task
      BY <3>1 DEF WriterCall
    <3>3. call' = [call EXCEPT ![c] = s] /\ UNCHANGED item
      BY <1>9, <2>3 DEF Resend, Continue
    <3>4. Fits(s)
      BY <2>3, <3>2 DEF Fits, WritersSawTheRest, Writing
    <3> HIDE DEF s
    <3> QED BY <3>2, <3>3, <3>4, KeepsTheRest
  <2> QED BY <1>9, <2>1, <2>2, <2>3 DEF Resend
<1> QED BY <1>1, <1>2, <1>3, <1>4, <1>5, <1>6, <1>7, <1>8, <1>9

LEMMA RestAlwaysSeen == Spec => []WritersSawTheRest
<1>1. Init => WritersSawTheRest
  BY DEF Init, WritersSawTheRest, Writing, Idle
<1>2. IInv /\ WritersSawTheRest /\ [Next]_vars => WritersSawTheRest'
  <2> SUFFICES ASSUME IInv, WritersSawTheRest, [Next]_vars
               PROVE  WritersSawTheRest'
    OBVIOUS
  <2>1. CASE UNCHANGED <<item, call>>
    BY <2>1 DEF WritersSawTheRest, Writing
  <2>2. CASE Restart
    BY <2>2 DEF Restart, WritersSawTheRest, Writing, Idle
  <2>3. ASSUME NEW t \in Task, Replicate(t) PROVE UNCHANGED <<item, call>>
    BY <2>3 DEF Replicate
  <2> QED
    BY <2>1, <2>2, <2>3, ReadsTheRest, WritesTheRest, InitializesTheRest,
       OthersKeepTheRest
    DEF Next, GetCriticalPath, vars
<1> QED BY <1>1, <1>2, Inductive, PTL DEF Spec

(* Only a call that writes subtasks, or the item put again, changes any.   *)
LEMMA OthersWriteNoSubtasks ==
  ASSUME IInv, [Next]_vars,
         \A c \in Call : ~ StoreSubtasks(c), NEW t \in Task,
         ~ InitializeChecklist(t)
  PROVE  item'[t].subtasks = item[t].subtasks
<1>1. CASE UNCHANGED item
  BY <1>1
<1>2. ASSUME NEW c \in Call, StoreDependency(c)
      PROVE  item'[t].subtasks = item[t].subtasks
  <2>1. call[c] \in AddCall
    BY <1>2, CallShapes DEF StoreDependency
  <2> QED BY <1>2, <2>1 DEF StoreDependency, AddCall, IInv, Typed, Item
<1>3. ASSUME NEW c \in Call, StoreStatus(c)
      PROVE  item'[t].subtasks = item[t].subtasks
  <2>1. call[c] \in StatusCall
    BY <1>3, CallShapes DEF StoreStatus
  <2> QED BY <1>3, <2>1 DEF StoreStatus, StatusCall, IInv, Typed, Item
<1>4. ASSUME NEW u \in Task, InitializeChecklist(u)
      PROVE  item'[t].subtasks = item[t].subtasks
  BY <1>4 DEF InitializeChecklist, IInv, Typed
<1> QED
  BY <1>1, <1>2, <1>3, <1>4
  DEF Next, vars, Replicate, AddDependency, Begin, GetItems,
      Continue, UpdateGraph, UpdateItemStatus, CheckStatus, UpdateSubtaskStatus,
      ReadSubtasks, Notify, Resend, Fail, Restart, GetCriticalPath

(* However many calls tick subtasks of one item off and open them again,   *)
(* and whatever they read of it: a completed subtask is opened only by a   *)
(* call that was asked to, or had not seen the last write of the others,   *)
(* or because the whole item was put again.                                *)
THEOREM SubtasksReopenWithReason == Spec => SubtasksReopenOnlyWithReason
<1>1. IInv /\ WritersSawTheRest /\ [Next]_vars =>
        [\A t \in Task, i \in Subtask :
           item[t].subtasks[i] /\ ~ item'[t].subtasks[i] =>
             \/ PutAgain(t)
             \/ \E c \in Call :
                  /\ call[c].pc = "subtaskWrite" /\ call[c].task = t
                  /\ call[c].stale \/ call[c].index = i]_vars
  <2> SUFFICES ASSUME IInv, WritersSawTheRest, [Next]_vars,
                      NEW t \in Task, NEW i \in Subtask,
                      item[t].subtasks[i], ~ item'[t].subtasks[i],
                      ~ PutAgain(t)
               PROVE  \E c \in Call :
                        /\ call[c].pc = "subtaskWrite" /\ call[c].task = t
                        /\ call[c].stale \/ call[c].index = i
    OBVIOUS
  <2>1. item'[t].subtasks # item[t].subtasks
    OBVIOUS
  <2>0. ~ InitializeChecklist(t)
    BY OvertakenCalls DEF PutAgain, InitializeChecklist, IInv, Typed
  <2>2. PICK c \in Call : StoreSubtasks(c)
    BY <2>0, <2>1, OthersWriteNoSubtasks
  <2>3. /\ call[c] \in WriterCall /\ call[c].task \in Task
        /\ call[c].pc = "subtaskWrite"
    BY <2>2, CallShapes DEF StoreSubtasks, WriterCall
  <2>4. item' = [item EXCEPT ![call[c].task].subtasks = call[c].subtasks]
    BY <2>2 DEF StoreSubtasks
  <2>5. item[t] \in Item /\ item[call[c].task] \in Item
    BY <2>3 DEF IInv, Typed
  <2>6. call[c].task = t /\ item'[t].subtasks = call[c].subtasks
    BY <2>1, <2>3, <2>4, <2>5 DEF Item, IInv, Typed
  <2>7. call[c].stale = TRUE \/ call[c].stale = FALSE
    BY <2>3 DEF WriterCall
  <2>8. ASSUME call[c].stale = FALSE, call[c].index # i PROVE FALSE
    <3>1. call[c].subtasks[i] = item[t].subtasks[i]
      BY <2>3, <2>6, <2>8 DEF WritersSawTheRest, Writing
    <3> QED BY <3>1, <2>6
  <2> QED BY <2>3, <2>6, <2>7, <2>8
<1> QED BY <1>1, Inductive, RestAlwaysSeen, PTL
        DEF Spec, SubtasksReopenOnlyWithReason
-----------------------------------------------------------------------------
(* The graph inside the checklist.  Facts is the module DependencyGraph    *)
(* once more, with what is proved of it; the lemmas that follow say that   *)
(* its definitions are those of Graph, which they are word for word.       *)
Facts == INSTANCE DependencyGraph_proofs

LEMMA SameTimings ==
  ASSUME NEW n, NEW a, NEW b, NEW tm
  PROVE  Facts!UpdateTimings(n, a, b, tm) = Graph!UpdateTimings(n, a, b, tm)
  BY Zenon DEF Facts!UpdateTimings, Graph!UpdateTimings, Facts!ForwardPass,
     Graph!ForwardPass, Facts!BackwardPass, Graph!BackwardPass,
     Facts!ProjectFinish, Graph!ProjectFinish, Facts!FoldLeft,
     Graph!FoldLeft, Facts!MapThenFoldSet, Graph!MapThenFoldSet,
     Facts!Forward, Graph!Forward, Facts!Backward, Graph!Backward,
     Facts!Duration, Graph!Duration, Facts!Max, Graph!Max, Facts!Min,
     Graph!Min, Facts!ToSet, Graph!ToSet

LEMMA SameAddition ==
  ASSUME NEW t, NEW d
  PROVE  Facts!AddDependency(t, d) <=> Graph!AddDependency(t, d)
  BY Zenon, SameTimings DEF Facts!AddDependency, Graph!AddDependency,
     Facts!WillCreateCycle, Graph!WillCreateCycle, Facts!Reaches,
     Graph!Reaches, Facts!ClosedUnderDependencies,
     Graph!ClosedUnderDependencies, Facts!WithNodes, Graph!WithNodes,
     Facts!WithNode, Graph!WithNode, Facts!ToSet, Graph!ToSet,
     Facts!MapThenSumSet, Graph!MapThenSumSet, Facts!MapThenFoldSet,
     Graph!MapThenFoldSet

LEMMA SameRefusal ==
  ASSUME NEW t, NEW d
  PROVE  Facts!RejectDependency(t, d) <=> Graph!RejectDependency(t, d)
  BY Zenon DEF Facts!RejectDependency, Graph!RejectDependency,
     Facts!WillCreateCycle, Graph!WillCreateCycle, Facts!Reaches,
     Graph!Reaches, Facts!ClosedUnderDependencies,
     Graph!ClosedUnderDependencies, Facts!WithNodes, Graph!WithNodes,
     Facts!WithNode, Graph!WithNode, Facts!ToSet, Graph!ToSet

LEMMA SameQuery == Facts!CalculateCriticalPath <=> Graph!CalculateCriticalPath
  BY Zenon, SameTimings DEF Facts!CalculateCriticalPath,
     Graph!CalculateCriticalPath

LEMMA SameTypes == Facts!TypeOK <=> Graph!TypeOK
  BY Zenon DEF Facts!TypeOK, Graph!TypeOK, Facts!GraphTypeOK,
     Graph!GraphTypeOK, Facts!IsInjective, Graph!IsInjective, Facts!Times,
     Graph!Times

LEMMA SameCycles == Facts!Acyclic <=> Graph!Acyclic
  BY Zenon DEF Facts!Acyclic, Graph!Acyclic, Facts!ToSet, Graph!ToSet

LEMMA SameSides == Facts!BothSidesAgree <=> Graph!BothSidesAgree
  BY Zenon DEF Facts!BothSidesAgree, Graph!BothSidesAgree, Facts!ToSet,
     Graph!ToSet

LEMMA SameLateness == Facts!NeverTooLate <=> Graph!NeverTooLate
  BY Zenon DEF Facts!NeverTooLate, Graph!NeverTooLate, Facts!LongestChain,
     Graph!LongestChain, Facts!Cardinality, Graph!Cardinality,
     Facts!IsFiniteSet, Graph!IsFiniteSet, Facts!ToSet, Graph!ToSet,
     Facts!Max, Graph!Max, Facts!Duration, Graph!Duration

LEMMA SameSettling == Facts!PassesSettle <=> Graph!PassesSettle
  BY Zenon DEF Facts!PassesSettle, Graph!PassesSettle, Facts!AfterPasses,
     Graph!AfterPasses, Facts!LongestChain, Graph!LongestChain,
     Facts!Cardinality, Graph!Cardinality, Facts!IsFiniteSet,
     Graph!IsFiniteSet, Facts!UpdateTimings, Graph!UpdateTimings,
     Facts!ForwardPass, Graph!ForwardPass, Facts!BackwardPass,
     Graph!BackwardPass, Facts!ProjectFinish, Graph!ProjectFinish,
     Facts!FoldLeft, Graph!FoldLeft, Facts!MapThenFoldSet,
     Graph!MapThenFoldSet, Facts!Forward, Graph!Forward, Facts!Backward,
     Graph!Backward, Facts!Duration, Graph!Duration, Facts!Max, Graph!Max,
     Facts!Min, Graph!Min, Facts!ToSet, Graph!ToSet

LEMMA SameCriticalPath ==
  Facts!CriticalPathIsWholeChain <=> Graph!CriticalPathIsWholeChain
<1>1. Facts!CriticalEnd = Graph!CriticalEnd
  BY Zenon DEF Facts!CriticalEnd, Graph!CriticalEnd, Facts!SelectInSeq,
     Graph!SelectInSeq, Facts!MaxFinish, Graph!MaxFinish, Facts!Max,
     Graph!Max, Facts!Min, Graph!Min, Facts!ToSet, Graph!ToSet
<1>2. ASSUME NEW t, NEW n PROVE Facts!PathTo(t, n) = Graph!PathTo(t, n)
  BY Zenon DEF Facts!PathTo, Graph!PathTo, Facts!OneStepBack,
     Graph!OneStepBack, Facts!NoPath, Graph!NoPath
<1>3. Facts!CriticalPath = Graph!CriticalPath
  BY Zenon, <1>1, <1>2 DEF Facts!CriticalPath, Graph!CriticalPath,
     Facts!NoPath, Graph!NoPath
<1> QED
  BY Zenon, <1>1, <1>3 DEF Facts!CriticalPathIsWholeChain,
     Graph!CriticalPathIsWholeChain, Facts!NoPath, Graph!NoPath,
     Facts!ToSet, Graph!ToSet

(* addDependency, getCriticalPath: whatever the checklist does, the graph  *)
(* it keeps takes a step of DependencyGraph, is replaced by a new one with *)
(* its process, or rests.                                                  *)
THEOREM GraphInside ==
  Spec => Graph!Init /\ [][Graph!Next \/ Graph!Init']_graph
<1>1. Init => Graph!Init
  BY DEF Init
<1>2. IInv /\ [Next]_vars => [Graph!Next \/ Graph!Init']_graph
  <2> SUFFICES ASSUME IInv, [Next]_vars, ~ UNCHANGED graph
               PROVE  Graph!Next \/ Graph!Init'
    OBVIOUS
  <2>1. ASSUME NEW c \in Call, UpdateGraph(c) PROVE Graph!Next
    <3>1. call[c] \in AddCall
      BY <2>1, CallShapes DEF UpdateGraph
    <3>2. call[c].task \in Task /\ call[c].other \in Task
      BY <3>1 DEF AddCall
    <3> QED BY <2>1, <3>2 DEF UpdateGraph, Graph!Next
  <2>2. CASE GetCriticalPath
    BY <2>2 DEF GetCriticalPath, Graph!Next
  <2>3. CASE Restart
    BY <2>3 DEF Restart, Graph!Init
  <2> QED
    BY <2>1, <2>2, <2>3
    DEF Next, vars, InitializeChecklist, Replicate, AddDependency, Begin, GetItems,
        Continue, StoreDependency, UpdateItemStatus, CheckStatus, StoreStatus,
        UpdateSubtaskStatus, ReadSubtasks, StoreSubtasks, Notify, Resend, Fail
<1> QED BY <1>1, <1>2, Inductive, PTL DEF Spec

LEMMA GraphFollows == Spec => Facts!RestartableSpec
<1>1. Graph!Init => Facts!Init
  BY DEF Graph!Init, Facts!Init
<1>2. [Graph!Next \/ Graph!Init']_graph => [Facts!Next \/ Facts!Init']_(Facts!vars)
  <2>1. Graph!Next => Facts!Next
    BY SameAddition, SameRefusal, SameQuery DEF Graph!Next, Facts!Next
  <2>2. Graph!Init' => Facts!Init'
    BY DEF Graph!Init, Facts!Init
  <2>3. UNCHANGED graph => UNCHANGED Facts!vars
    BY DEF graph, Facts!vars
  <2> QED BY <2>1, <2>2, <2>3
<1> QED BY <1>1, <1>2, GraphInside, PTL DEF Facts!RestartableSpec

(* What dependency.ts promises by itself it promises in the checklist too: *)
(* with calls that fail between the table and the graph, are sent again or *)
(* end with the process, the graph has no cycle, both sides agree, and its *)
(* schedule is never too late, settles and has a critical path.            *)
THEOREM GraphKeepsItsPromises ==
  Spec => []( /\ Graph!TypeOK
              /\ Graph!Acyclic
              /\ Graph!BothSidesAgree
              /\ Graph!NeverTooLate
              /\ Graph!PassesSettle
              /\ Graph!CriticalPathIsWholeChain )
<1>0. Facts!IsFiniteSet(Task)
  BY TaskAssumption DEF IsFiniteSet, Facts!IsFiniteSet
<1>1. Facts!RestartableSpec => []Facts!TypeOK
  BY <1>0, BoundsAssumption, Facts!TypeStays
<1>2. Facts!RestartableSpec => []Facts!Acyclic
  BY <1>0, BoundsAssumption, Facts!StaysAcyclic
<1>3. Facts!RestartableSpec => []Facts!BothSidesAgree
  BY <1>0, BoundsAssumption, Facts!SidesKeepAgreeing
<1>4. Facts!RestartableSpec => []Facts!NeverTooLate
  BY <1>0, BoundsAssumption, Facts!StaysNeverTooLate
<1>5. Facts!RestartableSpec => []Facts!PassesSettle
  BY <1>0, BoundsAssumption, Facts!KeepsSettling
<1>6. Facts!RestartableSpec => []Facts!CriticalPathIsWholeChain
  BY <1>0, BoundsAssumption, Facts!CriticalPathStaysWhole
<1> QED BY <1>1, <1>2, <1>3, <1>4, <1>5, <1>6, GraphFollows, SameTypes, SameCycles,
           SameSides, SameLateness, SameSettling, SameCriticalPath, PTL

(* The table, the calls and the graph of checklist.ts keep their types.    *)
THEOREM TypeCorrect == Spec => []TypeOK
<1>1. Init => stored \subseteq Task
  BY DEF Init
<1>2. stored \subseteq Task /\ [Next]_vars => (stored \subseteq Task)'
  BY DEF Next, vars, InitializeChecklist, Replicate, AddDependency, Begin, GetItems,
     Continue, StoreDependency, UpdateGraph, UpdateItemStatus, CheckStatus,
     StoreStatus, UpdateSubtaskStatus, ReadSubtasks, StoreSubtasks, Notify, Resend,
     Fail, Restart, GetCriticalPath
<1>3. stored \subseteq Task /\ IInv /\ Graph!TypeOK => TypeOK
  BY DEF IInv, Typed, TypeOK
<1> QED BY <1>1, <1>2, <1>3, Inductive, GraphKeepsItsPromises, PTL DEF Spec
=============================================================================
