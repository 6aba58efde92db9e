------------------------------ MODULE NodeTasks ------------------------------
(***************************************************************************)
(* What the processes of a cluster know of each other's tasks: the         *)
(* registry Tasks (libs/tasks/Tasks.ts) says which nodes have a task, the  *)
(* TaskRunnerRegistry (libs/tasks/TaskRunnerRegistry.ts) which runs are    *)
(* under way.  Both learn it from the infos of SystemNodes, by             *)
(* TasksSystemExtension; the runs post events of their own besides.        *)
(*                                                                         *)
(* An info carries the tasks of its process with the nodes that are known  *)
(* to have them when it is posted.  Infos wait for the semaphore of        *)
(* onNodeInfo(), the events of runs do not.  Each process makes at most    *)
(* one run, named like it; tasks that map, group or follow others are left *)
(* out, and so are the descriptions, options and properties of a task.     *)
(***************************************************************************)
EXTENDS SystemNodes

CONSTANTS
  Tasks,
  Offers,     \* the tasks each process adds at its start
  Working,    \* the processes with a TaskQueueWorker
  Running     \* those that make a run

ASSUME NodeTasksAssumption ==
  /\ Offers \in [Procs -> SUBSET Tasks]
  /\ Working \subseteq Procs /\ Running \subseteq Procs

VARIABLES
  nodeInfos,  \* nodeInfos[p][t]: which nodes p takes to have t, {} if it does not know t
  cargo,      \* cargo[p]: the tasks that come with the infos in line[p]
  run,        \* how far the run of a process is
  global,     \* global[p]: the runs p lists
  local       \* those in the list of their own process

taskVars == <<nodeInfos, cargo>>
runVars == <<run, global, local>>
allVars == <<vars, taskVars, runVars>>

NodeInfo(p) == [nodeId |-> NodeOf[p], hasWorker |-> p \in Working]
NodeInfos == [nodeId : Nodes, hasWorker : BOOLEAN]
Contexts == [Tasks -> SUBSET NodeInfos]
NoTasks == [t \in Tasks |-> {}]

NodeTasksTypeOK ==
  /\ nodeInfos \in [Procs -> Contexts]
  /\ cargo \in [Procs -> Seq(Contexts)]
  /\ \A p \in Procs : Len(cargo[p]) = Len(line[p])
  /\ run \in [Procs -> {"none", "running", "stopped", "errored"}]
  /\ global \in [Procs -> SUBSET Procs] /\ local \in SUBSET Procs

InitAll ==
  /\ Init
  /\ nodeInfos = [p \in Procs |-> NoTasks]
  /\ cargo = [p \in Procs |-> <<>>]
  /\ run = [p \in Procs |-> "none"]
  /\ global = [p \in Procs |-> {}] /\ local = {}

-----------------------------------------------------------------------------
(* Tasks *)

\* removeNodeId, addNodeId
RemoveNodeId(infos, n) == {x \in infos : x.nodeId # n}
AddNodeId(infos, x) == RemoveNodeId(infos, x.nodeId) \cup {x}

\* The tasks of a process itself, in the context of its infos.
Own(p) == [t \in Tasks |-> IF t \in Offers[p] THEN nodeInfos[p][t] ELSE {}]

\* addTask at the start-up.
AddOwn(p) ==
  [t \in Tasks |-> IF t \in Offers[p] THEN {NodeInfo(p)} ELSE {}]

\* Slip: a task that is known gets no further node.
AddedIfNew(known, sent, x) == IF known # {} THEN known ELSE AddNodeId(sent, x)
\* addRemoteTask takes over the nodes the sender knows, addNodeId does not.
Registered(known, sent, x) == AddNodeId(IF known # {} THEN known ELSE sent, x)

\* onNodeRegister
OnNodeRegister(p, i, sent) ==
  nodeInfos' = [nodeInfos EXCEPT ![p] =
    [t \in Tasks |-> IF sent[t] # {} THEN Registered(@[t], sent[t], NodeInfo(i.by))
                     ELSE @[t]]]

\* onNodeUnregister: a task that no node has is removed.
OnNodeUnregister(p, i, sent) ==
  nodeInfos' = [nodeInfos EXCEPT ![p] =
    [t \in Tasks |-> IF sent[t] # {} THEN RemoveNodeId(@[t], NodeOf[i.by]) ELSE @[t]]]

-----------------------------------------------------------------------------
(* TaskRunnerRegistry *)

\* Slip: the runs of a node that comes anew are kept.
UpdatesAtExit(i) == i.state = "unregister"
Updates(i) == i.state \in {"register", "unregister"}

OnNodeUpdate(p, i) ==
  global' = [global EXCEPT ![p] =
               IF Updates(i) THEN {r \in @ : NodeOf[r] # NodeOf[i.by]} ELSE @]

\* onTaskRunnerEvent
Hear(r, over) ==
  global' = [p \in Procs |->
    IF life[p] \notin Subscribed THEN global[p]
    ELSE IF over THEN global[p] \ {r} ELSE global[p] \cup {r}]

\* A runner is made, and adds itself by addRunner().
StartRun(p) ==
  /\ p \in Running /\ run[p] = "none"
  /\ life[p] = "idle"
  /\ run' = [run EXCEPT ![p] = "running"]
  /\ local' = local \cup {p}
  /\ Hear(p, FALSE)
  /\ UNCHANGED <<vars, taskVars>>

MayRun(p) == run[p] = "running" /\ life[p] \in Subscribed \cup {"left"}

\* taskRun, taskDone: the event 'running'.
ReportRun(p) ==
  /\ MayRun(p)
  /\ Hear(p, FALSE)
  /\ UNCHANGED <<vars, taskVars, run, local>>

\* finish
StopRun(p) ==
  /\ MayRun(p)
  /\ run' = [run EXCEPT ![p] = "stopped"]
  /\ local' = local \ {p}
  /\ Hear(p, TRUE)
  /\ UNCHANGED <<vars, taskVars>>

\* run() rejects, and the worker finalizes the runner: nobody is told.
FailRun(p) ==
  /\ MayRun(p)
  /\ run' = [run EXCEPT ![p] = "errored"]
  /\ UNCHANGED <<vars, taskVars, global, local>>

-----------------------------------------------------------------------------
(* The steps of SystemNodes, with what they mean for the tasks *)

\* The others get an info of p with its tasks.
PostedWith(cargos, p, i) ==
  [q \in Procs |-> IF Hears(q, i) THEN Append(cargos[q], Own(p)) ELSE cargos[q]]

Start(p) ==
  /\ Initialize(p)
  /\ nodeInfos' = [nodeInfos EXCEPT ![p] = AddOwn(p)]
  /\ UNCHANGED <<cargo, runVars>>

AnnounceTasks(p) ==
  /\ Announce(p)
  /\ cargo' = PostedWith(cargo, p, Info(p, "register"))
  /\ UNCHANGED <<nodeInfos, runVars>>

UnregisterTasks(p) ==
  /\ Unregister(p)
  /\ cargo' = [PostedWith(cargo, p, Info(p, "unregister"))
                 EXCEPT ![p] = SubSeq(@, 1, Len(line'[p]))]
  /\ UNCHANGED <<nodeInfos, runVars>>

Rest(p) == [cargo EXCEPT ![p] = Tail(@)]

\* The answer is posted before onNodeRegister() of the extensions is called.
AdmitTasks(p) ==
  /\ Admit(p)
  /\ cargo' = PostedWith(Rest(p), p, Info(p, State(p)))
  /\ OnNodeRegister(p, Head(line[p]), Head(cargo[p]))
  /\ OnNodeUpdate(p, Head(line[p]))
  /\ UNCHANGED <<run, local>>

DismissTasks(p) ==
  /\ Dismiss(p)
  /\ cargo' = Rest(p)
  /\ OnNodeUnregister(p, Head(line[p]), Head(cargo[p]))
  /\ OnNodeUpdate(p, Head(line[p]))
  /\ UNCHANGED <<run, local>>

IgnoreTasks(p) ==
  /\ Ignore(p)
  /\ cargo' = Rest(p)
  /\ UNCHANGED <<nodeInfos, runVars>>

\* A process that has ended forgets everything.
EndTasks(p) ==
  /\ Exit(p) \/ Crash(p)
  /\ cargo' = [cargo EXCEPT ![p] = <<>>]
  /\ nodeInfos' = [nodeInfos EXCEPT ![p] = NoTasks]
  /\ global' = [global EXCEPT ![p] = {}] /\ local' = local \ {p}
  /\ UNCHANGED run

NextAll ==
  \E p \in Procs :
    \/ Start(p) \/ AnnounceTasks(p) \/ UnregisterTasks(p) \/ EndTasks(p)
    \/ AdmitTasks(p) \/ DismissTasks(p) \/ IgnoreTasks(p)
    \/ (Subscribe(p) \/ Idle(p) \/ Leave(p) \/ Store(p)) /\ UNCHANGED <<taskVars, runVars>>
    \/ StartRun(p) \/ ReportRun(p) \/ StopRun(p) \/ FailRun(p)

SpecAll == InitAll /\ [][NextAll]_allVars

-----------------------------------------------------------------------------
(* Properties *)

Quiet == \A p \in Procs : line[p] = <<>>

\* Once all infos are handled, a process knows of everybody it lists which
\* tasks that one has, and whether it has a worker for them; and it has not
\* lost its own.
OffersKnown ==
  Quiet => \A p \in Procs : life[p] \in Present =>
    /\ \A q \in Procs : life[q] \in Present /\ (q = p \/ Known(p, Me(q))) =>
         \A t \in Offers[q] : NodeInfo(q) \in nodeInfos[p][t]

\* Once all infos are handled, a process lists no run that has stopped, and
\* none of a process whose place another one of its node has taken.
RunsOfThePresent ==
  Quiet => \A p \in Procs : life[p] \in Present =>
    \A r \in global[p] :
      /\ run[r] # "stopped"
      /\ \A q \in Procs : life[q] \in Present /\ NodeOf[q] = NodeOf[r] => q = r
=============================================================================
