---------------------------- MODULE TaskExchange ----------------------------
(***************************************************************************)
(* A list of tasks that a process wants to have run: TaskExecutor          *)
(* (libs/tasks/TaskExecutor.ts) runs it itself or asks other nodes by a    *)
(* TaskExecutionExchange, a request of AbstractMessage; a TaskQueueWorker  *)
(* (workers/TaskQueueWorker.ts) that is asked says that the list is        *)
(* enqueued, and later how the run goes; and a TaskFuture                  *)
(* (libs/tasks/worker/execute/TaskFuture.ts) waits for the end.            *)
(*                                                                         *)
(* Request, answer and state of the run are all TaskEvents.  Of one worker *)
(* they come to the future in the order they were posted; of two workers   *)
(* in any.  What the sender has learned of the nodes (module SystemNodes), *)
(* of their tasks and of the runs elsewhere is any set: it may be stale.   *)
(* The updates and the log of a run tell the future no more than its start *)
(* does, and are left out.                                                 *)
(***************************************************************************)
EXTENDS Requests, Sequences

CONSTANTS
  Wishes,      \* the options the executor may be given
  Refusing,    \* the processes whose rules may bar the tasks, or that may miss a parameter
  Views,       \* what it may have learned: sets of nodes
  Stopping     \* the processes that may stop

\* by: the option targetId or targetIds is given; helper: TasksHelper.exec(),
\* which waits for the answers and for no run; local: the option isLocal.
WishOptions == [by : {"none", "id", "ids"}, ids : SUBSET Nodes, remote : BOOLEAN,
                local : BOOLEAN, skipCheck : BOOLEAN, many : 1..2, waits : BOOLEAN,
                helper : BOOLEAN]

ASSUME TaskExchangeAssumption ==
  /\ Wishes \subseteq WishOptions
  /\ Refusing \subseteq Procs /\ Stopping \subseteq Procs
  /\ Views \subseteq SUBSET Nodes

VARIABLES
  wish,
  returned,   \* what run() has come to
  future,
  runnerId,   \* the future has one
  told,       \* targetState
  got,        \* the nodes of targetResults
  unreached,  \* the processes that have not got the request
  job,        \* the run of each process
  stream,     \* the events of each process on the way to the future
  present     \* the processes whose worker is registered at the bus

futureVars == <<future, runnerId, told, got, stream>>
workerVars == <<unreached, job, present>>
taskExchangeVars == <<requestVars, wish, returned, futureVars, workerVars>>

Ends == {"stopped", "errored"}
States == {"enqueue", "started", "request_error"} \cup Ends
Events == [state : States, data : BOOLEAN]

TaskExchangeTypeOK ==
  /\ RequestTypeOK
  /\ wish \in WishOptions
  /\ returned \in {"no", "awaiting", "declined", "nothing", "local", "events",
                   "future", "results", "error"}
  /\ future \in {"none", "listening", "closing", "closed"}
  /\ runnerId \in BOOLEAN
  /\ told \in [Nodes -> States \cup {"none"}] /\ got \in SUBSET Nodes
  /\ unreached \in SUBSET Procs /\ present \in SUBSET Procs
  /\ job \in [Procs -> {"none", "refused", "timed", "queued", "started",
                        "over", "lost"}]
  /\ stream \in [Procs -> Seq(Events)]

InitTaskExchange ==
  /\ RequestInit
  /\ ~options.waitIfNoTarget /\ ~options.filterErrors   \* the exchange sets neither
  /\ wish \in Wishes
  /\ returned = "no"
  /\ future = "none" /\ runnerId = FALSE
  /\ told = [n \in Nodes |-> "none"] /\ got = {}
  /\ unreached = {} /\ present = Procs
  /\ job = [p \in Procs |-> "none"]
  /\ stream = [p \in Procs |-> <<>>]

-----------------------------------------------------------------------------
(* TaskExecutor.create, TaskExecutionExchange.create *)

\* The list of targets the exchange is given: create() of the executor keeps
\* targetId for itself when 'remote' is set, exec() always passes a list.
Passed ==
  \/ wish.helper \/ wish.by = "ids"
  \/ wish.by = "id" /\ ~wish.remote
Ids == IF wish.by = "none" THEN {} ELSE wish.ids

\* Nobody else is asked for.
Here == ~wish.remote /\ wish.by = "none"

\* The first or some of the nodes with a worker.
SomeOf(workers) ==
  {ns \in SUBSET workers : Cardinality(ns) <= wish.many
                           /\ (workers # {} => ns # {})}

\* The targets, when these nodes have a worker and these the tasks, too.
TargetsAmong(workers, able) ==
  IF ~Passed THEN SomeOf(workers)
  ELSE IF wish.skipCheck THEN {Ids}
  ELSE IF Ids = {} THEN {workers \cap able}
  ELSE {Ids \cap workers \cap able}

\* send() asks all other nodes when it has no targets.
Addressed(nodes) == IF nodes = {} THEN {ns \ {Me} : ns \in Views} ELSE {nodes}

Listen == IF wish.waits /\ ~wish.helper THEN "listening" ELSE "none"

Request(nodes) ==
  /\ \E ns \in Addressed(nodes) : Send(ns, "prepared")
  /\ future' = Listen
  /\ UNCHANGED <<returned, wish, runnerId, told, got, stream, workerVars>>

\* No node is left: create() of the exchange throws.
NoTarget ==
  /\ Refuse
  /\ returned' = "error"
  /\ UNCHANGED <<wish, futureVars, workerVars>>

AskOthers(workers, able) ==
  \E nodes \in TargetsAmong(workers, able) :
    IF nodes = {} /\ ~wish.skipCheck THEN NoTarget ELSE Request(nodes)

\* The own node has the tasks and a worker.
AskOwnWorker(able) ==
  IF wish.skipCheck \/ Me \in able THEN Request({Me}) ELSE NoTarget

\* executeLocally(), and create() when the concurrency is exhausted.
RunHere ==
  /\ Refuse
  /\ returned' \in IF Here THEN {"local", "error", "nothing"} ELSE {"nothing"}
  /\ UNCHANGED <<wish, futureVars, workerVars>>

Run ==
  \E workers, able \in Views :
    \/ ~Here /\ AskOthers(workers, able)
    \/ /\ Here /\ ~wish.local /\ ~wish.helper
       /\ \/ Me \in workers /\ AskOwnWorker(able)
          \/ AskOthers(workers, able)
    \/ RunHere

PostTasks ==
  /\ Post
  /\ unreached' = present
  /\ UNCHANGED <<wish, returned, futureVars, job, present>>

-----------------------------------------------------------------------------
(* TaskExecutor.executeOnWorker *)

\* send() has ended.
Answered ==
  /\ Finish("resolved")
  /\ \/ /\ result = {} /\ ~wish.helper
        /\ returned' = "error"
        /\ UNCHANGED future
     \/ /\ wish.helper
        /\ returned' = "events"
        /\ UNCHANGED future
     \/ /\ ~wish.helper
        /\ \E first \in result : first.kind = "failed"
        /\ returned' = "declined"
        /\ future' = IF future = "listening" THEN "closing" ELSE future
     \/ /\ ~wish.helper
        /\ \E first \in result : first.kind = "ok"
        /\ returned' \in IF wish.waits THEN {"awaiting", "future"} ELSE {"events"}
        /\ UNCHANGED future
  /\ UNCHANGED <<wish, runnerId, told, got, stream, workerVars>>

\* future.await(), and future.close() before an error is thrown or not.
Return ==
  /\ future \in {"none", "closed"}
  /\ \/ returned = "awaiting" /\ returned' = "results"
     \/ returned = "declined" /\ returned' \in {"error", "events"}
  /\ UNCHANGED <<requestVars, wish, futureVars, workerVars>>

-----------------------------------------------------------------------------
(* TaskQueueWorker *)

\* fireState
Tell(p, state, data) ==
  stream' = IF future \in {"listening", "closing"}
            THEN [stream EXCEPT ![p] = Append(@, [state |-> state, data |-> data])]
            ELSE stream

\* Slip: the list is pushed only where its parameters are looked at.
JobAsChecked(fails) == "refused"
JobOf(fails) == IF fails THEN "refused" ELSE "timed"

\* onTaskEvent: the list is turned down, or enqueued 10 milliseconds later.
OnTaskEvent(p) ==
  /\ p \in unreached /\ p \in present
  /\ unreached' = unreached \ {p}
  /\ \/ /\ asked # {} /\ NodeOf[p] \notin asked
        /\ UNCHANGED <<requestVars, job, stream>>
     \/ /\ asked = {} \/ NodeOf[p] \in asked
        /\ \E fails \in BOOLEAN :
             /\ fails => p \in Refusing
             /\ PostResponse([from |-> p, nr |-> 1, kind |-> IF fails THEN "failed" ELSE "ok"])
             /\ job' = [job EXCEPT ![p] = JobOf(fails)]
             /\ Tell(p, IF fails THEN "request_error" ELSE "enqueue", FALSE)
  /\ UNCHANGED <<wish, returned, future, runnerId, told, got, present>>

workerRest == <<requestVars, wish, returned, future, runnerId, told, got, unreached, present>>

\* The timer of onTaskEvent.
Pushed(p) ==
  /\ job[p] = "timed" /\ p \in present
  /\ job' = [job EXCEPT ![p] = "queued"]
  /\ UNCHANGED <<workerRest, stream>>

\* do, up to the run of the tasks.
Begin(p) ==
  /\ job[p] = "queued" /\ p \in present
  /\ job' = [job EXCEPT ![p] = "started"]
  /\ Tell(p, "started", TRUE)
  /\ UNCHANGED workerRest

\* The logger posts an event of its own, which takes the data off the next.
TellEnd(p, state) == \E data \in IF state = "errored" THEN BOOLEAN ELSE {TRUE} :
                       Tell(p, state, data)

\* The run is over, or has failed.
End(p) ==
  /\ job[p] = "started"
  /\ job' = [job EXCEPT ![p] = "over"]
  /\ \E state \in Ends : TellEnd(p, state)
  /\ UNCHANGED workerRest

\* finish(), after which the queue starts nothing, or the end of the process.
Leave(p) ==
  /\ p \in present \cap Stopping
  /\ present' = present \ {p}
  /\ job' = IF job[p] \in {"timed", "queued"} THEN [job EXCEPT ![p] = "lost"] ELSE job
  /\ unreached' = unreached \ {p}
  /\ UNCHANGED <<requestVars, wish, returned, futureVars>>

Crash(p) ==
  /\ p # Self /\ p \notin present
  /\ job[p] = "started"
  /\ job' = [job EXCEPT ![p] = "lost"]
  /\ UNCHANGED <<workerRest, stream>>

-----------------------------------------------------------------------------
(* TaskFuture *)

\* Slip: one node has ended.
OneEnded(states) == \E n \in Nodes : states[n] \in {"started"} \cup Ends
\* isFinished(), with what is told of the nodes.
IsFinished(states) == \A n \in Nodes : states[n] \in Ends \cup {"request_error", "none"}

\* The first event must have data: without, the handler throws.
Hear(p, e) ==
  IF ~runnerId /\ ~e.data
  THEN UNCHANGED <<future, runnerId, told, got>>
  ELSE /\ runnerId' = TRUE
       /\ told' = [told EXCEPT ![NodeOf[p]] = e.state]
       /\ got' = IF e.data /\ e.state \in Ends THEN got \cup {NodeOf[p]} ELSE got
       /\ future' = IF IsFinished(told') THEN "closing" ELSE future

\* onTaskEvent
Notice(p) ==
  /\ future \in {"listening", "closing"}
  /\ stream[p] # <<>>
  /\ stream' = [stream EXCEPT ![p] = Tail(@)]
  /\ Hear(p, Head(stream[p]))
  /\ UNCHANGED <<requestVars, wish, returned, workerVars>>

\* close() has taken the future off the bus.
Close ==
  /\ future = "closing"
  /\ future' = "closed"
  /\ stream' = [p \in Procs |-> <<>>]
  /\ UNCHANGED <<requestVars, wish, returned, runnerId, told, got, workerVars>>

-----------------------------------------------------------------------------

others == <<wish, returned, futureVars, workerVars>>

DeliverToExecutor == \E a \in answers : OnResults(a) /\ UNCHANGED others

NextTaskExchange ==
  \/ Run
  \/ NothingToAsk /\ UNCHANGED others
  \/ PostTasks
  \/ Timeout /\ UNCHANGED others
  \/ DeliverToExecutor
  \/ Answered
  \/ Return
  \/ \E p \in Procs :
       \/ OnTaskEvent(p) \/ Pushed(p) \/ Begin(p) \/ End(p)
       \/ Leave(p) \/ Crash(p) \/ Notice(p)
  \/ Close

SpecTaskExchange == InitTaskExchange /\ [][NextTaskExchange]_taskExchangeVars
-----------------------------------------------------------------------------
(* Properties *)

\* A run on one node that was awaited is over there when run() resolves, and
\* what is handed out as a result comes from a run that is over: no event of
\* another state, of another node, or without data closes the future.
AwaitedRunIsOver ==
  /\ returned = "results" /\ Cardinality(asked) = 1 =>
       \E p \in Procs : NodeOf[p] \in asked /\ job[p] = "over"
  /\ \A n \in got : \E p \in Procs : NodeOf[p] = n /\ job[p] = "over"

\* A test, test/functional/tasks/tasks_executor.spec.ts:368, expects the
\* results of all nodes that are asked when executeOnMultipleNodes is set.
\* The code does not keep it: TLC finds a counterexample (README, 5).
ResultsOfAll ==
  /\ returned = "results" /\ ~late
  /\ \A p \in Procs : NodeOf[p] \in asked => job[p] \in {"started", "over"}
  => \A n \in asked : \E p \in Procs : NodeOf[p] = n /\ job[p] = "over"

\* A worker that has answered 'enqueue' runs the tasks, unless it is stopped.
AcknowledgedRuns ==
  \A p \in Procs :
    [from |-> p, nr |-> 1, kind |-> "ok"] \in answers ~> job[p] = "over" \/ p \notin present

\* run() returns or throws when no worker is stopped: neither a worker that
\* refuses, nor one that is listed and gone, nor events that come before the
\* answer or are lost to the future's first check leave it waiting.
ExecutorSettles ==
  phase = "prepared" ~>
    returned \notin {"no", "awaiting", "declined"} \/ present # Procs

\* A request for tasks ends at both sides: the worker runs what it has acknowledged,
\* and the caller of run() gets an answer (TaskQueueWorker.ts:112, TaskExecutor.ts:262).
RequestsEnd == AcknowledgedRuns /\ ExecutorSettles

\* The microtasks and the timers run, the queue starts what it holds, tasks
\* end, and the bus delivers the states of the runs.
FairTasks ==
  /\ WF_taskExchangeVars(PostTasks)
  /\ WF_taskExchangeVars(NothingToAsk /\ UNCHANGED others)
  /\ WF_taskExchangeVars(Timeout /\ UNCHANGED others)
  /\ WF_taskExchangeVars(Answered)
  /\ WF_taskExchangeVars(Return)
  /\ WF_taskExchangeVars(Close)
  /\ \A p \in Procs : /\ WF_taskExchangeVars(Pushed(p))
                      /\ WF_taskExchangeVars(Begin(p))
                      /\ WF_taskExchangeVars(End(p))
                      /\ WF_taskExchangeVars(Notice(p))

FairSpecTasks == SpecTaskExchange /\ FairTasks
=============================================================================
