----------------------------- MODULE TaskRunner -----------------------------
(***************************************************************************)
(* TaskRunner (libs/tasks/TaskRunner.ts) working off its TaskRuns          *)
(* (libs/tasks/TaskRun.ts), with addTask() of TaskRuntimeContainer.        *)
(*                                                                         *)
(* The runner is driven by events it emits to itself.  Emitting calls the  *)
(* listener, so one call of run(), of a done callback or of addTask() is a *)
(* cascade of next(), taskRun(), start() and taskDone() that nothing       *)
(* interrupts.  Each handler is an action here; `due' counts the emits of  *)
(* NEXT on the stack, and while it is not 0 only they may go on.           *)
(*                                                                         *)
(* createTaskRun() makes a new run of a subtask or dependency for every    *)
(* parent, so the runs form a forest, numbered in preorder.  The code      *)
(* numbers from 0; here 0 stands for none.  addTask() in the synchronous   *)
(* part of a task's function is taken after the NEXT of taskRun(): the     *)
(* same runs are started in the same order.                                *)
(*                                                                         *)
(* An operator whose comment begins with "Slip:" is not part of the model: *)
(* it is the definition below it with a plausible mistake.                 *)
(***************************************************************************)
EXTENDS Integers, FiniteSets

CONSTANTS
  MaxRuns,     \* bound: so many runs are ever created
  Parallel,    \* $parallel
  CanLack,     \* whether a run may lack a required parameter
  AddedSizes,  \* addTask(): 1 without, 2 with a subtask or dependency
  Waiters      \* the runs that may await a task they add

ASSUME RunnerAssumption ==
  /\ MaxRuns \in Nat
  /\ Parallel \in Nat \ {0}
  /\ CanLack \in BOOLEAN
  /\ AddedSizes \subseteq {1, 2}

Nrs == 1..MaxRuns

VARIABLES
  created,   \* runs 1..created are in $tasks
  parent,    \* parent[r]: the run with r in subTaskNrs or dependencyTaskNrs
  todo, running, done,   \* todoNrs, runningNrs, doneNrs
  active,    \* the runs with status.running
  stopped,   \* the runs with status.done
  waits,     \* waits[r]: the added run whose asPromise() r awaits, or 0
  finished,  \* $finished
  promise,   \* the promise run() returned
  due,       \* how many emits of NEXT are on the stack
  entry,     \* the call at the bottom of the stack
  fresh      \* the run whose function has just been called, or 0

lists == <<todo, running, done>>
states == <<active, stopped, waits>>
vars == <<created, parent, lists, states, finished, promise, due, entry, fresh>>

Nobody == [by |-> "nobody", of |-> 0]
Entries == [by : {"nobody", "run", "done", "add"}, of : 0..MaxRuns]

TypeOK ==
  /\ created \in 0..MaxRuns
  /\ parent \in [Nrs -> 0..MaxRuns]
  /\ todo \in SUBSET Nrs /\ running \in SUBSET Nrs /\ done \in SUBSET Nrs
  /\ active \in SUBSET Nrs /\ stopped \in SUBSET Nrs
  /\ waits \in [Nrs -> 0..MaxRuns]
  /\ finished \in BOOLEAN
  /\ promise \in {"none", "pending", "resolved", "rejected"}
  /\ due \in Nat
  /\ entry \in Entries
  /\ fresh \in 0..MaxRuns

\* createTaskRun() and resolveDeps(): what stands between a run and a child of
\* its own belongs to an earlier child.
Preorder ==
  /\ \A r \in Nrs : parent[r] < r
  /\ \A r \in Nrs : r > created => parent[r] = 0
  /\ \A b, c \in Nrs : parent[c] < b /\ b < c => parent[b] >= parent[c]

Init ==
  /\ created \in 0..MaxRuns
  /\ parent \in [Nrs -> 0..MaxRuns]
  /\ Preorder
  /\ todo = 1..created /\ running = {} /\ done = {}
  /\ active = {} /\ stopped = {}
  /\ waits = [r \in Nrs |-> 0]
  /\ finished = FALSE /\ promise = "none"
  /\ due = 0 /\ entry = Nobody /\ fresh = 0

-----------------------------------------------------------------------------
Children(r) == {c \in 1..created : parent[c] = r}

\* Slip: a child that has begun is good enough.
ReadyEarly(r) ==
  r \notin active /\ r \notin stopped /\ Children(r) \subseteq running \cup done

\* ready()
Ready(r) == r \notin active /\ r \notin stopped /\ Children(r) \subseteq done

Candidates == {r \in 1..created : Ready(r)}

\* selectNextTask(): the first of $tasks.  The constructor orders them by a
\* field no TaskRun has, which leaves them in the order of creation.
Selected(r) == r \in Candidates /\ \A q \in Candidates : r <= q

SlotFree == Cardinality(running) < Parallel

\* Slip: the runs under way are not looked at.
FinishesEarly == todo = {}

AllDone == todo = {} /\ running = {}

\* next() comes to emit RUN for t.
Picks(t) ==
  /\ due > 0 /\ ~finished /\ ~AllDone
  /\ Selected(t)
  /\ SlotFree

\* Slip: one run at a time.
BusyIsEnough == running # {}

\* next() does not come to emit RUN.
NothingToStart == Candidates = {} \/ ~SlotFree

\* Slip: the event of the end is not emitted.
AnsweredNobody(r) == waits

\* Whoever awaits r in asPromise() hears of its end.
Answered(r) == [q \in Nrs |-> IF waits[q] = r THEN 0 ELSE waits[q]]

\* An emit of NEXT returns to its caller.
Return ==
  /\ due' = due - 1
  /\ entry' = IF due = 1 THEN Nobody ELSE entry

-----------------------------------------------------------------------------
\* run() and runDry()
Run ==
  /\ promise = "none"
  /\ promise' = "pending"
  /\ due' = 1
  /\ entry' = [by |-> "run", of |-> 0]
  /\ UNCHANGED <<created, parent, lists, states, finished, fresh>>

\* next() has nothing left: finish() resolves the promise of run().
Finish ==
  /\ due > 0 /\ ~finished /\ AllDone
  /\ finished' = TRUE
  /\ promise' = "resolved"
  /\ Return
  /\ fresh' = 0
  /\ UNCHANGED <<created, parent, lists, states>>

\* next() finds no run to start, or no room for one.
Rest ==
  /\ due > 0
  /\ finished \/ (~AllDone /\ running # {} /\ NothingToStart)
  /\ Return
  /\ fresh' = 0
  /\ UNCHANGED <<created, parent, lists, states, finished, promise>>

\* taskRun() with a start() that calls the function of the task.  The emit of
\* NEXT at the end of taskRun() takes the place of the one that led here.
StartTask(t) ==
  /\ Picks(t)
  /\ t \in todo /\ t \notin running
  /\ todo' = todo \ {t}
  /\ running' = running \cup {t}
  /\ active' = active \cup {t}
  /\ fresh' = t
  /\ UNCHANGED <<created, parent, done, stopped, waits, finished, promise,
                 due, entry>>

\* start() finds a required parameter missing: taskDone() gets as far as
\* stop(), which fails on the missing start date, and start() rejects unheard.
Occupied(t) == running \cup {t}

\* asPromise() is called after enqueue(), and answers at once only if the run
\* was stopped before.
StartLacking(t) ==
  /\ CanLack
  /\ Picks(t)
  /\ t \in todo /\ t \notin running
  /\ todo' = todo \ {t}
  /\ running' = Occupied(t)
  /\ stopped' = stopped \cup {t}
  /\ waits' = IF entry.by = "add" THEN [waits EXCEPT ![entry.of] = IF @ = t THEN 0 ELSE @]
                                  ELSE waits
  /\ fresh' = 0
  /\ UNCHANGED <<created, parent, done, active, finished, promise, due, entry>>

\* taskRun() fails on a run that is under way or not in todoNrs; the exception
\* ends the cascade up to the next function of a task, or run() or addTask().
Refuse(t) ==
  /\ Picks(t)
  /\ t \notin todo \/ t \in running
  /\ running' = running \cup {t}
  /\ promise' = IF due = 1 /\ entry.by = "run" THEN "rejected" ELSE promise
  /\ waits' = IF due = 1 /\ entry.by = "add" THEN [waits EXCEPT ![entry.of] = 0]
                                             ELSE waits
  /\ Return
  /\ fresh' = 0
  /\ UNCHANGED <<created, parent, todo, done, active, stopped, finished>>

Freed(r) == running \ {r}

\* taskDone(), whatever the outcome.
TaskDone(r) ==
  /\ stopped' = stopped \cup {r}
  /\ active' = active \ {r}
  /\ waits' = Answered(r)
  /\ done' = done \cup {r}
  /\ running' = Freed(r)
  /\ fresh' = 0
  /\ UNCHANGED <<created, parent, todo, finished, promise>>

\* The function settles, or calls back, in a later microtask.
End(r) ==
  /\ due = 0
  /\ r \in active /\ waits[r] = 0
  /\ TaskDone(r)
  /\ due' = 1
  /\ entry' = [by |-> "done", of |-> r]

\* The function calls back, or throws, before it returns; so does every
\* function in dry mode.
EndAtOnce(r) ==
  /\ due > 0 /\ r = fresh
  /\ TaskDone(r)
  /\ due' = due + 1
  /\ UNCHANGED entry

\* enqueue() puts the run itself into todoNrs, not those made along with it.
Enqueued(n) == todo \cup {n}

\* addTask(): createTaskRun() makes k runs, enqueue() emits NEXT.
AddTask(r, k, awaited) ==
  LET n == created + 1
  IN  /\ due = 0
      /\ r \in active /\ waits[r] = 0
      /\ k \in AddedSizes /\ created + k <= MaxRuns
      /\ awaited => r \in Waiters
      /\ created' = created + k
      /\ parent' = [c \in Nrs |-> IF k = 2 /\ c = n + 1 THEN n ELSE parent[c]]
      /\ todo' = Enqueued(n)
      /\ waits' = [waits EXCEPT ![r] = IF awaited THEN n ELSE 0]
      /\ due' = 1
      /\ entry' = [by |-> "add", of |-> r]
      /\ fresh' = 0
      /\ UNCHANGED <<running, done, active, stopped, finished, promise>>

-----------------------------------------------------------------------------
Next ==
  \/ Run
  \/ Finish
  \/ Rest
  \/ \E r \in Nrs : StartTask(r) \/ StartLacking(r) \/ Refuse(r)
                      \/ End(r) \/ EndAtOnce(r)
  \/ \E r \in Nrs, k \in {1, 2}, awaited \in BOOLEAN : AddTask(r, k, awaited)

\* A cascade is not left in the middle, and the functions of tasks end.
\* Nobody is obliged to add a task.
Fairness ==
  /\ WF_vars(Finish) /\ WF_vars(Rest)
  /\ \A r \in Nrs :
       /\ WF_vars(StartTask(r) \/ StartLacking(r) \/ Refuse(r))
       /\ WF_vars(End(r))

Spec == Init /\ [][Next]_vars /\ Fairness

-----------------------------------------------------------------------------
(* Properties *)

\* A number is in exactly one of the three lists, however the emits nest; only
\* a child that came with an added task is in none, and holds up its parent.
ListsApart ==
  /\ todo \cap running = {} /\ todo \cap done = {} /\ running \cap done = {}
  /\ \A r \in 1..created : r \in todo \cup running \cup done \/ parent[r] \in todo

\* No more than $parallel runs hold a place in runningNrs.
AtMostParallel == Cardinality(running) <= Parallel

\* The function of a task is called only when all its subtasks and
\* dependencies have called back, and none of them is ever reopened.
ChildrenFirst ==
  \A r \in active \cup done : Children(r) \subseteq done

\* run() resolves when every run, the added ones included, has called back.
ResolvedMeansDone ==
  promise = "resolved" => done = 1..created /\ active = {}

\* next() never comes upon runs to do with none under way and none ready, the
\* case it has an exception for: "Tasks are stucked!".
NeverStuck ==
  due > 0 /\ ~finished /\ ~AllDone => running # {} \/ Candidates # {}

Unrefused == running \subseteq active \cup stopped

\* When a cascade has come to its end no slot is free for a run that is ready:
\* every event that could make one ready is followed by next().
NoIdleSlot ==
  due = 0 /\ promise = "pending" /\ Unrefused /\ SlotFree => Candidates = {}

\* Whoever awaits an added run, awaits one that is still to end.
AwaitsOpenRun ==
  \A r \in Nrs : waits[r] # 0 => r \in active /\ waits[r] \notin done

\* The assertion of taskRun() (TaskRunner.ts:413): a run that is started is in
\* todoNrs.
SelectedIsTodo == \A t \in Nrs : Picks(t) => t \in todo

\* run() settles: it returns a promise that is resolved by finish() or
\* rejected on an error.  The code keeps it only where no parameter is missing.
RunSettles == promise = "pending" ~> promise \in {"resolved", "rejected"}

\* No run lacks a parameter or was refused by taskRun(), and fewer functions
\* wait for a task they have added than there are slots.
Healthy ==
  /\ Unrefused /\ stopped = done
  /\ Cardinality({r \in Nrs : waits[r] # 0}) < Parallel

\* Where that is so all along, run() settles ...
HealthyRunSettles == []Healthy => RunSettles

\* ... and a task added at runtime ends, so that who awaits it goes on.
AddedRunsEnd == []Healthy => \A r \in Nrs : waits[r] # 0 ~> waits[r] = 0

\* What is run comes to its end (TaskRunner.ts:369): run() itself and each task that
\* a function has added and waits for.
RunsEnd == HealthyRunSettles /\ AddedRunsEnd

Plan == INSTANCE TaskPlan WITH
          Limit <- Parallel,
          size  <- created,
          above <- parent,
          begun <- running \cup done,
          ended <- done

\* The runner implements the plan.
ImplementsPlan == Plan!PlanSpec
=============================================================================
