----------------------------- MODULE AsyncQueue -----------------------------
(***************************************************************************)
(* AsyncWorkerQueue (libs/queue/AsyncWorkerQueue.ts) with the QueueJobs it *)
(* carries (libs/queue/QueueJob.ts): the in-process queue behind every     *)
(* worker of the system.  A call of a public method is one synchronous     *)
(* step; what the promise chain of a job does in a later microtask is a    *)
(* step of its own, so that pushes, pauses, awaits and the owner's         *)
(* shutdown interleave with it.                                            *)
(*                                                                         *)
(* Jobs are numbered in the order of the push calls, as QueueJob._INC is.  *)
(*                                                                         *)
(* An operator whose comment begins with "Slip:" is not part of the model: *)
(* it is the definition below it with a plausible mistake, used to show    *)
(* that the properties would notice.                                       *)
(***************************************************************************)
EXTENDS Integers, Sequences, FiniteSets

CONSTANTS
  MaxJobs,      \* bound: push is called at most MaxJobs times
  Concurrent,   \* options.concurrent
  Callers,      \* each makes one call of await() or pause()
  Owner         \* the caller of shutdown(), which is called at most once

ASSUME QueueAssumption ==
  /\ MaxJobs \in Nat
  /\ Concurrent \in Nat \ {0}
  /\ Owner \notin Callers

Jobs == 1..MaxJobs

VARIABLES
  pushed,       \* jobs 1..pushed were taken by enqueue()
  dropped,      \* pushes that found no listener: jobs after those
  worker,       \* the jobs that wait, head first
  active,       \* the jobs process() has shifted and that have not stopped
  runningTasks, \* the counter isOccupied(), isRunning() and amount() read
  inc, done, error,   \* _inc, _done and _error
  paused,       \* _paused
  listening,    \* FALSE once removeAllListeners() has run
  shut,         \* how far shutdown() has come
  phase,        \* phase[j]: where job j is
  stopped,      \* the jobs with _stop set
  call,         \* call[c]: what the promise of c's call waits for, or its end
  joined        \* joined[j]: the promise of a job.done() call

queueVars == <<pushed, dropped, worker, active, runningTasks, phase>>
statVars  == <<inc, done, error>>
vars == <<pushed, dropped, worker, active, runningTasks, inc, done, error,
          paused, listening, shut, phase, stopped, call, joined>>

Phases  == {"new", "enqueued", "launched", "running", "done", "failed", "lost"}
Answers == {"none", "await", "pause", "answered", "rejected", "hung"}
Stages  == {"none", "draining", "pausing", "closed", "failed"}
Joins   == {"none", "waiting", "resolved", "rejected", "hung"}

TypeOK ==
  /\ pushed \in Nat /\ dropped \in Nat /\ pushed + dropped <= MaxJobs
  /\ worker \in Seq(Jobs)
  /\ active \in SUBSET Jobs
  /\ runningTasks \in Nat
  /\ inc \in Nat /\ done \in Nat /\ error \in Nat
  /\ paused \in BOOLEAN /\ listening \in BOOLEAN
  /\ shut \in Stages
  /\ phase \in [Jobs -> Phases]
  /\ stopped \in SUBSET Jobs
  /\ call \in [Callers \cup {Owner} -> Answers]
  /\ joined \in [Jobs -> Joins]

Init ==
  /\ pushed = 0 /\ dropped = 0
  /\ worker = <<>> /\ active = {} /\ runningTasks = 0
  /\ inc = 0 /\ done = 0 /\ error = 0
  /\ paused = FALSE /\ listening = TRUE
  /\ shut = "none"
  /\ phase = [j \in Jobs |-> "new"]
  /\ stopped = {}
  /\ call = [c \in Callers \cup {Owner} |-> "none"]
  /\ joined = [j \in Jobs |-> "none"]

-----------------------------------------------------------------------------
amount == runningTasks + Len(worker)

\* logger and processor are there: shutdown() has not nulled them.
Serving == shut \notin {"closed", "failed"}

\* once(): every promise that waits for `event' is answered.
Emit(event) ==
  [c \in DOMAIN call |-> IF call[c] = event THEN "answered" ELSE call[c]]

Least(a, b) == IF a <= b THEN a ELSE b

\* Slip: isOccupied() with > for >=.
RoomForOneMore(len, r, fires) == Least(fires, Least(Concurrent + 1 - r, len))

\* How many jobs `fires' calls of process() take from a queue of length len
\* while r are running.
Room(len, r, fires) == Least(fires, Least(Concurrent - r, len))

\* Slip: the job that is just ending still counts.
DrainsTooEarly(len, r) == Serving /\ r + len = 1

\* Nothing waits and nothing runs: the drain event.  Its listener drained()
\* fails when there is no processor, and those after it are not reached.
Drains(len, r) == Serving /\ r + len = 0

\* What n calls of shift() leave.
Rest(w, n) == SubSeq(w, n + 1, Len(w))

\* `fires' calls of process() in a row, on a queue w with phases ph, r jobs
\* running and a the active ones.
Process(w, ph, a, r, fires) ==
  LET n     == Room(Len(w), r, fires)
      taken == {w[i] : i \in 1..n}
  IN  /\ worker' = Rest(w, n)
      /\ active' = a \cup taken
      /\ runningTasks' = r + n
      /\ phase' = [j \in Jobs |-> IF j \in taken THEN "launched" ELSE ph[j]]
      /\ call' = IF Drains(Len(w), r) THEN Emit("await") ELSE call

-----------------------------------------------------------------------------
(* Calls of the queue's methods *)

\* push(): enqueue() is a listener, so after removeAllListeners() the job is
\* created, returned to the caller and forgotten.
Push ==
  LET j == pushed + dropped + 1
  IN  /\ j <= MaxJobs
      /\ \/ /\ listening
            /\ pushed' = pushed + 1
            /\ UNCHANGED dropped
            /\ \/ /\ paused
                  /\ worker' = Append(worker, j)
                  /\ phase' = [phase EXCEPT ![j] = "enqueued"]
                  /\ UNCHANGED <<active, runningTasks, call>>
               \/ /\ ~paused
                  /\ Process(Append(worker, j),
                             [phase EXCEPT ![j] = "enqueued"],
                             active, runningTasks, 1)
         \/ /\ ~listening
            /\ dropped' = dropped + 1
            /\ phase' = [phase EXCEPT ![j] = "lost"]
            /\ UNCHANGED <<pushed, worker, active, runningTasks, call>>
      /\ UNCHANGED <<statVars, paused, listening, shut, stopped, joined>>

\* What await() returns; enqueued() fails once the arrays are null.
AwaitAnswer ==
  IF shut = "closed" THEN "rejected"
  ELSE IF amount > 0 THEN "await" ELSE "answered"

PauseAnswer == IF runningTasks > 0 THEN "pause" ELSE "answered"

Await(c) ==
  /\ call[c] = "none"
  /\ call' = [call EXCEPT ![c] = AwaitAnswer]
  /\ UNCHANGED <<queueVars, statVars, paused, listening, shut, stopped, joined>>

Pause(c) ==
  /\ call[c] = "none"
  /\ paused' = TRUE
  /\ call' = [call EXCEPT ![c] = PauseAnswer]
  /\ UNCHANGED <<queueVars, statVars, listening, shut, stopped, joined>>

\* Slip: one call of process() for all slots.
ResumeFiresOnce == 1

\* resume() calls process() once per slot.
ResumeFires == Concurrent

Resume ==
  /\ paused' = FALSE
  /\ \/ /\ listening
        /\ Process(worker, phase, active, runningTasks, ResumeFires)
     \/ /\ ~listening
        /\ UNCHANGED <<worker, active, runningTasks, phase, call>>
  /\ UNCHANGED <<pushed, dropped, statVars, listening, shut, stopped, joined>>

\* job.done(): a job that has stopped answers at once, whatever its outcome.
JoinAnswer(j) == IF j \in stopped THEN "resolved" ELSE "waiting"

Join(j) ==
  /\ phase[j] # "new"
  /\ joined[j] = "none"
  /\ joined' = [joined EXCEPT ![j] = JoinAnswer(j)]
  /\ UNCHANGED <<queueVars, statVars, paused, listening, shut, stopped, call>>

\* The finish() of the worker that owns the queue: removeAllListeners().
Detach ==
  /\ listening
  /\ listening' = FALSE
  /\ call' = [c \in DOMAIN call |->
                IF call[c] \in {"await", "pause"} THEN "hung" ELSE call[c]]
  /\ joined' = [j \in Jobs |->
                  IF joined[j] = "waiting" THEN "hung" ELSE joined[j]]
  /\ UNCHANGED <<queueVars, statVars, paused, shut, stopped>>

-----------------------------------------------------------------------------
(* The promise chain of a job *)

\* A microtask of shutdown() is due before those of jobs launched later.
ShutdownDue == shut \in {"draining", "pausing"} /\ call[Owner] = "answered"

\* Promise callbacks run in the order process() queued them.
NextToStart(j) == \A i \in Jobs : i < j => phase[i] # "launched"

\* The first then() of a job.
Start(j) ==
  /\ phase[j] = "launched"
  /\ NextToStart(j)
  /\ ~ShutdownDue
  /\ phase' = [phase EXCEPT ![j] = "running"]
  /\ inc' = inc + 1
  /\ UNCHANGED <<pushed, dropped, worker, active, runningTasks, done, error,
                 paused, listening, shut, stopped, call, joined>>

Freed == runningTasks - 1

\* next() reaches process(): it fails on the missing logger right after the
\* decrement, and has nothing to do with the line of a paused queue.
Fires == Serving /\ listening /\ ~paused

NoRunningJobs == Serving /\ paused /\ Freed = 0

\* next(): hands the slot on, or tells those who wait for the pause.
Advance(ph, a) ==
  \/ /\ Fires
     /\ Process(worker, ph, a, Freed, 1)
  \/ /\ ~Fires
     /\ phase' = ph
     /\ active' = a
     /\ runningTasks' = Freed
     /\ call' = IF NoRunningJobs THEN Emit("pause") ELSE call
     /\ UNCHANGED worker

\* processor.do() has settled: the last then(), or the catch().  Without a
\* processor do() always fails.
Finish(j) ==
  /\ phase[j] = "running"
  /\ stopped' = stopped \cup {j}
  /\ \/ /\ Serving
        /\ done' = done + 1
        /\ UNCHANGED error
        /\ joined' = [joined EXCEPT ![j] = IF @ = "waiting" THEN "resolved" ELSE @]
        /\ Advance([phase EXCEPT ![j] = "done"], active \ {j})
     \/ /\ error' = error + 1
        /\ UNCHANGED done
        /\ joined' = [joined EXCEPT ![j] = IF @ = "waiting" THEN "rejected" ELSE @]
        /\ Advance([phase EXCEPT ![j] = "failed"], active \ {j})
  /\ UNCHANGED <<pushed, dropped, inc, paused, listening, shut>>

-----------------------------------------------------------------------------
(* shutdown(doAwait) *)

ShutdownPauses ==
  /\ shut' = "pausing"
  /\ paused' = TRUE
  /\ call' = [call EXCEPT ![Owner] = PauseAnswer]

ShutdownBegin(doAwait) ==
  /\ shut = "none"
  /\ \/ /\ doAwait
        /\ shut' = "draining"
        /\ call' = [call EXCEPT ![Owner] = AwaitAnswer]
        /\ UNCHANGED paused
     \/ ~doAwait /\ ShutdownPauses
  /\ UNCHANGED <<queueVars, statVars, listening, stopped, joined>>

ShutdownPause ==
  /\ shut = "draining"
  /\ call[Owner] = "answered"
  /\ ShutdownPauses
  /\ UNCHANGED <<queueVars, statVars, listening, stopped, joined>>

\* Slip: finalize() forgives a job that was never started.
FinalizeForgives == TRUE

\* finalize() fails on the first job there is.
NothingToFinalize == worker = <<>> /\ active = {}

\* The rest of shutdown(): finalize() stops a job that has not started and
\* fails on its missing start date, after which nothing else is done.
ShutdownFinish ==
  /\ shut = "pausing"
  /\ call[Owner] = "answered"
  /\ \/ /\ NothingToFinalize
        /\ shut' = "closed"
        /\ listening' = FALSE
        /\ call' = [c \in DOMAIN call |->
                      IF call[c] \in {"await", "pause"} THEN "hung" ELSE call[c]]
        /\ joined' = [j \in Jobs |->
                        IF joined[j] = "waiting" THEN "hung" ELSE joined[j]]
        /\ UNCHANGED stopped
     \/ /\ worker # <<>>
        /\ shut' = "failed"
        /\ stopped' = stopped \cup {worker[1]}
        /\ UNCHANGED <<listening, call, joined>>
     \/ /\ worker = <<>>
        /\ \E j \in active :
             /\ \A i \in active : j <= i
             /\ stopped' = stopped \cup {j}
        /\ shut' = "failed"
        /\ UNCHANGED <<listening, call, joined>>
  /\ UNCHANGED <<queueVars, statVars, paused>>

-----------------------------------------------------------------------------
Next ==
  \/ Push
  \/ \E c \in Callers : Await(c) \/ Pause(c)
  \/ Resume
  \/ \E j \in Jobs : Join(j) \/ Start(j) \/ Finish(j)
  \/ Detach
  \/ \E doAwait \in BOOLEAN : ShutdownBegin(doAwait)
  \/ ShutdownPause
  \/ ShutdownFinish

\* Microtasks run, and the processor's promise settles.  Nobody is obliged to
\* push, pause, resume or shut down.
Fairness ==
  /\ \A j \in Jobs : WF_vars(Start(j)) /\ WF_vars(Finish(j))
  /\ WF_vars(ShutdownPause) /\ WF_vars(ShutdownFinish)

Spec == Init /\ [][Next]_vars /\ Fairness

-----------------------------------------------------------------------------
(* Properties *)

InSlot  == {"launched", "running"}
Ended   == {"done", "failed"}
Begun   == InSlot \cup Ended
Attached == listening /\ Serving

\* The counter that admits jobs tells the truth whatever interleaves: it is
\* the number of jobs that hold a slot, they are the ones in `active', and
\* there are never more than `concurrent'.
SlotsAccounted ==
  /\ active = {j \in Jobs : phase[j] \in InSlot}
  /\ runningTasks = Cardinality(active)
  /\ runningTasks <= Concurrent

\* No slot idles while a job waits: every push, every end of a job and every
\* resume() hands out as many slots as it may, so that a queue that is neither
\* paused nor taken down never needs a later event to get moving again.
WorkConserving ==
  Attached /\ ~paused /\ worker # <<>> => runningTasks = Concurrent

\* No accepted job is lost or queued twice: the array of waiting jobs is, in
\* order, the tail of the accepted ones.
WaitingInOrder ==
  worker = [i \in 1..Len(worker) |-> pushed - Len(worker) + i]

\* processor.do() is called in the order of the pushes, although it is called
\* from the promise chain of each job and not from process().
StartsInPushOrder ==
  \A j, k \in Jobs : j < k /\ phase[k] \in {"running", "done", "failed"}
                       => phase[j] \notin {"enqueued", "launched"}

\* Whoever waits in await() has an event to wait for: some job of the queue
\* has yet to end, or the queue is paused and resume() will drain it.
NoStrandedAwait ==
  Attached => \A c \in DOMAIN call : call[c] = "await" => amount > 0 \/ paused

\* A shutdown that succeeds leaves no accepted job behind: the job counters
\* add up to the jobs ever accepted.
ShutdownLeavesNothing ==
  shut = "closed" => /\ inc = pushed
                     /\ done + error = pushed

\* done(): "Wait till the job is finished" (QueueJob.ts:84).  A job is finished
\* when it has been started and stopped (isFinished()).
\* The code does not keep it: TLC finds a counterexample (README, 5).
DoneMeansFinished == \A j \in Jobs : joined[j] = "resolved" => phase[j] \in Ended

Undisturbed == Attached /\ ~paused /\ shut = "none"

\* A queue that is left alone from some point on ends every job it accepted.
JobsEnd ==
  <>[]Undisturbed =>
    \A j \in Jobs : phase[j] = "enqueued" ~> phase[j] \in Ended

\* ... and answers everybody who waits in await().
AwaitEnds ==
  <>[]Undisturbed =>
    \A c \in Callers : call[c] = "await" ~> call[c] = "answered"

\* pause() answers once the running jobs have ended.  Only without resume():
\* a resume() before that leaves the pausing caller without an event.
PauseEnds ==
  \A c \in Callers :
    [](call[c] = "pause" => paused) =>
      (call[c] = "pause" ~> call[c] = "answered" \/ ~Attached)

\* shutdown() always comes to an end, be it with an exception, unless the
\* queue is paused, resumed or stripped of its listeners under way.
ShutdownEnds ==
  /\ [](listening \/ shut = "closed")
  /\ [](shut = "draining" => ~paused)
  /\ [](shut = "pausing" => paused)
  => (shut # "none" ~> shut \in {"closed", "failed"})

\* Whatever is called on the queue comes to its end: jobs, await(), pause() and
\* shutdown() (AsyncWorkerQueue.ts:54, where the end of a job moves them all on).
CallsEnd == JobsEnd /\ AwaitEnds /\ PauseEnds /\ ShutdownEnds

Pool == INSTANCE JobPool WITH
          Limit    <- Concurrent,
          accepted <- pushed,
          begun    <- pushed - Len(worker),
          ended    <- {j \in Jobs : phase[j] \in Ended}

\* The queue implements the pool: jobs begin in order, at most `concurrent' at
\* a time, each ends at most once, and nothing else ever frees a slot.
ImplementsPool == Pool!PoolSpec
=============================================================================
