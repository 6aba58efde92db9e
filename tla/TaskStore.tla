----------------------------- MODULE TaskStore ------------------------------
(***************************************************************************)
(* How the state of runs comes into the table of TaskLogs: the monitors    *)
(* (workers/TaskMonitorWorker.ts) of several processes hear the events of  *)
(* all runs, put them into their queues and save them with                 *)
(* TasksStorageHelper.save(), which holds a semaphore per run and process  *)
(* while it finds, saves and removes rows of the shared storage.           *)
(*                                                                         *)
(* An event is its number within its run; it says of all the rows of the   *)
(* run, one per task and target, what state they are in.  The other fields *)
(* of a row go with the state.  Events of topic 'log', which are appended  *)
(* to a file, and monitors without a storage are left out.  The queue is   *)
(* the one of AsyncQueue: jobs start in the order of the events, Slots at  *)
(* a time.                                                                 *)
(***************************************************************************)
EXTENDS Integers, Sequences, FiniteSets

CONSTANTS
  Monitors, Runs,
  Keys,       \* the rows a run has: one for each of its tasks and targets
  Count,      \* Count[r]: how many events with data the run r has
  Missed,     \* Missed[m]: the runs that were over when the monitor m started
  Slots,      \* options.concurrent of the monitor, 40 by default
  Faults      \* bound: the storage refuses at most so many statements

ASSUME TaskStoreAssumption ==
  /\ Count \in [Runs -> Nat \ {0}] /\ Slots \in Nat \ {0} /\ Faults \in Nat
  /\ Missed \in [Monitors -> SUBSET Runs] /\ IsFiniteSet(Keys)

States == UNION {1..Count[r] : r \in Runs}
Rows == [id : Nat, run : Runs, key : Keys, state : States]
Events == [run : Runs, nr : States]
\* A call of save(): what it does next, the rows it is about to save and
\* those it is about to remove.
Saves == [event : Events, next : {"find", "save", "remove"},
          logs : SUBSET Rows, toremove : SUBSET Rows]

VARIABLES
  heard,     \* heard[m][r]: how many events of r have come to the monitor m
  queue,     \* queue[m]: the events that wait for a slot
  doing,     \* doing[m]: the calls of save() under way, as they have started
  taken,     \* taken[m]: runs whose semaphore a call has left without releasing it
  status,    \* status[m]: "on", "finishing" or "finished"
  table,     \* the rows of TaskLog
  ids,       \* the greatest id given
  faults,
  refused    \* history: refused[m]: runs one of whose statements was refused to m

vars == <<heard, queue, doing, taken, status, table, ids, faults, refused>>

TypeOK ==
  /\ heard \in [Monitors -> [Runs -> Nat]]
  /\ queue \in [Monitors -> Seq(Events)]
  /\ doing \in [Monitors -> Seq(Saves)] /\ \A m \in Monitors : Len(doing[m]) <= Slots
  /\ taken \in [Monitors -> SUBSET Runs]
  /\ status \in [Monitors -> {"on", "finishing", "finished"}]
  /\ table \in SUBSET Rows /\ ids \in Nat /\ faults \in 0..Faults
  /\ refused \in [Monitors -> SUBSET Runs]

Init ==
  /\ heard = [m \in Monitors |-> [r \in Runs |-> IF r \in Missed[m] THEN Count[r] ELSE 0]]
  /\ queue = [m \in Monitors |-> <<>>]
  /\ doing = [m \in Monitors |-> <<>>]
  /\ taken = [m \in Monitors |-> {}]
  /\ status = [m \in Monitors |-> "on"]
  /\ table = {} /\ ids = 0 /\ faults = 0
  /\ refused = [m \in Monitors |-> {}]

-----------------------------------------------------------------------------
(* The monitor *)

\* onTaskEvent.  The bus keeps the order of the events of a run, not of two.
Hear(m, r) ==
  /\ status[m] = "on" /\ heard[m][r] < Count[r]
  /\ heard' = [heard EXCEPT ![m][r] = @ + 1]
  /\ queue' = [queue EXCEPT ![m] = Append(@, [run |-> r, nr |-> heard[m][r] + 1])]
  /\ UNCHANGED <<doing, taken, status, table, ids, faults, refused>>

\* do, with save() up to its wait for the semaphore
Start(m) ==
  /\ queue[m] # <<>> /\ Len(doing[m]) < Slots
  /\ queue' = [queue EXCEPT ![m] = Tail(@)]
  /\ doing' = [doing EXCEPT ![m] = Append(@,
       [event |-> Head(queue[m]), next |-> "find", logs |-> {}, toremove |-> {}])]
  /\ UNCHANGED <<heard, taken, status, table, ids, faults, refused>>

Finish(m) ==
  /\ status[m] = "on"
  /\ status' = [status EXCEPT ![m] = "finishing"]
  /\ UNCHANGED <<heard, queue, doing, taken, table, ids, faults, refused>>

\* queue.await()
Finished(m) ==
  /\ status[m] = "finishing" /\ queue[m] = <<>> /\ doing[m] = <<>>
  /\ status' = [status EXCEPT ![m] = "finished"]
  /\ UNCHANGED <<heard, queue, doing, taken, table, ids, faults, refused>>

-----------------------------------------------------------------------------
(* save *)

\* Slip: no wait for the call before.
NoWait(m, i) == TRUE
\* The i-th call has the semaphore of its run.  A semaphore that nobody has
\* or waits for is discarded, and the next call makes a new one.
HasSemaphore(m, i) ==
  LET r == doing[m][i].event.run
  IN  r \notin taken[m] /\ \A j \in 1..i - 1 : doing[m][j].event.run # r

Ready(m, i, what) == HasSemaphore(m, i) /\ doing[m][i].next = what

\* The call is over, and its slot free.
Without(m, i) == [doing EXCEPT ![m] =
                    SubSeq(@, 1, i - 1) \o SubSeq(@, i + 1, Len(@))]

OfRun(r) == {x \in table : x.run = r}
OldestOf(rows) == CHOOSE x \in rows : \A y \in rows : x.id <= y.id

\* The first row of each key, or a new one without an id, in its new state.
Updated(e, found) ==
  {[id |-> IF \E x \in found : x.key = k
           THEN OldestOf({x \in found : x.key = k}).id ELSE 0,
    run |-> e.run, key |-> k, state |-> e.nr] : k \in Keys}

\* All but the first row of each key.
Duplicates(found) == {x \in found : \E y \in found : y.key = x.key /\ y.id < x.id}

Find(m, i) ==
  LET e == doing[m][i].event
      found == OfRun(e.run)
  IN  /\ Ready(m, i, "find")
      /\ doing' = [doing EXCEPT ![m][i] =
           [event |-> e, next |-> "save", logs |-> Updated(e, found),
            toremove |-> Duplicates(found)]]
      /\ UNCHANGED <<heard, queue, taken, status, table, ids, faults, refused>>

\* The ids that the storage gives to new rows.
NewIds(new) ==
  CHOOSE f \in [new -> ids + 1..ids + Cardinality(new)] : \A x, y \in new : f[x] = f[y] => x = y

\* The storage inserts what has no id, or one that is gone, and else updates.
Stored(logs) ==
  LET new == {x \in logs : x.id = 0}
  IN  {x \in table : \A y \in logs : y.id # x.id}
        \cup (logs \ new) \cup {[x EXCEPT !.id = NewIds(new)[x]] : x \in new}

\* Slip: the semaphore is not released.
LeavesIt(m, i) == taken' = [taken EXCEPT ![m] = @ \cup {doing[m][i].event.run}]
\* release(): the next one in doing[m] has it.
Release(m, i) == UNCHANGED taken

Save(m, i) ==
  LET logs == doing[m][i].logs
  IN  /\ Ready(m, i, "save")
      /\ table' = Stored(logs)
      /\ ids' = ids + Cardinality({x \in logs : x.id = 0})
      /\ IF doing[m][i].toremove = {}
         THEN doing' = Without(m, i) /\ Release(m, i)
         ELSE doing' = [doing EXCEPT ![m][i].next = "remove"] /\ UNCHANGED taken
      /\ UNCHANGED <<heard, queue, status, faults, refused>>

RemoveRows(m, i) ==
  /\ Ready(m, i, "remove")
  /\ table' = {x \in table : \A y \in doing[m][i].toremove : x.id # y.id}
  /\ doing' = Without(m, i) /\ Release(m, i)
  /\ UNCHANGED <<heard, queue, status, ids, faults, refused>>

\* A statement is refused: save() rejects without a release, do() logs it.
Refuse(m, i) ==
  /\ faults < Faults
  /\ HasSemaphore(m, i)
  /\ faults' = faults + 1
  /\ doing' = Without(m, i)
  /\ taken' = [taken EXCEPT ![m] = @ \cup {doing[m][i].event.run}]
  /\ refused' = [refused EXCEPT ![m] = @ \cup {doing[m][i].event.run}]
  /\ UNCHANGED <<heard, queue, status, table, ids>>

Saving(m) == \E i \in 1..Len(doing[m]) : Find(m, i) \/ Save(m, i) \/ RemoveRows(m, i)

Next ==
  \E m \in Monitors :
    \/ \E r \in Runs : Hear(m, r)
    \/ Start(m) \/ Finish(m) \/ Finished(m)
    \/ Saving(m)
    \/ \E i \in 1..Len(doing[m]) : Refuse(m, i)

\* The queue starts what it has, the storage answers; events and finish()
\* may or may not come.
Fairness ==
  \A m \in Monitors :
    /\ WF_vars(Start(m)) /\ WF_vars(Finished(m)) /\ WF_vars(Saving(m))

Spec == Init /\ [][Next]_vars /\ Fairness

-----------------------------------------------------------------------------
(* Properties *)

\* Every monitor has heard all events of the run, and saved them; one has not missed it.
AllSaved(r) ==
  /\ \E m \in Monitors : r \notin Missed[m]
  /\ \A m \in Monitors :
       /\ heard[m][r] = Count[r] /\ r \notin refused[m]
       /\ \A i \in 1..Len(queue[m]) : queue[m][i].run # r
       /\ \A i \in 1..Len(doing[m]) : doing[m][i].event.run # r

\* Whatever the monitors did at the same time, in the end there is one row
\* for each task and target, in the state of the last event.  A run with a
\* single event may end with a row of each monitor.
LastStateStored ==
  \A r \in Runs : Count[r] > 1 /\ AllSaved(r) =>
    \A k \in Keys : \E x \in OfRun(r) :
        /\ x.state = Count[r]
        /\ {y \in OfRun(r) : y.key = k} = {x}

\* The calls for such runs occupy every slot.
Full(m) == Len(doing[m]) = Slots /\ \A i \in 1..Slots : doing[m][i].event.run \in refused[m]

Pending(m, e) ==
  \/ \E i \in 1..Len(queue[m]) : queue[m][i] = e
  \/ \E i \in 1..Len(doing[m]) : doing[m][i].event = e

\* An event that a monitor has heard is saved, unless a statement for its run
\* was refused before or such runs have taken all slots of the monitor.
StoresEnd ==
  \A m \in Monitors, r \in Runs : \A n \in 1..Count[r] :
    LET e == [run |-> r, nr |-> n]
    IN  Pending(m, e) ~> ~Pending(m, e) \/ r \in refused[m] \/ Full(m)

\* finish() returns, unless a refused statement has left a semaphore taken.
FinishEnds ==
  \A m \in Monitors : status[m] = "finishing" ~> status[m] = "finished" \/ refused[m] # {}

\* A statement the storage refuses holds up its own run only: what a monitor has
\* heard is stored, and its finish() returns (TasksStorageHelper.ts:88).
MonitorsEnd == StoresEnd /\ FinishEnds
=============================================================================
