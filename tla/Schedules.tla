------------------------------ MODULE Schedules ------------------------------
(***************************************************************************)
(* The scheduler of a process: libs/schedule/Scheduler.ts and Schedule.ts, *)
(* with the factories of adapters/scheduler that tell when a schedule runs *)
(* (an offset or a cron pattern) and what it does (an event or a task).    *)
(*                                                                         *)
(* Time is a number that grows; a timer fires when it is due or later, as  *)
(* the event loop allows.  A definition is what the configuration says of  *)
(* a schedule, its strings already read: an offset in one unit, 0 if there *)
(* is none or it cannot be read; a start; for a pattern the times that it  *)
(* matches.  Reading the names of events and tasks is left out.            *)
(***************************************************************************)
EXTENDS Integers, Sequences, FiniteSets, FiniteSetsExt

CONSTANTS
  Defs,       \* the definitions given to register(), each once
  MaxDelay,   \* the longest time setTimeout() can wait, 2^31 - 1 ms
  Minute,     \* after which a schedule with option startup begins
  Horizon     \* bound: the last moment of a behaviour

Never == 0
Keys == {"executionConcurrency", "targetId"}
Definitions == [name : STRING, cron : SUBSET Nat, offset : Nat, start : Nat,
                startup : BOOLEAN, does : {"nothing", "event", "task"},
                params : BOOLEAN, parallel : BOOLEAN, given : SUBSET Keys]

ASSUME SchedulesAssumption ==
  /\ Defs \in SUBSET Definitions
  /\ MaxDelay \in Nat \ {0} /\ Minute \in Nat \ {0} /\ Horizon \in Nat \ {0}

VARIABLES
  now,
  call,      \* call[d]: what register(d) has come to
  schedules, \* the schedules of the scheduler, by their definitions
  start,     \* start[d]: from where the offset is counted
  next,      \* schedule.next
  timer,     \* timer[d]: when the timer is due, Never if there is none
  under,     \* under[d]: how many times runSchedule() awaits execute()
  options,   \* options[d]: the keys of the options object execute() passes on
  runs,      \* history: runs[d]: for each call of execute() the time it was due
             \* and the option keys it was made with
  failed,    \* history: schedules with a call of execute() that rejected
  stopped    \* history: shutdown() was called

scheduleVars == <<now, call, schedules, start, next, timer, under, options, runs,
                  failed, stopped>>

\* Has a factory that tells when
Timed(d) == d.cron # {} \/ d.offset > 0

TypeOKSchedules ==
  /\ now \in 0..Horizon
  /\ call \in [Defs -> {"none", "attaching", "done", "refused"}]
  /\ schedules \in SUBSET Defs
  /\ start \in [Defs -> Nat] /\ next \in [Defs -> Nat] /\ timer \in [Defs -> Nat]
  /\ under \in [Defs -> Nat]
  /\ options \in [Defs -> SUBSET Keys]
  /\ runs \in [Defs -> Seq([due : Nat, asked : SUBSET Keys])]
  /\ failed \in SUBSET Defs /\ stopped \in BOOLEAN

InitSchedules ==
  /\ now = 1
  /\ call = [d \in Defs |-> "none"]
  /\ schedules = {}
  /\ start = [d \in Defs |-> d.start]
  /\ next = [d \in Defs |-> Never]
  /\ timer = [d \in Defs |-> Never]
  /\ under = [d \in Defs |-> 0]
  /\ options = [d \in Defs |-> {}]
  /\ runs = [d \in Defs |-> <<>>]
  /\ failed = {} /\ stopped = FALSE

-----------------------------------------------------------------------------
(* When: DefaultScheduleFactory and CronScheduleFactory *)

\* Slip: counted from the moment instead of from the last time.
FromNow(d, last) == now + d.offset
\* The loop over last, last + offset, ... up to the first one after now.
NextByOffset(d, last) ==
  IF last > now THEN last
  ELSE last + d.offset * ((now - last) \div d.offset + 1)

\* The next match of the pattern; one is taken to be right behind the Horizon.
Matches(d) == d.cron \cup {Horizon + 1}
NextByCron(d) == Min({t \in Matches(d) : t > now})

\* The factories attach one after the other: an offset replaces a pattern.
Upcoming(d, last) == IF d.offset > 0 THEN NextByOffset(d, last) ELSE NextByCron(d)

\* setTimeout(): what is too long for it is one millisecond.
DueAt(t) == IF t - now > MaxDelay THEN now + 1 ELSE t

\* doReschedule
Reschedule(d, last) ==
  IF Timed(d)
  THEN next' = [next EXCEPT ![d] = Upcoming(d, last)]
       /\ timer' = [timer EXCEPT ![d] = DueAt(Upcoming(d, last))]
  ELSE UNCHANGED <<next, timer>>

-----------------------------------------------------------------------------
(* What: TaskExecuteFactory and EventScheduleFactory *)

\* attach: the params of the task, if there are any, else what stands beside
\* its name; parallel is looked for in the same place.
OptionsOf(d) ==
  IF d.params THEN d.given
  ELSE d.given \cup (IF d.parallel THEN {"executionConcurrency"} ELSE {})

-----------------------------------------------------------------------------
(* The scheduler *)

Tick ==
  /\ now < Horizon /\ now' = now + 1
  /\ UNCHANGED <<call, schedules, start, next, timer, under, options, runs, failed, stopped>>

Listed(d) == schedules' = schedules \cup {d}

\* register, up to the first factory it awaits
Register(d) ==
  /\ call[d] = "none" /\ ~stopped
  /\ IF \E e \in schedules : e.name = d.name
     THEN call' = [call EXCEPT ![d] = "refused"] /\ UNCHANGED schedules
     ELSE call' = [call EXCEPT ![d] = "attaching"] /\ Listed(d)
  /\ UNCHANGED <<now, start, next, timer, under, options, runs, failed, stopped>>

\* The factories have attached themselves.  With option startup the schedule
\* begins in a minute, whatever start it has.
Attached(d) ==
  LET begins == IF d.startup THEN now + Minute ELSE d.start
  IN  /\ call[d] = "attaching"
      /\ call' = [call EXCEPT ![d] = "done"]
      /\ schedules' = schedules \cup {d}
      /\ start' = [start EXCEPT ![d] = begins]
      /\ options' = [options EXCEPT ![d] = OptionsOf(d)]
      /\ Reschedule(d, begins)
      /\ UNCHANGED <<now, under, runs, failed, stopped>>

\* The end of runSchedule(): clearTimeout(), then doReschedule()
Renewed(d) == Reschedule(d, next[d])

\* The timer fires, and runSchedule() calls execute(), if there is one;
\* TasksHelper.exec() takes the options out of the object it is given.
Fire(d) ==
  /\ timer[d] # Never /\ timer[d] <= now
  /\ runs' = [runs EXCEPT ![d] = Append(@, [due |-> next[d], asked |-> options[d]])]
  /\ options' = IF d.does = "task" THEN [options EXCEPT ![d] = {}] ELSE options
  /\ IF d.does = "nothing"
     THEN Renewed(d) /\ UNCHANGED under
     ELSE /\ timer' = [timer EXCEPT ![d] = Never]
          /\ under' = [under EXCEPT ![d] = @ + 1]
          /\ UNCHANGED next
  /\ UNCHANGED <<now, call, schedules, start, failed, stopped>>

Executed(d) ==
  /\ under[d] > 0
  /\ under' = [under EXCEPT ![d] = @ - 1]
  /\ Renewed(d)
  /\ UNCHANGED <<now, call, schedules, start, options, runs, failed, stopped>>

\* execute() rejects, and so does runSchedule(): nobody schedules again.
Rejected(d) ==
  /\ under[d] > 0
  /\ under' = [under EXCEPT ![d] = @ - 1]
  /\ failed' = failed \cup {d}
  /\ UNCHANGED <<now, call, schedules, start, next, timer, options, runs, stopped>>

\* shutdown, which the tests call: the timers of all schedules are cleared.
ShutdownTimers ==
  /\ ~stopped
  /\ stopped' = TRUE
  /\ timer' = [d \in Defs |-> IF d \in schedules THEN Never ELSE timer[d]]
  /\ UNCHANGED <<now, call, schedules, start, next, under, options, runs, failed>>

NextSchedules ==
  \/ Tick \/ ShutdownTimers
  \/ \E d \in Defs : Register(d) \/ Attached(d) \/ Fire(d)
                     \/ Executed(d) \/ Rejected(d)

SpecSchedules == InitSchedules /\ [][NextSchedules]_scheduleVars

-----------------------------------------------------------------------------
(* Properties *)

\* Two calls of register() at the same time do not get the same name.
OneOfAName ==
  \A d, e \in Defs : d # e /\ d.name = e.name =>
    ~({call[d], call[e]} \subseteq {"attaching", "done"})

\* The times of a schedule.
OnTime(d, t) ==
  IF d.offset > 0 THEN t >= start[d] /\ (t - start[d]) % d.offset = 0 ELSE t \in d.cron

\* From no moment on setTimeout() takes the time to the next one for too long.
Regular(d) ==
  /\ d.offset <= MaxDelay /\ d.start <= MaxDelay /\ Minute <= MaxDelay
  /\ d.offset = 0 =>
       \A t \in 1..Horizon : \E match \in Matches(d) : t < match /\ match <= t + MaxDelay

\* However late timers fire and however long execute() takes, a schedule is
\* executed at times of its definition only, at none twice, and in their
\* order: it neither drifts nor catches up.
EachTimeOnce ==
  \A d \in Defs : Regular(d) => \A i \in 1..Len(runs[d]) :
    /\ OnTime(d, runs[d][i].due) /\ runs[d][i].due <= now
    /\ \A j \in 1..i - 1 : runs[d][j].due < runs[d][i].due

\* A schedule is executed by one call at a time, and until somebody stops it
\* or an execution fails, it is being executed or has a timer.
GoesOn ==
  \A d \in Defs :
    /\ under[d] <= 1 /\ (under[d] = 1 => timer[d] = Never)
    /\ call[d] = "done" /\ Timed(d) /\ ~stopped /\ d \notin failed =>
         under[d] = 1 \/ timer[d] # Never

\* A schedule has its own name, keeps its times and is kept up (Scheduler.ts:60,
\* Schedule.ts:31, 37).
SchedulesKeepTime == OneOfAName /\ EachTimeOnce /\ GoesOn

\* Every execution of a task is made with the options its definition has.
\* The code does not keep it: TLC finds a counterexample (README, 5).
AskedAsDefined ==
  \A d \in Defs : \A i \in 1..Len(runs[d]) : runs[d][i].asked = OptionsOf(d)
=============================================================================
