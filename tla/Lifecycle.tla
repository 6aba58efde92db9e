------------------------------ MODULE Lifecycle ------------------------------
(***************************************************************************)
(* How a process starts and stops: Bootstrap.ts goes through the storages, *)
(* the activators and the bootstrap and ready functions of all modules;    *)
(* Startup.ts is the module of this package, whose parts start and stop in *)
(* an order of their own.  shutdown() may be called by signals, by an      *)
(* uncaught exception and by the program, at any time and together.        *)
(*                                                                         *)
(* A part is up from the step that starts it to the one that stops it.     *)
(* Loading of classes and of the configuration, what a command does before *)
(* and after the start, and parts that nobody has to stop are left out.    *)
(***************************************************************************)
EXTENDS Integers, Sequences, FiniteSets, SequencesExt

CONSTANTS
  Storages,      \* a sequence: the names of the configured storages
  Modules,       \* a sequence: the modules of the loader, one of them Base
  Base,          \* this package
  WorkerClasses, \* a sequence: the registered workers
  Signals, Others, \* who calls shutdown(): signals, and anybody else
  Failures       \* bound: how many steps fail

Callers == Signals \cup Others

\* The activator makes the registries; bootstrap and ready of Startup, and
\* shutdown, have their parts in this order.
ActivatorOfBase == <<"tasks">>
BootstrapOfBase == <<"bus", "runners", "cache", "entry", "exchange", "watchers">>
ReadyOfBase == WorkerClasses \o <<"timers", "node">>
ShutdownOfBase == <<"runners", "entry", "cache", "node", "bus", "tasks">>
                    \o WorkerClasses \o <<"watchers">>

\* One step for each module before and after this package, which has several.
OfModules(parts) ==
  LET own == CHOOSE i \in DOMAIN Modules : Modules[i] = Base
  IN  SubSeq(Modules, 1, own - 1) \o parts \o SubSeq(Modules, own + 1, Len(Modules))

\* startup: activateStorage(), prepareRuntime() and createSystemInfo() before.
StartSteps ==
  <<"handlers">> \o Storages \o ActivatorOfBase
    \o OfModules(BootstrapOfBase) \o <<"running">> \o ReadyOfBase

\* Slip: the storages before the modules.
StorageFirst ==
  <<"storages">> \o OfModules(ShutdownOfBase) \o <<"locks">>
\* shutdown of Bootstrap, once it has found the process running
ShutdownSteps == OfModules(ShutdownOfBase) \o <<"storages", "locks">>

OwnParts == {"handlers", "tasks", "bus", "runners", "cache", "entry", "exchange", "watchers",
             "running", "timers", "node", "storages", "locks"}

\* The parts have names of their own.
ASSUME LifecycleAssumption ==
  /\ \A names \in {Storages, Modules, WorkerClasses} :
       names \in Seq(STRING) /\ IsInjective(names) /\ Range(names) \cap OwnParts = {}
  /\ Range(Storages) \cap Range(Modules) = {} /\ Range(Storages) \cap Range(WorkerClasses) = {}
  /\ Range(Modules) \cap Range(WorkerClasses) = {}
  /\ Base \in Range(Modules) /\ Failures \in Nat
  /\ Signals \cap Others = {}

VARIABLES
  step,      \* how many of the StartSteps are done
  startup,   \* startup(): "starting", "done" or "rejected"
  running,
  up,        \* the parts that are up
  inList,    \* the workers in the list of Workers
  at,        \* at[c]: how far the call of shutdown() of c is: 0 before it, the
             \* number of its next step, or one of Ends
  exited,
  failures,
  undone,    \* history: the number of times each step of shutdown was taken
  without,   \* history: steps of modules taken when a storage was closed
  whole      \* history: the shutdown began when startup was done

lifeVars == <<step, startup, running, up, inList, at, exited, failures, undone, without, whole>>

Returned == -1
HasRejected == -2
Parts == Range(StartSteps) \cup Range(ShutdownSteps)

TypeOKLife ==
  /\ step \in 0..Len(StartSteps) /\ startup \in {"starting", "done", "rejected"}
  /\ running \in BOOLEAN /\ up \subseteq Parts /\ inList \subseteq Range(WorkerClasses)
  /\ at \in [Callers -> -2..Len(ShutdownSteps) + 1]
  /\ exited \in BOOLEAN /\ failures \in 0..Failures
  /\ undone \in [Range(ShutdownSteps) -> Nat] /\ without \subseteq Parts /\ whole \in BOOLEAN

InitLife ==
  /\ step = 0 /\ startup = "starting" /\ running = FALSE /\ up = {} /\ inList = {}
  /\ at = [c \in Callers |-> 0] /\ exited = FALSE /\ failures = 0
  /\ undone = [p \in Range(ShutdownSteps) |-> 0] /\ without = {} /\ whole = FALSE

-----------------------------------------------------------------------------
(* startup *)

Starting(p) ==
  /\ ~exited /\ startup = "starting" /\ StartSteps[step + 1] = p
  /\ UNCHANGED <<at, exited, undone, without, whole>>
Advances ==
  /\ step' = step + 1
  /\ startup' = IF step + 1 = Len(StartSteps) THEN "done" ELSE "starting"

\* What a step leaves up; a node that is not distributed is idle.
StartsUp(p) == up' = up \cup (IF p = "running" THEN {} ELSE {p})

StartPart(p) ==
  /\ Starting(p) /\ p \notin Range(WorkerClasses)
  /\ StartsUp(p) /\ running' = (running \/ p = "running")
  /\ Advances
  /\ UNCHANGED <<inList, failures>>

\* Workers.startup: prepare() subscribes the worker and puts it in the list.
StartWorker(w) ==
  /\ Starting(w) /\ w \in Range(WorkerClasses)
  /\ up' = up \cup {w} /\ inList' = inList \cup {w}
  /\ Advances
  /\ UNCHANGED <<running, failures>>

\* prepare() rejects, before or after it has subscribed: the error is logged.
WorkerFails(w) ==
  /\ Starting(w) /\ w \in Range(WorkerClasses) /\ failures < Failures
  /\ failures' = failures + 1
  /\ up' \in {up, up \cup {w}}
  /\ Advances
  /\ UNCHANGED <<running, inList>>

\* Any other step that rejects ends the startup; what is up stays up.
StartFails(p) ==
  /\ Starting(p) /\ p \notin Range(WorkerClasses) \cup {"running", "handlers"}
  /\ failures < Failures
  /\ failures' = failures + 1
  /\ startup' = "rejected"
  /\ UNCHANGED <<step, running, up, inList>>

-----------------------------------------------------------------------------
(* shutdown *)

ResetAtOnce == running' = FALSE

\* Signals are caught once their handlers are there.
MayCall(c) == at[c] = 0 /\ (c \in Signals => "handlers" \in up)

\* A call that finds the process running begins the shutdown.
BeginShutdown(c) ==
  /\ ~exited /\ MayCall(c) /\ running
  /\ at' = [at EXCEPT ![c] = 1]
  /\ ResetAtOnce
  /\ whole' = (startup = "done")
  /\ UNCHANGED <<step, startup, up, inList, exited, failures, undone, without>>

\* Else it returns, and after a signal the process exits.
ReturnAtOnce(c) ==
  /\ ~exited /\ MayCall(c) /\ ~running
  /\ at' = [at EXCEPT ![c] = Returned]
  /\ exited' = (c \in Signals)
  /\ UNCHANGED <<step, startup, running, up, inList, failures, undone, without, whole>>

InShutdown(c) == ~exited /\ at[c] > 0 /\ at[c] <= Len(ShutdownSteps)
Undoes(c) == ShutdownSteps[at[c]]

\* Workers.shutdown finishes the workers of the list; the storages and the
\* locks are shut down whether one of them rejects or not.
StopsPart(p) ==
  IF p \in Range(WorkerClasses) THEN up' = up \ ({p} \cap inList)
  ELSE IF p = "storages" THEN up' = up \ Range(Storages)
  ELSE up' = up \ {p}

Record(p) ==
  /\ undone' = [undone EXCEPT ![p] = @ + 1]
  /\ without' = IF p \notin {"storages", "locks"} /\ ~(Range(Storages) \subseteq up)
                THEN without \cup {p} ELSE without

ShutdownStep(c) ==
  /\ InShutdown(c)
  /\ StopsPart(Undoes(c)) /\ Record(Undoes(c))
  /\ at' = [at EXCEPT ![c] = @ + 1]
  /\ UNCHANGED <<step, startup, running, inList, exited, failures, whole>>

\* A storage that cannot be closed is logged.
StorageStays(c) ==
  /\ InShutdown(c) /\ Undoes(c) = "storages" /\ failures < Failures
  /\ failures' = failures + 1
  /\ \E s \in Range(Storages) : up' = (up \ Range(Storages)) \cup ({s} \cap up)
  /\ Record("storages")
  /\ at' = [at EXCEPT ![c] = @ + 1]
  /\ UNCHANGED <<step, startup, running, inList, exited, whole>>

\* The shutdown of a module rejects, and with it the call.
ShutdownFails(c) ==
  /\ InShutdown(c) /\ Undoes(c) \notin {"storages", "locks", "tasks"} /\ failures < Failures
  /\ failures' = failures + 1
  /\ at' = [at EXCEPT ![c] = HasRejected]
  /\ UNCHANGED <<step, startup, running, up, inList, exited, undone, without, whole>>

\* The registries and the handlers are removed; after a signal: process.exit().
EndShutdown(c) ==
  /\ ~exited /\ at[c] = Len(ShutdownSteps) + 1
  /\ at' = [at EXCEPT ![c] = Returned]
  /\ running' = FALSE
  /\ up' = up \ {"handlers", "exchange"}
  /\ exited' = (c \in Signals)
  /\ UNCHANGED <<step, startup, inList, failures, undone, without, whole>>

NextLife ==
  \/ \E p \in Parts : StartPart(p) \/ StartWorker(p) \/ WorkerFails(p) \/ StartFails(p)
  \/ \E c \in Callers : \/ BeginShutdown(c) \/ ReturnAtOnce(c) \/ ShutdownStep(c)
                        \/ StorageStays(c) \/ ShutdownFails(c) \/ EndShutdown(c)

SpecLife == InitLife /\ [][NextLife]_lifeVars

-----------------------------------------------------------------------------
(* Properties *)

\* However many callers there are and whenever they come, no part is shut
\* down twice.
PartsStopOnce == \A p \in Range(ShutdownSteps) : undone[p] <= 1

\* The modules, and the workers that save what they still have to do, find the
\* storages open until the last of them has been shut down.
StoragesOutliveModules == without = {}

\* A shutdown that began when the process was completely started, and in which
\* no step failed, leaves nothing behind but the timers of the schedules.
NothingLeft ==
  undone["locks"] > 0 /\ "handlers" \notin up /\ whole /\ failures = 0 =>
    up \subseteq {"timers"}

\* The process stops each part once, after those that need it, and all of them
\* (Bootstrap.ts:290).
StopsInOrder == PartsStopOnce /\ StoragesOutliveModules /\ NothingLeft
=============================================================================
