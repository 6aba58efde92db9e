---------------------------- MODULE TaskRegistry ----------------------------
(***************************************************************************)
(* The registry of tasks of a process (libs/tasks/Tasks.ts, TaskRef.ts),   *)
(* and what is made of it when tasks are executed here: TasksHelper.exec() *)
(* and the runs that the constructor of TaskRunner makes of the names.     *)
(*                                                                         *)
(* The program adds, groups, orders, maps and executes tasks at any time,  *)
(* while other nodes come and go; each sends its own tasks only, with the  *)
(* nodes it takes to have them, which may have gone.  How nodes come to    *)
(* know each other's tasks is in NodeTasks, also those of a process that   *)
(* had the id of this one before.                                          *)
(* Incoming values are required ones, an optional one is only warned of.   *)
(***************************************************************************)
EXTENDS Naturals, Sequences, FiniteSets, SequencesExt

CONSTANTS
  TaskDefs,   \* what the program adds: [name, kind, class, groups]
  Incoming, Outgoing,   \* Incoming[c]: the values a class needs; what it gives
  Bindings,   \* calls of group() and dependsOn(): [kind, source, target]
  Mappings,   \* calls of taskMap(): <<new name, name>>
  Access,     \* the rules of the configuration: [names, allow]
  Own,        \* this node
  Offered,    \* Offered[n]: the names another node sends, in their order
  HeardOf,    \* HeardOf[n]: which sets of further nodes it may take to be there
  Asked       \* calls of exec(): [names, given]

ASSUME TasksAssumption ==
  \A n \in DOMAIN Offered : n # Own /\ HeardOf[n] \subseteq SUBSET (DOMAIN Offered \ {n})

VARIABLES
  known,      \* the registry: tasks by name, bindings, classes whose properties it has
  present,    \* the other nodes that are there
  told,       \* history: <<name, node>> that were taken over from a third node's info
  ended       \* of the last call

taskVars == <<known, present, told, ended>>

Idle == [what |-> "idle"]
InitTasks ==
  /\ known = [tasks |-> <<>>, group |-> {}, depends |-> {}, described |-> {}]
  /\ present = {} /\ told = {} /\ ended = Idle

-----------------------------------------------------------------------------
(* Names *)

Names(k) == DOMAIN k.tasks
Remote(k) == {n \in Names(k) : k.tasks[n].kind = "remote"}
Local(k) == Names(k) \ Remote(k)
Binding(source, target) == [source |-> source, target |-> target]
Lists(k, name) == name \in Names(k) \/ \E b \in k.group : b.source = name
Subtasks(k, name) == {b.target : b \in {x \in k.group : x.source = name}}
DependsOf(k, name) == {b.source : b \in {x \in k.depends : x.target = name}}

\* Every rule matches by pattern; those that match allow what one of them allows.
Accessible(name) ==
  LET matching == {i \in DOMAIN Access : name \in Access[i].names}
  IN matching = {} \/ \E i \in matching : Access[i].allow

\* What a call leaves, and the task it returns or null.
Gives(k, ok) == [known |-> k, ok |-> ok]

\* The constructor groups the task, allowed or not.
Constructed(k, name, groups) == [k EXCEPT !.group = @ \cup {Binding(g, name) : g \in groups}]

\* prepare
Task(kind, class) == [kind |-> kind, nodes |-> {}, class |-> class]
TakesProperties(kind) == kind \in {"class", "instance"}

WithNode(k, name, n) == [k EXCEPT !.tasks[name].nodes = @ \cup {n}]

\* addTaskRef: a task that is there gets the node only.
AddTaskRef(k, name, t, n) ==
  IF ~(Accessible(name) \/ t.kind = "remote") THEN Gives(k, FALSE)
  ELSE IF name \in Names(k) THEN Gives(WithNode(k, name, n), TRUE)
  ELSE Gives([k EXCEPT !.tasks = @ @@ (name :> [t EXCEPT !.nodes = @ \cup {n}]),
                       !.described = IF TakesProperties(t.kind) THEN @ \cup {t.class} ELSE @],
             TRUE)

\* get makes a group of a name it does not find.
Get(k, name) ==
  IF name \in Names(k) THEN Gives(k, TRUE)
  ELSE AddTaskRef(k, name, Task("group", name), Own)

\* A group is cloned with what it groups, another task with what it depends on.
Cloned(k, new, name) ==
  LET t == k.tasks[name]
      groups == IF TakesProperties(t.kind)
                THEN UNION {d.groups : d \in {x \in TaskDefs : x.class = t.class}} ELSE {}
      plain == Constructed(k, new, groups)
  IN IF t.kind = "group"
     THEN [plain EXCEPT !.group = @ \cup {Binding(new, x) : x \in Subtasks(k, name)}]
     ELSE [plain EXCEPT !.depends = @ \cup {Binding(x, new) : x \in DependsOf(k, name)}]

\* Slip: the tasks stay although no node has them.
KeepsTask(k, name) == k
\* removeTask, with the properties of its class and every binding of the name
RemoveTask(k, name) ==
  LET rest == {b \in UNION {k.group, k.depends} : name \notin {b.source, b.target}}
  IN [tasks |-> [n \in Names(k) \ {name} |-> k.tasks[n]],
      group |-> k.group \cap rest, depends |-> k.depends \cap rest,
      described |-> k.described \ {k.tasks[name].class}]

-----------------------------------------------------------------------------
(* The program *)

Did(k) == ended = Idle /\ known' = k /\ UNCHANGED ended

\* addTask, task, new
AddDefined(d) ==
  /\ Did(AddTaskRef(Constructed(known, d.name, d.groups), d.name,
                    Task(d.kind, d.class), Own).known)
  /\ UNCHANGED <<present, told>>

\* group, dependsOn
BindTasks(b) ==
  /\ Did([known EXCEPT ![b.kind] = @ \cup {Binding(b.source, b.target)}])
  /\ UNCHANGED <<present, told>>

\* taskMap; the clone of a remote task cannot be named.
Map(new, name) ==
  LET source == Get(known, name)
      k == source.known
  IN /\ Lists(known, name)
     /\ Did(IF ~source.ok \/ k.tasks[name].kind = "remote" THEN k
            ELSE AddTaskRef(Cloned(k, new, name), new, k.tasks[name], Own).known)
     /\ UNCHANGED <<present, told>>

-----------------------------------------------------------------------------
(* Other nodes *)

\* addRemoteTask takes over the nodes the sender lists for the task.
RemoteTask(name, nodes) ==
  [Task("remote", "remote") EXCEPT !.nodes = {m \in nodes : name \in ToSet(Offered[m])}]

\* onNodeRegister of n, which has heard of nodes; a group that may not be made ends it.
Registers(k, n, name, nodes) ==
  IF Lists(k, name)
  THEN LET r == Get(k, name)
       IN IF r.ok THEN Gives(WithNode(r.known, name, n), TRUE) ELSE r
  ELSE AddTaskRef(k, name, RemoteTask(name, nodes), n)

\* Slip: a task is removed with the first node that leaves.
RemovedAtOnce(k, n, name) ==
  IF Lists(k, name)
  THEN LET r == Get(k, name) IN IF r.ok THEN Gives(RemoveTask(r.known, name), TRUE) ELSE r
  ELSE Gives(k, TRUE)
\* onNodeUnregister
Unregisters(k, n, name) ==
  IF ~Lists(k, name) THEN Gives(k, TRUE)
  ELSE LET r == Get(k, name)
           s == [r.known EXCEPT !.tasks[name].nodes = @ \ {n}]
       IN IF ~r.ok THEN r
          ELSE Gives(IF s.tasks[name].nodes = {} THEN RemoveTask(s, name) ELSE s, TRUE)

NamedBy(k, name, n) == {<<name, m>> : m \in k.tasks[name].nodes \ {n}}

\* One task after the other, until one of them ends it.
NodeComes(n, nodes) ==
  /\ n \notin present /\ present' = present \cup {n}
  /\ Did(FoldLeft(LAMBDA s, name : IF s.ok THEN Registers(s.known, n, name, nodes) ELSE s,
                  Gives(known, TRUE), Offered[n]).known)
  /\ told' = told \cup UNION {NamedBy(known', name, n) : name \in Remote(known') \ Names(known)}

NodeLeaves(n) ==
  /\ n \in present /\ present' = present \ {n}
  /\ Did(FoldLeft(LAMBDA s, name : IF s.ok THEN Unregisters(s.known, n, name) ELSE s,
                  Gives(known, TRUE), Offered[n]).known)
  /\ told' = {t \in told : t[1] \in Names(known') /\ t[2] \in known'.tasks[t[1]].nodes}

-----------------------------------------------------------------------------
(* Execution *)

\* The runs made of names below path: a name without a task throws, and so does one that
\* comes back to itself, when the stack is full.
RECURSIVE RunsOf(_, _, _)
RunsOf(s, names, path) ==
  LET WithRuns(r, name) ==
        LET g == Get(r.known, name)
            here == [known |-> g.known, ok |-> g.ok /\ name \notin path,
                     runs |-> r.runs \cup {name}]
            subs == RunsOf(here, SetToSeq(Subtasks(g.known, name)), path \cup {name})
        IN IF ~here.ok THEN here
           ELSE RunsOf(subs, SetToSeq(DependsOf(g.known, name)), path \cup {name})
  IN FoldLeft(LAMBDA r, name : IF r.ok THEN WithRuns(r, name) ELSE r, s, names)

\* Slip: the runs of the names alone.
RunsOfNames(k, names) ==
  [known |-> k, ok |-> \A i \in DOMAIN names : Lists(k, names[i]), runs |-> ToSet(names)]
\* constructor of TaskRunner: resolveDeps, createTaskRun
Planned(k, names) == RunsOf([known |-> k, ok |-> TRUE, runs |-> {}], names, {})

Needs(k, name) ==
  LET c == k.tasks[name].class
  IN IF c \in k.described THEN Incoming[c] ELSE {}
Provides(k, name) ==
  LET c == k.tasks[name].class
  IN IF c \in k.described THEN Outgoing[c] ELSE {}

\* getRequiredIncomings
Required(k, names) ==
  FoldLeft(LAMBDA r, name : (r \cup Needs(k, name)) \ Provides(k, name), {}, names)

\* executable: there is nothing to call for a task of another node.  Its run throws where
\* nobody hears it, and the runner waits for it for ever.
Executable(k, runs) == \A n \in runs : k.tasks[n].kind # "remote"

\* exec of names that are to be executed here
Exec(a) ==
  LET plan == Planned(known, a.names)
      Runs == ended' = [what |-> "runs", asked |-> a, runs |-> plan.runs]
      Ends(what) == ended' = [what |-> what]
  IN /\ ended = Idle
     /\ IF \E n \in ToSet(a.names) : ~Lists(known, n)
        THEN Ends("unknown") /\ UNCHANGED known
        ELSE IF ~(ToSet(a.names) \subseteq Names(known)) THEN Ends("nothing") /\ UNCHANGED known
        ELSE IF ~(Required(known, a.names) \subseteq a.given)
        THEN Ends("lacking") /\ UNCHANGED known
        ELSE /\ IF ~plan.ok THEN Ends("broken")
                ELSE IF Executable(plan.known, plan.runs) THEN Runs ELSE Ends("hangs")
             /\ known' = plan.known
     /\ UNCHANGED <<present, told>>

ExecEnds ==
  /\ ended # Idle /\ ended' = Idle
  /\ UNCHANGED <<known, present, told>>

NextTasks ==
  \/ ExecEnds
  \/ \E d \in TaskDefs : AddDefined(d)
  \/ \E b \in Bindings : BindTasks(b)
  \/ \E m \in Mappings : Map(m[1], m[2])
  \/ \E n \in DOMAIN Offered :
       NodeLeaves(n) \/ \E nodes \in HeardOf[n] : NodeComes(n, nodes)
  \/ \E a \in Asked : Exec(a)

-----------------------------------------------------------------------------

\* A task of this process is one that the rules allow, whether it was added, mapped, or
\* made because it was named as a group.
LocalTasksHere == \A n \in Local(known) : Accessible(n) /\ Own \in known.tasks[n].nodes

\* A task of other nodes goes with the last node that is listed for it; a node that has
\* gone is listed only if the info of a third node named it, since when it has not left.
RemoteTasksElsewhere ==
  \A n \in Remote(known) :
    /\ known.tasks[n].nodes # {}
    /\ \A m \in known.tasks[n].nodes \ {Own} : m \in present \/ <<n, m>> \in told

\* A node that is there is listed for its tasks, whoever of the others leaves, up to the
\* first that is the name of a group the rules deny here.
PresentAreListed ==
  \A m \in present : \E last \in 0..Len(Offered[m]) :
    /\ \A i \in 1..last :
         Offered[m][i] \in Names(known) /\ m \in known.tasks[Offered[m][i]].nodes
    /\ last < Len(Offered[m]) => ~Accessible(Offered[m][last + 1])

\* Which nodes a task is asked of is taken from its list.
TasksHaveAPlace == LocalTasksHere /\ RemoteTasksElsewhere /\ PresentAreListed

\* Whatever nodes come and go, what the program said of its own tasks holds on: a task
\* stays as it is, with its properties, and so does what it groups and depends on.
LocalTasksStay ==
  [][/\ \A n \in Local(known) :
          /\ n \in Local(known') /\ known'.tasks[n].class = known.tasks[n].class
          /\ known.tasks[n].class \in known.described => known.tasks[n].class \in known'.described
     /\ \A b \in known.group \cup known.depends :
          {b.source, b.target} \subseteq Local(known) => b \in known'.group \cup known'.depends]_taskVars

\* exec() runs tasks that are all here, with what they group and depend on to the last, and
\* with each value that the named ones require, given by the caller or by one of them.
RunsAreComplete ==
  ended.what = "runs" =>
    LET a == ended.asked  named == ToSet(a.names)
    IN /\ named \subseteq ended.runs /\ ended.runs \subseteq Local(known)
       /\ \A n \in ended.runs :
            Subtasks(known, n) \cup DependsOf(known, n) \subseteq ended.runs
       /\ \A n \in named :
            Needs(known, n) \subseteq a.given \cup UNION {Provides(known, m) : m \in named}
=============================================================================
